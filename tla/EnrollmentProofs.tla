------------------------- MODULE EnrollmentProofs -------------------------
(***************************************************************************)
(* Proofs about Requests and Enrollment: for any accounts, credentials,    *)
(* requests, crashes, takeovers and steps of the time of day no ledger     *)
(* holds a signed request twice, no nonce is signed twice, and the status  *)
(* of an enrollment is true of the registry and of the ledger that it was  *)
(* read from.                                                              *)
(***************************************************************************)
EXTENDS Enrollment, FiniteSetTheorems, WellFoundedInduction, TLAPS

SignedRequests == {x.request : x \in signed}

\* A client waits for an answer to what it signed, or for nothing.
CallOK(x) == x = NoCall \/ x \in [request : SignedRequests, at : 1..3]

Bounds == now \in 0..MaxTime /\ leader \in 1..3 /\ faults \in Nat

\* Only signed requests travel, and only they are executed.
Traffic ==
    /\ IsFiniteSet(signed) /\ signed \subseteq [client : Clients, request : Requests]
    /\ call = [c \in Clients |-> call[c]] /\ \A c \in Clients : CallOK(call[c])
    /\ late \subseteq [request : SignedRequests, to : 1..3]
    /\ ledger \in [1..3 -> Seq(Requests)] /\ acked \subseteq SignedRequests
    /\ \A b \in 1..3 : \A k \in DOMAIN ledger[b] : ledger[b][k] \in SignedRequests

\* The nonces of an actor grow along every ledger.
Grows(h) == \A j, k \in DOMAIN h : j < k /\ h[j].actor = h[k].actor => h[j].nonce < h[k].nonce
Increasing == \A b \in 1..3 : Grows(ledger[b])

\* What the clock signed is covered by its file, what a wallet signed by its next nonce.
Reserved ==
    /\ clock_file \in Nat \cup {-1} /\ next_nonce \in [Accounts -> Nat]
    /\ \A x \in signed :
           /\ x.client = "clock" => x.request.actor = Operator /\ x.request.nonce <= clock_file
           /\ x.client = "gateway" =>
                  x.request.actor \in Accounts /\ x.request.nonce < next_nonce[x.request.actor]
    /\ NoNonceReused

Enrolled(a) == registry[a] \in Credentials /\ registry[a] = file[a].credential

\* Only accounts that are in the registry with the credential of their file are registered.
Registrations ==
    \A x \in signed : x.request.method = "account.register" =>
                          x.request.account \in Accounts /\ Enrolled(x.request.account)

Files ==
    /\ registry \in [Accounts -> Credentials \cup {"none"}]
    /\ temp \subseteq Accounts
    /\ file = [a \in Accounts |-> file[a]]
    /\ \A a \in Accounts :
           file[a] = NoFile \/ file[a] \in [credential : Credentials, status : {"pending", "approved", "active"}]

\* What the approval under way has achieved.
Approval ==
    /\ admin \in [at : Stages, account : Accounts \cup {"none"}, backend : 0..3]
    /\ admin.at # "idle" => admin.account \in Accounts /\ file[admin.account] # NoFile
    /\ admin.at \notin {"idle", "registry"} => Enrolled(admin.account)
    /\ admin.at \in {"status", "register"} => admin.backend \in 1..3
    /\ admin.at = "active" => listed(admin.account)
    /\ admin.at = "register" =>
           /\ ~idle("enrollment")
           /\ call["enrollment"].request.method = "account.register"
           /\ call["enrollment"].request.account = admin.account

RInv == Bounds /\ Traffic /\ Increasing /\ Reserved
EInv == Registrations /\ Files /\ Approval /\ StatusIsTrue
IInv == RInv /\ EInv
-----------------------------------------------------------------------------
(* The ledgers.                                                            *)

LEMMA LastOf ==
    ASSUME NEW n \in Nat, NEW S \in SUBSET (1..n), S # {}
    PROVE  \E k \in S : \A j \in S : j <= k
<1> DEFINE T == {n - k : k \in S}
<1>0. \A k \in S : k \in Int /\ n - k \in Nat
  OBVIOUS
<1>1. T \subseteq Nat /\ T # {}
  <2>1. T \subseteq Nat BY <1>0
  <2>2. PICK k \in S : TRUE OBVIOUS
  <2>3. n - k \in T OBVIOUS
  <2> QED BY <2>1, <2>3
<1>2. PICK x \in T : \A y \in T : ~ (<<y, x>> \in OpToRel(<, Nat))
  BY <1>1, WFMin, NatLessThanWellFounded
<1>3. ASSUME NEW y \in T PROVE x <= y
  <2>1. x \in Nat /\ y \in Nat BY <1>1
  <2>2. <<y, x>> \in Nat \X Nat /\ <<y, x>>[1] = y /\ <<y, x>>[2] = x BY <2>1
  <2>3. ~(y < x) BY <1>2, <2>2, Zenon DEF OpToRel
  <2> QED BY <2>1, <2>3
<1>4. PICK k \in S : x = n - k
  OBVIOUS
<1>5. ASSUME NEW j \in S PROVE j <= k
  <2>1. n - j \in T OBVIOUS
  <2>2. n - k <= n - j BY <1>3, <1>4, <2>1
  <2>3. j \in Int /\ k \in Int BY <1>0
  <2> QED BY <2>2, <2>3
<1> QED BY <1>5

\* A request that a backend accepts has a nonce above all earlier ones of its actor.
LEMMA VerifyAbove ==
    ASSUME NEW b, NEW h \in Seq(Requests), h = ledger[b], Grows(h), NEW r \in Requests, verify(b, r),
           NEW j \in DOMAIN h, h[j].actor = r.actor
    PROVE  h[j].nonce < r.nonce
<1> DEFINE used == {k \in DOMAIN h : h[k].actor = r.actor}
<1>1. Len(h) \in Nat /\ DOMAIN h = 1..Len(h)
  OBVIOUS
<1>2. used \in SUBSET (1..Len(h)) /\ used # {}
  BY <1>1
<1>3. \E k \in used : \A i \in used : i <= k
  BY <1>1, <1>2, LastOf
<1> DEFINE last == CHOOSE k \in used : \A i \in used : i <= k
<1>4. last \in used /\ \A i \in used : i <= last
  BY <1>3
<1>5. nonces(b, r.actor) = h[last].nonce
  BY <1>2 DEF nonces
<1> HIDE DEF last
<1>6. j <= last /\ j \in 1..Len(h) /\ last \in DOMAIN h
  BY <1>1, <1>4
<1>7. h[j].nonce \in Nat /\ h[last].nonce \in Nat /\ r.nonce \in Nat
  <2>1. h[j] \in Requests /\ h[last] \in Requests BY <1>6
  <2>2. \A q \in Requests : q.nonce \in Nat BY DEF Requests
  <2> QED BY <2>1, <2>2
<1>8. h[j].nonce <= h[last].nonce
  <2>1. CASE j = last BY <1>7, <2>1
  <2>2. CASE j # last
    <3>1. j < last BY <1>1, <1>6, <2>2
    <3> QED BY <1>4, <1>6, <1>7, <3>1 DEF Grows
  <2> QED BY <2>1, <2>2
<1>9. r.nonce > h[last].nonce
  BY <1>5 DEF verify
<1> QED BY <1>7, <1>8, <1>9

\* After a step: the ledgers hold signed requests, with growing nonces.
LedgersOK ==
    /\ ledger' \in [1..3 -> Seq(Requests)]
    /\ \A b \in 1..3 : \A k \in DOMAIN ledger'[b] : ledger'[b][k] \in SignedRequests
    /\ Increasing'

LEMMA Executes ==
    ASSUME Traffic, Increasing, NEW b \in 1..3, NEW r \in SignedRequests, Execute(b, r)
    PROVE  /\ LedgersOK
           /\ \A c \in 1..3 : \A a : registered(c, a) => registered(c, a)'
           /\ accepts(b, r) /\ r.method = "account.register" => registered(b, r.account)'
<1>0. r \in Requests /\ ledger \in [1..3 -> Seq(Requests)]
  BY DEF Traffic, SignedRequests
<1>1. CASE ~accepts(b, r)
  BY <1>0, <1>1 DEF Execute, Traffic, Increasing, LedgersOK, registered
<1>2. CASE accepts(b, r)
  <2>1. verify(b, r) /\ ledger' = [ledger EXCEPT ![b] = Append(ledger[b], r)]
    BY <1>2 DEF Execute, accepts
  <2>2. PICK h \in Seq(Requests) : h = ledger[b]
    BY <1>0
  <2>3. /\ ledger' \in [1..3 -> Seq(Requests)]
        /\ ledger'[b] = Append(h, r)
        /\ \A c \in 1..3 : c # b => ledger'[c] = ledger[c]
    BY <1>0, <2>1, <2>2
  <2>4. /\ Len(h) \in Nat /\ DOMAIN h = 1..Len(h)
        /\ DOMAIN ledger'[b] = 1..(Len(h) + 1)
        /\ \A k \in 1..Len(h) : ledger'[b][k] = h[k]
        /\ ledger'[b][Len(h) + 1] = r
    BY <1>0, <2>3
  <2>5. ASSUME NEW c \in 1..3, NEW k \in DOMAIN ledger'[c] PROVE ledger'[c][k] \in SignedRequests
    <3>1. CASE c = b
      <4>1. \A i \in 1..Len(h) : h[i] \in SignedRequests BY <2>2, <2>4 DEF Traffic
      <4>2. k \in 1..Len(h) \/ k = Len(h) + 1 BY <2>4, <3>1
      <4> QED BY <2>4, <3>1, <4>1, <4>2
    <3>2. CASE c # b BY <2>3, <3>2 DEF Traffic
    <3> QED BY <3>1, <3>2
  <2>6. Grows(h)
    BY <2>2 DEF Increasing
  <2>7. Grows(ledger'[b])
    <3> SUFFICES ASSUME NEW j \in DOMAIN ledger'[b], NEW k \in DOMAIN ledger'[b],
                        j < k, ledger'[b][j].actor = ledger'[b][k].actor
                 PROVE  ledger'[b][j].nonce < ledger'[b][k].nonce
      BY DEF Grows
    <3>1. j \in 1..Len(h) BY <2>4
    <3>2. CASE k \in 1..Len(h) BY <2>4, <2>6, <3>1, <3>2 DEF Grows
    <3>3. CASE k = Len(h) + 1
      <4>1. j \in DOMAIN h /\ h[j].actor = r.actor BY <2>4, <3>1, <3>3
      <4>2. h[j].nonce < r.nonce BY <1>0, <2>1, <2>2, <2>6, <4>1, VerifyAbove
      <4> QED BY <2>4, <3>1, <3>3, <4>2
    <3> QED BY <2>4, <3>2, <3>3
  <2>8. Increasing'
    BY <2>3, <2>7 DEF Increasing
  <2>9. ASSUME NEW c \in 1..3, NEW a, registered(c, a) PROVE registered(c, a)'
    <3>1. CASE c = b
      <4>1. PICK i \in 1..Len(h) : h[i].method = "account.register" /\ h[i].account = a
        BY <2>2, <2>4, <2>9, <3>1 DEF registered
      <4>2. i \in DOMAIN ledger'[b] /\ ledger'[b][i] = h[i] BY <2>4
      <4> QED BY <3>1, <4>1, <4>2 DEF registered
    <3>2. CASE c # b BY <2>3, <2>9, <3>2 DEF registered
    <3> QED BY <3>1, <3>2
  <2>10. r.method = "account.register" => registered(b, r.account)'
    BY <2>4 DEF registered
  <2> QED BY <2>3, <2>5, <2>8, <2>9, <2>10 DEF LedgersOK
<1> QED BY <1>1, <1>2

\* A takeover hands on the first requests of a ledger, and leaves those of earlier leaders.
LEMMA TakeoverMoves ==
    ASSUME RInv, NEW k \in 0..Len(ledger[leader]), Takeover(k)
    PROVE  LedgersOK /\ leader' \in 1..3 /\ \A a : listed(a) => listed(a)'
<1>1. /\ ledger \in [1..3 -> Seq(Requests)] /\ leader \in 1..3 /\ leader + 1 \in 1..3 /\ leader' = leader + 1
      /\ ledger' = [ledger EXCEPT ![leader + 1] = SubSeq(ledger[leader], 1, k)]
  BY DEF RInv, Bounds, Traffic, Takeover, BACKENDS
<1>2. PICK h \in Seq(Requests) : h = ledger[leader]
  BY <1>1
<1>3. /\ SubSeq(h, 1, k) \in Seq(Requests) /\ DOMAIN SubSeq(h, 1, k) = 1..k
      /\ 1..k \subseteq DOMAIN h /\ \A i \in 1..k : SubSeq(h, 1, k)[i] = h[i]
  BY <1>2
<1>4. /\ ledger' \in [1..3 -> Seq(Requests)] /\ ledger'[leader + 1] = SubSeq(h, 1, k)
      /\ \A c \in 1..3 : c # leader + 1 => ledger'[c] = ledger[c]
  BY <1>1, <1>2, <1>3
<1>5. ASSUME NEW c \in 1..3, NEW i \in DOMAIN ledger'[c] PROVE ledger'[c][i] \in SignedRequests
  BY <1>1, <1>2, <1>3, <1>4 DEF RInv, Traffic
<1>6. Increasing'
  <2>1. Grows(h) BY <1>1, <1>2 DEF RInv, Increasing
  <2>2. Grows(SubSeq(h, 1, k)) BY <1>3, <2>1 DEF Grows
  <2> QED BY <1>4, <2>2 DEF RInv, Increasing
<1>7. ASSUME NEW a, listed(a) PROVE listed(a)'
  <2>1. PICK c \in 1..leader : registered(c, a) BY <1>7 DEF listed, Leaders
  <2>2. c \in 1..leader' /\ ledger'[c] = ledger[c] BY <1>1, <1>4
  <2>3. registered(c, a)' BY <2>1, <2>2 DEF registered
  <2> QED BY <2>2, <2>3 DEF listed, Leaders
<1> QED BY <1>1, <1>4, <1>5, <1>6, <1>7 DEF LedgersOK

\* A step of the nodes executes a signed request at a backend, or is a takeover, or nothing.
Executing    == leader' = leader /\ \E b \in 1..3, r \in SignedRequests : Execute(b, r)
LedgerMoves  == UNCHANGED <<ledger, leader>> \/ Executing \/ \E k \in 0..Len(ledger[leader]) : Takeover(k)

LEMMA LedgersMove ==
    ASSUME RInv, LedgerMoves
    PROVE  LedgersOK /\ \A a : listed(a) => listed(a)'
<1>1. CASE UNCHANGED <<ledger, leader>>
  BY <1>1 DEF RInv, Traffic, Increasing, LedgersOK, listed, Leaders, registered
<1>2. CASE Executing
  <2>1. PICK b \in 1..3, r \in SignedRequests : Execute(b, r) BY <1>2 DEF Executing
  <2>2. LedgersOK /\ \A c \in 1..3 : \A a : registered(c, a) => registered(c, a)'
    BY <2>1, Executes DEF RInv
  <2>3. leader' = leader /\ 1..leader \subseteq 1..3 BY <1>2 DEF Executing, RInv, Bounds
  <2> QED BY <2>2, <2>3 DEF listed, Leaders
<1> QED BY <1>1, <1>2, TakeoverMoves DEF LedgerMoves

CallsOK == call' = [c \in Clients |-> call'[c]] /\ \A c \in Clients : CallOK(call'[c])

LEMMA RequestStep ==
    ASSUME RInv, LedgerMoves, UNCHANGED <<signed, clock_file, next_nonce>>, Bounds',
           acked' \subseteq SignedRequests, late' \subseteq [request : SignedRequests, to : 1..3], CallsOK
    PROVE  RInv' /\ \A a : listed(a) => listed(a)'
<1>1. LedgersOK /\ \A a : listed(a) => listed(a)'
  BY LedgersMove
<1>2. SignedRequests' = SignedRequests
  BY DEF SignedRequests
<1>3. Traffic'
  BY <1>1, <1>2 DEF RInv, Traffic, CallsOK, CallOK, LedgersOK
<1>4. Reserved'
  BY DEF RInv, Reserved, NoNonceReused
<1> QED BY <1>1, <1>3, <1>4 DEF RInv, LedgersOK

LEMMA ApprovalKept ==
    ASSUME Approval, \A a : listed(a) => listed(a)', UNCHANGED <<registry, file, admin>>,
           call'["enrollment"] = call["enrollment"]
    PROVE  Approval'
BY DEF Approval, Enrolled, idle

LEMMA EnrollmentKept ==
    ASSUME EInv, \A a : listed(a) => listed(a)', UNCHANGED <<signed, registry, file, temp>>,
           Approval'
    PROVE  EInv'
BY DEF EInv, Registrations, Files, Enrolled, StatusIsTrue

LEMMA CallMoves ==
    ASSUME RInv, NEW c \in Clients, (~idle(c) /\ MoveOn(c)) \/ Stop(c)
    PROVE  CallsOK /\ \A d \in Clients : d # c => call'[d] = call[d]
<1>1. CallOK(call[c]) /\ call = [d \in Clients |-> call[d]] /\ \A d \in Clients : CallOK(call[d])
  BY DEF RInv, Traffic
<1>2. PICK x : call' = [call EXCEPT ![c] = x] /\ CallOK(x)
  <2>1. CASE Stop(c) BY <2>1 DEF Stop, CallOK
  <2>2. CASE ~idle(c) /\ MoveOn(c)
    <3>1. call[c] \in [request : SignedRequests, at : 1..3]
      BY <1>1, <2>2 DEF CallOK, idle, NoCall
    <3>2. CASE call[c].at = 3 BY <2>2, <3>2 DEF MoveOn, BACKENDS, CallOK
    <3>3. CASE call[c].at # 3
      <4>1. call' = [call EXCEPT ![c] = [request |-> call[c].request, at |-> call[c].at + 1]]
        BY <2>2, <3>3 DEF MoveOn, BACKENDS
      <4>2. [request |-> call[c].request, at |-> call[c].at + 1] \in [request : SignedRequests, at : 1..3]
        BY <3>1, <3>3
      <4> QED BY <4>1, <4>2 DEF CallOK
    <3> QED BY <3>2, <3>3
  <2> QED BY <2>1, <2>2
<1>3. call' = [d \in Clients |-> IF d = c THEN x ELSE call[d]]
  BY <1>1, <1>2
<1> QED BY <1>1, <1>2, <1>3 DEF CallsOK

LEMMA CallIsSigned ==
    ASSUME RInv, NEW c \in Clients, ~idle(c)
    PROVE  call[c].request \in SignedRequests /\ call[c].at \in 1..3
BY DEF RInv, Traffic, CallOK, idle, NoCall
-----------------------------------------------------------------------------
(* Steps of the clients, the network and the nodes.                        *)

\* A step that signs nothing and leaves the approval alone.
LEMMA Undisturbed ==
    ASSUME IInv, LedgerMoves, UNCHANGED <<signed, clock_file, next_nonce, registry, file, temp, admin>>,
           Bounds', acked' \subseteq SignedRequests, late' \subseteq [request : SignedRequests, to : 1..3], CallsOK,
           call'["enrollment"] = call["enrollment"]
    PROVE  IInv'
<1>1. RInv' /\ \A a : listed(a) => listed(a)'
  BY RequestStep DEF IInv
<1>2. Approval'
  BY <1>1, ApprovalKept DEF IInv, EInv
<1> QED BY <1>1, <1>2, EnrollmentKept DEF IInv

LEMMA CallsKept ==
    ASSUME RInv, call' = call
    PROVE  CallsOK
BY DEF RInv, Traffic, CallsOK

\* What a backend does with a request that reached it.
LEMMA BackendStep ==
    ASSUME RInv, leader' = leader, NEW b \in 1..3, NEW r \in SignedRequests,
           (UNCHANGED <<ledger, acked>>) \/ (Runs(b, r) /\ UNCHANGED acked) \/ Commits(b, r)
    PROVE  LedgerMoves /\ acked' \subseteq SignedRequests
BY DEF RInv, Traffic, Runs, Commits, LedgerMoves, Executing

\* One round of a client at a backend, with the outcome of the request.
LEMMA ClientStep ==
    ASSUME IInv, NEW c \in Clients, Refer(c) \/ Answered(c) \/ NoAnswer(c) \/ Restart(c),
           UNCHANGED <<file, temp, admin>>
    PROVE  IInv'
<1>1. c # "enrollment" /\ ~idle(c) /\ (MoveOn(c) \/ Stop(c))
  BY DEF Refer, Answered, NoAnswer, Restart
<1>2. CallsOK /\ call'["enrollment"] = call["enrollment"]
  BY <1>1, CallMoves DEF IInv, Clients
<1>3. PICK r \in SignedRequests, b \in 1..3 : r = call[c].request /\ b = call[c].at
  BY <1>1, CallIsSigned DEF IInv
<1>4. LedgerMoves /\ acked' \subseteq SignedRequests
  <2>1. leader' = leader
    BY DEF Refer, Answered, NoAnswer, Restart, nodes
  <2>2. (UNCHANGED <<ledger, acked>>) \/ (Runs(b, r) /\ UNCHANGED acked) \/ Commits(b, r)
    BY <1>3 DEF Refer, Answered, NoAnswer, Restart, TimedOut, nodes
  <2> QED BY <2>1, <2>2, BackendStep DEF IInv
<1>5. late' \subseteq [request : SignedRequests, to : 1..3]
  <2>1. late \subseteq [request : SignedRequests, to : 1..3]
    BY DEF IInv, RInv, Traffic
  <2>2. late' = late \/ late' = late \cup {[request |-> call[c].request, to |-> call[c].at]}
    BY DEF Refer, Answered, NoAnswer, Restart, TimedOut
  <2> QED BY <1>3, <2>1, <2>2
<1>6. Bounds'
  BY DEF IInv, RInv, Bounds, Refer, Answered, NoAnswer, Restart, TimedOut, Fault, nodes
<1>7. UNCHANGED <<signed, clock_file, next_nonce, registry>>
  BY DEF Refer, Answered, NoAnswer, Restart
<1> QED BY <1>2, <1>4, <1>5, <1>6, <1>7, Undisturbed

LEMMA NetworkStep ==
    ASSUME IInv, DeliverLate \/ (\E k \in 0..Len(ledger[leader]) : Takeover(k)) \/ Tick \/ StepBack,
           UNCHANGED <<file, temp, admin>>
    PROVE  IInv'
<1>1. call' = call /\ UNCHANGED <<signed, clock_file, next_nonce, registry, acked>>
  BY DEF DeliverLate, Takeover, Tick, StepBack, nodes
<1>2. late \subseteq [request : SignedRequests, to : 1..3]
  BY DEF IInv, RInv, Traffic
<1>3. late' \subseteq late
  BY DEF DeliverLate, Takeover, Tick, StepBack
<1>4. LedgerMoves
  <2>1. CASE DeliverLate
    <3>1. PICK x \in late : Runs(x.to, x.request) BY <2>1 DEF DeliverLate
    <3>2. PICK r \in SignedRequests, b \in 1..3 : r = x.request /\ b = x.to BY <1>2, <3>1
    <3>3. leader' = leader BY <2>1 DEF DeliverLate
    <3> QED BY <1>1, <3>1, <3>2, <3>3, BackendStep DEF IInv
  <2> QED BY <2>1 DEF Tick, StepBack, LedgerMoves, nodes
<1>5. Bounds'
  <2>1. leader' \in 1..3
    BY TakeoverMoves DEF IInv, RInv, Bounds, DeliverLate, Tick, StepBack, nodes
  <2>2. now' \in 0..MaxTime /\ faults' \in Nat
    BY RequestsAssumption DEF IInv, RInv, Bounds, DeliverLate, Takeover, Tick, StepBack, Fault
  <2> QED BY <2>1, <2>2 DEF Bounds
<1>6. acked' \subseteq SignedRequests
  BY <1>1 DEF IInv, RInv, Traffic
<1> QED BY <1>1, <1>2, <1>3, <1>4, <1>5, <1>6, CallsKept, Undisturbed DEF IInv
-----------------------------------------------------------------------------
(* Signing.                                                                *)

\* A new signature changes nothing of what travels and what is executed.
Signature(c, actor, nonce, method, account) ==
    \E r \in Requests :
        /\ r.actor = actor /\ r.nonce = nonce /\ r.method = method /\ r.account = account
        /\ signed' = signed \cup {[client |-> c, request |-> r]}
        /\ call'[c] = [request |-> r, at |-> 1]
        /\ \A d \in Clients : d # c => call'[d] = call[d]
        /\ Traffic' /\ Increasing'
        /\ \A a : listed(a) => listed(a)'

LEMMA SignStep ==
    ASSUME RInv, NEW c \in Clients, NEW actor \in Accounts \cup {Operator}, NEW nonce \in Nat,
           NEW method \in {"advance", "offer", "account.register"}, NEW account \in Accounts \cup {"none"},
           Sign(c, actor, nonce, method, account), UNCHANGED <<nodes, late>>
    PROVE  Signature(c, actor, nonce, method, account)
<1> DEFINE r == [actor |-> actor, nonce |-> nonce, id |-> Cardinality(signed),
                 method |-> method, account |-> account]
<1>1. IsFiniteSet(signed) /\ signed \subseteq [client : Clients, request : Requests]
  BY DEF RInv, Traffic
<1>2. r \in Requests
  <2>1. Cardinality(signed) \in Nat BY <1>1, FS_CardinalityType
  <2> QED BY <2>1 DEF Requests
<1>3. signed' = signed \cup {[client |-> c, request |-> r]} /\ call' = [call EXCEPT ![c] = [request |-> r, at |-> 1]]
  BY DEF Sign
<1>4. r.actor = actor /\ r.nonce = nonce /\ r.method = method /\ r.account = account
  OBVIOUS
<1> HIDE DEF r
<1>5. SignedRequests \subseteq SignedRequests' /\ r \in SignedRequests'
  <2>1. [client |-> c, request |-> r] \in signed' /\ [client |-> c, request |-> r].request = r BY <1>3
  <2> QED BY <1>3, <2>1 DEF SignedRequests
<1>6. call' = [d \in Clients |-> IF d = c THEN [request |-> r, at |-> 1] ELSE call[d]]
  BY <1>3 DEF RInv, Traffic
<1>7. ASSUME NEW d \in Clients PROVE CallOK(call[d])'
  <2>1. CASE d = c
    <3>1. [request |-> r, at |-> 1] \in [request : SignedRequests', at : 1..3] BY <1>5
    <3> QED BY <1>6, <2>1, <3>1 DEF CallOK
  <2>2. CASE d # c
    <3>1. call'[d] = call[d] /\ CallOK(call[d]) BY <1>6, <2>2 DEF RInv, Traffic
    <3>2. [request : SignedRequests, at : 1..3] \subseteq [request : SignedRequests', at : 1..3] BY <1>5
    <3> QED BY <3>1, <3>2 DEF CallOK
  <2> QED BY <2>1, <2>2
<1>8. IsFiniteSet(signed') /\ signed' \subseteq [client : Clients, request : Requests]
  <2>1. PICK S : S = signed OBVIOUS
  <2>2. IsFiniteSet(S \cup {[client |-> c, request |-> r]}) BY <1>1, <2>1, FS_AddElement
  <2>3. IsFiniteSet(signed') BY <1>3, <2>1, <2>2
  <2> QED BY <1>1, <1>2, <1>3, <2>3
<1>9. late' \subseteq [request : SignedRequests', to : 1..3]
  BY <1>5 DEF RInv, Traffic
<1>10. Traffic'
  BY <1>5, <1>6, <1>7, <1>8, <1>9 DEF RInv, Traffic, nodes
<1>11. Increasing' /\ \A a : listed(a) => listed(a)'
  BY DEF RInv, Increasing, listed, registered, Leaders, nodes
<1> QED BY <1>2, <1>3, <1>4, <1>6, <1>10, <1>11 DEF Signature

LEMMA MaxOf ==
    ASSUME NEW a \in Int, NEW b \in Int
    PROVE  Max({a, b}) \in {a, b} /\ Max({a, b}) >= a /\ Max({a, b}) >= b
<1>1. \E x \in {a, b} : \A y \in {a, b} : x >= y
  BY a >= b \/ b >= a
<1> DEFINE m == CHOOSE x \in {a, b} : \A y \in {a, b} : x >= y
<1>2. m \in {a, b} /\ \A y \in {a, b} : m >= y
  BY <1>1
<1> QED BY <1>2 DEF Max

\* The clock and the wallets sign above all that they reserved.
LEMMA ClockSigns ==
    ASSUME IInv, next_request, UNCHANGED <<file, temp, admin>>
    PROVE  IInv'
<1>1. now \in Nat /\ clock_file \in Int /\ clock_file >= -1
  BY RequestsAssumption DEF IInv, RInv, Bounds, Reserved
<1>2. PICK nonce \in Nat : nonce = Max({now, clock_file + 1}) /\ nonce > clock_file
  <2>1. PICK a \in Nat, b \in Nat : a = now /\ b = clock_file + 1 /\ b > clock_file BY <1>1
  <2>2. Max({a, b}) \in {a, b} /\ Max({a, b}) >= b BY MaxOf
  <2> QED BY <1>1, <2>1, <2>2
<1>3. Sign("clock", Operator, nonce, "advance", "none") /\ clock_file' = nonce
  BY <1>2 DEF next_request
<1>4. UNCHANGED <<now, nodes, late, next_nonce, registry, faults>>
  BY DEF next_request
<1>5. PICK r \in Requests :
         /\ r.actor = Operator /\ r.nonce = nonce /\ r.method = "advance"
         /\ signed' = signed \cup {[client |-> "clock", request |-> r]}
         /\ call'["enrollment"] = call["enrollment"]
         /\ Traffic' /\ Increasing'
         /\ \A a : listed(a) => listed(a)'
  <2>1. "clock" \in Clients /\ Operator \in Accounts \cup {Operator} /\ "none" \in Accounts \cup {"none"}
        /\ "advance" \in {"advance", "offer", "account.register"} /\ UNCHANGED <<nodes, late>> /\ RInv
    BY <1>4 DEF Clients, IInv
  <2>2. Signature("clock", Operator, nonce, "advance", "none") BY <1>3, <2>1, SignStep, Zenon
  <2> QED BY <2>2 DEF Signature, Clients
<1>6. \A x \in signed : x.client = "clock" => x.request.nonce \in Nat /\ x.request.nonce <= clock_file
  BY DEF IInv, RInv, Traffic, Reserved, Requests
<1>7. NoNonceReused'
  <2>1. ASSUME NEW x \in signed, x.client = "clock" PROVE x.request.nonce # nonce
    BY <1>1, <1>2, <1>6, <2>1
  <2> QED BY <1>5, <2>1 DEF NoNonceReused, IInv, RInv, Reserved
<1>8. Reserved'
  <2>1. ASSUME NEW x \in signed, x.client = "clock" PROVE x.request.nonce <= nonce
    BY <1>1, <1>2, <1>6, <2>1
  <2>2. nonce <= nonce BY <1>2
  <2>3. ASSUME NEW x \in signed'
        PROVE  /\ x.client = "clock" => x.request.actor = Operator /\ x.request.nonce <= clock_file'
               /\ x.client = "gateway" =>
                      x.request.actor \in Accounts /\ x.request.nonce < next_nonce'[x.request.actor]
    <3>1. CASE x \in signed BY <1>3, <1>4, <2>1, <3>1 DEF IInv, RInv, Reserved
    <3>2. CASE x \notin signed BY <1>3, <1>5, <2>2, <3>2
    <3> QED BY <3>1, <3>2
  <2>4. clock_file' \in Nat \cup {-1} /\ next_nonce' \in [Accounts -> Nat]
    BY <1>2, <1>3, <1>4 DEF IInv, RInv, Reserved
  <2> QED BY <1>7, <2>3, <2>4 DEF Reserved
<1>9. RInv'
  BY <1>4, <1>5, <1>8 DEF IInv, RInv, Bounds, nodes
<1>10. Approval'
  BY <1>4, <1>5, ApprovalKept DEF IInv, EInv
<1> QED BY <1>4, <1>5, <1>9, <1>10 DEF IInv, EInv, Registrations, Files, Enrolled, StatusIsTrue

LEMMA WalletSigns ==
    ASSUME IInv, NEW a \in Accounts, reserveNonce(a), UNCHANGED <<file, temp, admin>>
    PROVE  IInv'
<1>1. now \in Nat /\ next_nonce \in [Accounts -> Nat] /\ next_nonce[a] \in Nat
  BY RequestsAssumption DEF IInv, RInv, Bounds, Reserved
<1>2. PICK nonce \in Nat : nonce = Max({now, next_nonce[a]}) /\ nonce >= next_nonce[a]
  <2>1. PICK m \in Nat, n \in Nat : m = now /\ n = next_nonce[a] BY <1>1
  <2>2. Max({m, n}) \in {m, n} /\ Max({m, n}) >= n BY MaxOf
  <2> QED BY <2>1, <2>2
<1>3. Sign("gateway", a, nonce, "offer", "none") /\ next_nonce' = [next_nonce EXCEPT ![a] = nonce + 1]
  BY <1>2 DEF reserveNonce
<1>4. UNCHANGED <<now, nodes, late, clock_file, registry, faults>>
  BY DEF reserveNonce
<1>5. PICK r \in Requests :
         /\ r.actor = a /\ r.nonce = nonce /\ r.method = "offer"
         /\ signed' = signed \cup {[client |-> "gateway", request |-> r]}
         /\ call'["enrollment"] = call["enrollment"]
         /\ Traffic' /\ Increasing'
         /\ \A b : listed(b) => listed(b)'
  <2>1. "gateway" \in Clients /\ a \in Accounts \cup {Operator} /\ "none" \in Accounts \cup {"none"}
        /\ "offer" \in {"advance", "offer", "account.register"} /\ UNCHANGED <<nodes, late>> /\ RInv
    BY <1>4 DEF Clients, IInv
  <2>2. Signature("gateway", a, nonce, "offer", "none") BY <1>3, <2>1, SignStep, Zenon
  <2> QED BY <2>2 DEF Signature, Clients
<1>6. \A x \in signed : x.client = "gateway" =>
          /\ x.request.nonce \in Nat /\ x.request.actor \in Accounts
          /\ x.request.nonce < next_nonce[x.request.actor]
  BY DEF IInv, RInv, Traffic, Reserved, Requests
<1>7. NoNonceReused'
  <2>1. ASSUME NEW x \in signed, x.client = "gateway", x.request.actor = a PROVE x.request.nonce # nonce
    BY <1>1, <1>2, <1>6, <2>1
  <2> QED BY <1>5, <2>1 DEF NoNonceReused, IInv, RInv, Reserved
<1>8. Reserved'
  <2>1. next_nonce' \in [Accounts -> Nat] BY <1>1, <1>2, <1>3
  <2>2. next_nonce'[a] = nonce + 1 /\ \A b \in Accounts : b # a => next_nonce'[b] = next_nonce[b]
    BY <1>1, <1>3
  <2>3. ASSUME NEW x \in signed, x.client = "gateway"
        PROVE  x.request.actor \in Accounts /\ x.request.nonce < next_nonce'[x.request.actor]
    <3>1. CASE x.request.actor = a BY <1>1, <1>2, <1>6, <2>2, <2>3, <3>1
    <3>2. CASE x.request.actor # a BY <1>6, <2>2, <2>3, <3>2
    <3> QED BY <3>1, <3>2
  <2>4. nonce < nonce + 1 BY <1>2
  <2> QED BY <1>4, <1>5, <1>7, <2>1, <2>2, <2>3, <2>4 DEF IInv, RInv, Reserved
<1>9. RInv'
  BY <1>4, <1>5, <1>8 DEF IInv, RInv, Bounds, nodes
<1>10. Approval'
  BY <1>4, <1>5, ApprovalKept DEF IInv, EInv
<1> QED BY <1>4, <1>5, <1>9, <1>10 DEF IInv, EInv, Registrations, Files, Enrolled, StatusIsTrue

LEMMA RegistrationSigns ==
    ASSUME IInv, SignRegistration
    PROVE  IInv'
<1>1. /\ admin.at = "status" /\ admin' = [admin EXCEPT !.at = "register"]
      /\ Sign("enrollment", Operator, now, "account.register", admin.account)
      /\ UNCHANGED <<now, nodes, late, clock_file, next_nonce, registry, faults, file, temp>>
  BY DEF SignRegistration, Goto
<1>2. /\ now \in Nat /\ admin.account \in Accounts /\ Enrolled(admin.account) /\ admin.backend \in 1..3
      /\ admin \in [at : Stages, account : Accounts \cup {"none"}, backend : 0..3]
      /\ file[admin.account] # NoFile
  BY <1>1, RequestsAssumption DEF IInv, RInv, Bounds, EInv, Approval
<1>3. PICK r \in Requests :
         /\ r.actor = Operator /\ r.nonce = now /\ r.method = "account.register" /\ r.account = admin.account
         /\ signed' = signed \cup {[client |-> "enrollment", request |-> r]}
         /\ call'["enrollment"] = [request |-> r, at |-> 1]
         /\ Traffic' /\ Increasing'
         /\ \A b : listed(b) => listed(b)'
  <2>1. PICK nonce \in Nat, a \in Accounts : nonce = now /\ a = admin.account BY <1>2
  <2>2. Sign("enrollment", Operator, nonce, "account.register", a) BY <1>1, <2>1
  <2>3. "enrollment" \in Clients /\ Operator \in Accounts \cup {Operator} /\ a \in Accounts \cup {"none"}
        /\ "account.register" \in {"advance", "offer", "account.register"}
        /\ UNCHANGED <<nodes, late>> /\ RInv
    BY <1>1 DEF Clients, IInv
  <2>4. Signature("enrollment", Operator, nonce, "account.register", a) BY <2>2, <2>3, SignStep, Zenon
  <2> QED BY <2>1, <2>4 DEF Signature
<1>4. Reserved'
  BY <1>1, <1>3 DEF IInv, RInv, Reserved, NoNonceReused
<1>5. RInv'
  BY <1>1, <1>3, <1>4 DEF IInv, RInv, Bounds, nodes
<1>6. Approval'
  <2>1. admin' \in [at : Stages, account : Accounts \cup {"none"}, backend : 0..3] /\ admin'.at = "register"
        /\ admin'.account = admin.account /\ admin'.backend = admin.backend
    BY <1>1, <1>2 DEF Stages
  <2> QED BY <1>1, <1>2, <1>3, <2>1 DEF Approval, Enrolled, idle
<1>7. Registrations'
  BY <1>1, <1>2, <1>3 DEF Registrations, Enrolled, IInv, EInv
<1> QED BY <1>1, <1>3, <1>5, <1>6, <1>7 DEF IInv, EInv, Files, StatusIsTrue
-----------------------------------------------------------------------------
(* Steps of the enrollment.                                                *)

\* Nothing is sent: what the nodes and the clients do is as before.
LEMMA Silent ==
    ASSUME RInv, UNCHANGED <<now, nodes, late, call, signed, clock_file, next_nonce, faults>>
    PROVE  RInv' /\ (\A a : listed(a)' <=> listed(a)) /\ call' = call /\ signed' = signed
<1>1. SignedRequests' = SignedRequests
  BY DEF SignedRequests
<1>2. Traffic'
  BY <1>1 DEF RInv, Traffic, CallOK, nodes
<1>3. Bounds' /\ Increasing' /\ Reserved'
  BY DEF RInv, Bounds, Increasing, Reserved, NoNonceReused, nodes
<1> QED BY <1>2, <1>3 DEF RInv, listed, registered, Leaders, nodes

LEMMA FileSteps ==
    ASSUME IInv, NEW a \in Accounts, Approve(a) \/ \E credential \in Credentials : submit(a, credential)
    PROVE  IInv'
<1>1. UNCHANGED requestVars
  BY DEF Approve, submit
<1>2. RInv' /\ (\A b : listed(b)' <=> listed(b)) /\ call' = call /\ signed' = signed /\ registry' = registry
  BY <1>1, Silent DEF IInv, requestVars
<1>3. CASE Approve(a)
  <2>1. /\ file' = file /\ temp' = temp \cup {a} /\ file[a].status \in {"pending", "approved"}
        /\ admin' = [at |-> "registry", account |-> a, backend |-> 0]
    BY <1>3 DEF Approve
  <2>2. file[a] # NoFile
    BY <2>1 DEF NoFile
  <2>3. Approval'
    BY <2>1, <2>2 DEF Approval, Stages
  <2>4. Files'
    BY <1>2, <2>1 DEF IInv, EInv, Files
  <2> QED BY <1>2, <2>1, <2>3, <2>4 DEF IInv, EInv, Registrations, Enrolled, StatusIsTrue
<1>4. ASSUME NEW credential \in Credentials, submit(a, credential) PROVE IInv'
  <2>1. /\ admin.at = "idle" /\ file[a] = NoFile /\ temp' = temp /\ admin' = admin
        /\ file' = [file EXCEPT ![a] = [credential |-> credential, status |-> "pending"]]
    BY <1>4 DEF submit, unlocked
  <2>2. /\ file'[a] = [credential |-> credential, status |-> "pending"]
        /\ \A b \in Accounts : b # a => file'[b] = file[b]
        /\ file' = [b \in Accounts |-> file'[b]]
    BY <2>1 DEF IInv, EInv, Files
  <2>3. \A b \in Accounts : Enrolled(b) => b # a
    BY <2>1, CredentialsAssumption DEF Enrolled, NoFile
  <2>4. Registrations'
    BY <1>2, <2>2, <2>3 DEF Registrations, Enrolled, IInv, EInv
  <2>5. Approval'
    BY <2>1 DEF Approval, IInv, EInv
  <2>6. Files'
    BY <1>2, <2>1, <2>2 DEF IInv, EInv, Files
  <2>7. StatusIsTrue'
    BY <1>2, <2>2 DEF StatusIsTrue, IInv, EInv
  <2> QED BY <1>2, <2>4, <2>5, <2>6, <2>7 DEF IInv, EInv
<1> QED BY <1>3, <1>4

LEMMA EnrollStep ==
    ASSUME IInv, Enroll
    PROVE  IInv'
<1> DEFINE a == admin.account
<1>1. /\ admin.at = "registry" /\ registry[a] \in {"none", file[a].credential}
      /\ registry' = [registry EXCEPT ![a] = file[a].credential]
      /\ admin' = [admin EXCEPT !.at = "unlink"]
      /\ UNCHANGED <<file, temp>>
      /\ UNCHANGED <<now, nodes, late, call, signed, clock_file, next_nonce, faults>>
  BY DEF Enroll, Goto
<1>2. RInv' /\ (\A b : listed(b)' <=> listed(b)) /\ call' = call /\ signed' = signed
  BY <1>1, Silent DEF IInv
<1>3. a \in Accounts /\ file[a].credential \in Credentials
  BY <1>1 DEF IInv, EInv, Approval, Files
<1>4. /\ registry' \in [Accounts -> Credentials \cup {"none"}]
      /\ registry'[a] = file[a].credential /\ \A b \in Accounts : b # a => registry'[b] = registry[b]
  BY <1>1, <1>3 DEF IInv, EInv, Files
<1>5. \A b \in Accounts : Enrolled(b) => Enrolled(b)'
  BY <1>1, <1>3, <1>4 DEF Enrolled
<1>6. admin' \in [at : Stages, account : Accounts \cup {"none"}, backend : 0..3]
      /\ admin'.at = "unlink" /\ admin'.account = a
  BY <1>1 DEF IInv, EInv, Approval, Stages
<1>7. Approval'
  BY <1>1, <1>3, <1>4, <1>6 DEF IInv, EInv, Approval, Enrolled
<1>8. Registrations'
  BY <1>2, <1>5 DEF Registrations, IInv, EInv
<1>9. Files' /\ StatusIsTrue'
  BY <1>1, <1>2, <1>4 DEF Files, StatusIsTrue, IInv, EInv
<1> QED BY <1>2, <1>7, <1>8, <1>9 DEF IInv, EInv

\* The steps of an approval that leave the request files, the registry and the nodes alone.
LEMMA StageSteps ==
    ASSUME IInv, Refuse \/ Unlink \/ AlreadyActive \/ NoStatus
    PROVE  IInv'
<1>1. UNCHANGED <<requestVars, file>> /\ temp' \subseteq temp
  BY DEF Refuse, Unlink, AlreadyActive, NoStatus
<1>2. /\ RInv' /\ (\A b : listed(b)' <=> listed(b)) /\ call' = call /\ signed' = signed
      /\ registry' = registry /\ file' = file
  BY <1>1, Silent DEF IInv, requestVars
<1>3. Approval'
  <2>1. CASE admin' = Resting
    BY <2>1 DEF Approval, Resting, Stages
  <2>2. CASE Unlink
    <3>1. admin.at = "unlink" /\ admin' = [admin EXCEPT !.at = "approved"]
      BY <2>2 DEF Unlink, Goto
    <3>2. admin' \in [at : Stages, account : Accounts \cup {"none"}, backend : 0..3]
          /\ admin'.at = "approved" /\ admin'.account = admin.account
      BY <3>1 DEF IInv, EInv, Approval, Stages
    <3> QED BY <1>2, <3>1, <3>2 DEF IInv, EInv, Approval, Enrolled
  <2>3. CASE AlreadyActive
    <3>1. admin.at = "status" /\ admin' = [admin EXCEPT !.at = "active"] /\ listed(admin.account)
      BY <2>3 DEF AlreadyActive, Goto, listed
    <3>2. admin' \in [at : Stages, account : Accounts \cup {"none"}, backend : 0..3]
          /\ admin'.at = "active" /\ admin'.account = admin.account
      BY <3>1 DEF IInv, EInv, Approval, Stages
    <3> QED BY <1>2, <3>1, <3>2 DEF IInv, EInv, Approval, Enrolled
  <2> QED BY <2>1, <2>2, <2>3 DEF Refuse, NoStatus, Failed
<1> QED BY <1>1, <1>2, <1>3 DEF IInv, EInv, Registrations, Files, Enrolled, StatusIsTrue

\* The status of the request file is written.
LEMMA SaveSteps ==
    ASSUME IInv, SaveApproved \/ SaveActive
    PROVE  IInv'
<1> DEFINE a == admin.account
<1>1. UNCHANGED <<requestVars, temp>> /\ admin.at \in {"approved", "active"}
  BY DEF SaveApproved, SaveActive
<1>2. /\ RInv' /\ (\A b : listed(b)' <=> listed(b)) /\ call' = call /\ signed' = signed
      /\ registry' = registry
  BY <1>1, Silent DEF IInv, requestVars
<1>3. a \in Accounts /\ file[a] # NoFile /\ Enrolled(a)
  BY <1>1 DEF IInv, EInv, Approval
<1>4. PICK status \in {"approved", "active"} :
         file' = [file EXCEPT ![a].status = status] /\ (status = "active" => admin.at = "active")
  BY DEF SaveApproved, SaveActive
<1>5. file[a] \in [credential : Credentials, status : {"pending", "approved", "active"}]
  BY <1>3 DEF IInv, EInv, Files
<1>6. /\ file'[a].credential = file[a].credential /\ file'[a].status = status
      /\ file'[a] \in [credential : Credentials, status : {"pending", "approved", "active"}]
      /\ \A b \in Accounts : b # a => file'[b] = file[b]
      /\ file' = [b \in Accounts |-> file'[b]]
  BY <1>3, <1>4, <1>5 DEF IInv, EInv, Files
<1>7. \A b \in Accounts : Enrolled(b) => Enrolled(b)'
  BY <1>2, <1>6 DEF Enrolled
<1>8. registry[a] = file'[a].credential /\ (status = "active" => listed(a))
  BY <1>3, <1>4, <1>6 DEF Enrolled, IInv, EInv, Approval
<1>9. StatusIsTrue'
  BY <1>2, <1>6, <1>8 DEF StatusIsTrue, IInv, EInv
<1>10. Files'
  BY <1>1, <1>2, <1>6 DEF Files, IInv, EInv
<1>11. Registrations'
  BY <1>2, <1>7 DEF Registrations, IInv, EInv
<1>12. Approval'
  <2>1. CASE SaveActive
    BY <2>1 DEF SaveActive, Approval, Resting, Stages
  <2>2. CASE SaveApproved
    <3>1. admin' = [admin EXCEPT !.at = "status", !.backend = 1]
      BY <2>2 DEF SaveApproved
    <3>2. admin' \in [at : Stages, account : Accounts \cup {"none"}, backend : 0..3]
          /\ admin'.at = "status" /\ admin'.account = a /\ admin'.backend = 1
      <4>1. admin \in [at : Stages, account : Accounts \cup {"none"}, backend : 0..3]
        BY DEF IInv, EInv, Approval
      <4>2. admin' = [at |-> "status", account |-> a, backend |-> 1]
        BY <3>1, <4>1
      <4> QED BY <1>3, <4>2 DEF Stages
    <3>3. file'[a] # NoFile
      BY <1>6 DEF NoFile
    <3> QED BY <1>3, <1>7, <3>2, <3>3 DEF Approval
  <2> QED BY <2>1, <2>2
<1> QED BY <1>2, <1>9, <1>10, <1>11, <1>12 DEF IInv, EInv

\* The registration is sent and its outcome comes, or does not.
LEMMA RegisterSteps ==
    ASSUME IInv, NextBackend \/ Registered \/ NotRegistered \/ Crash
    PROVE  IInv'
<1>1. /\ Stop("enrollment")
      /\ UNCHANGED <<signed, clock_file, next_nonce, registry, file, temp>>
  BY DEF NextBackend, Registered, NotRegistered, Crash
<1>2. CallsOK
  BY <1>1, CallMoves DEF IInv, Clients
<1>3. admin.at = "register" =>
          /\ call["enrollment"].request \in SignedRequests /\ admin.backend \in 1..3
          /\ call["enrollment"].request.method = "account.register"
          /\ call["enrollment"].request.account = admin.account
  BY CallIsSigned DEF IInv, EInv, Approval, Clients
<1>4. LedgerMoves /\ acked' \subseteq SignedRequests
  <2>1. leader' = leader
    BY DEF NextBackend, Registered, NotRegistered, Crash, nodes
  <2>2. CASE UNCHANGED <<ledger, acked>>
    BY <2>1, <2>2 DEF LedgerMoves, IInv, RInv, Traffic
  <2>3. CASE ~UNCHANGED <<ledger, acked>>
    <3>1. admin.at = "register"
      BY <2>3 DEF NextBackend, Registered, NotRegistered, Crash, nodes
    <3>2. PICK r \in SignedRequests, b \in 1..3 : r = call["enrollment"].request /\ b = admin.backend
      BY <1>3, <3>1
    <3>3. (Runs(b, r) /\ UNCHANGED acked) \/ Commits(b, r)
      BY <2>3, <3>1, <3>2 DEF NextBackend, Registered, NotRegistered, Crash, TimedOut, Runs, nodes
    <3> QED BY <2>1, <3>3, BackendStep DEF IInv
  <2> QED BY <2>2, <2>3
<1>5. late' \subseteq [request : SignedRequests, to : 1..3]
  <2>1. late \subseteq [request : SignedRequests, to : 1..3]
    BY DEF IInv, RInv, Traffic
  <2>2. \/ late' = late
        \/ /\ admin.at = "register"
           /\ late' = late \cup {[request |-> call["enrollment"].request, to |-> admin.backend]}
    BY DEF NextBackend, Registered, NotRegistered, Crash, TimedOut
  <2> QED BY <1>3, <2>1, <2>2
<1>6. Bounds'
  BY DEF IInv, RInv, Bounds, NextBackend, Registered, NotRegistered, Crash, TimedOut, Fault, nodes
<1>7. RInv' /\ \A a : listed(a) => listed(a)'
  BY <1>1, <1>2, <1>4, <1>5, <1>6, RequestStep DEF IInv
<1>8. Approval'
  <2>1. CASE admin' = Resting
    BY <2>1 DEF Approval, Resting, Stages
  <2>2. CASE NextBackend /\ admin' # Resting
    <3>1. admin.at = "register" /\ admin.backend # 3
          /\ admin' = [admin EXCEPT !.at = "status", !.backend = admin.backend + 1]
      BY <2>2 DEF NextBackend, BACKENDS
    <3>2. admin' \in [at : Stages, account : Accounts \cup {"none"}, backend : 0..3]
          /\ admin'.at = "status" /\ admin'.account = admin.account /\ admin'.backend \in 1..3
      <4>1. admin \in [at : Stages, account : Accounts \cup {"none"}, backend : 0..3]
        BY DEF IInv, EInv, Approval
      <4>2. admin' = [at |-> "status", account |-> admin.account, backend |-> admin.backend + 1]
        BY <3>1, <4>1
      <4>3. admin.backend + 1 \in 1..3 /\ admin.backend + 1 \in 0..3 /\ "status" \in Stages
            /\ admin.account \in Accounts \cup {"none"}
        BY <1>3, <3>1, <4>1 DEF Stages
      <4> QED BY <4>2, <4>3
    <3> QED BY <1>1, <3>1, <3>2 DEF IInv, EInv, Approval, Enrolled
  <2>3. CASE Registered
    <3>1. admin.at = "register" /\ admin' = [admin EXCEPT !.at = "active"] /\ leader' = leader
          /\ Commits(admin.backend, call["enrollment"].request)
      BY <2>3 DEF Registered, Goto
    <3>2. admin' \in [at : Stages, account : Accounts \cup {"none"}, backend : 0..3]
          /\ admin'.at = "active" /\ admin'.account = admin.account
      BY <3>1 DEF IInv, EInv, Approval, Stages
    <3>3. listed(admin.account)'
      <4>1. PICK r \in SignedRequests, b \in 1..3, a \in {admin.account} :
               r = call["enrollment"].request /\ b = admin.backend
        BY <1>3, <3>1
      <4>2. r.method = "account.register" /\ r.account = a /\ b = leader /\ accepts(b, r) /\ Execute(b, r)
        BY <1>3, <3>1, <4>1 DEF Commits
      <4>3. registered(b, a)'
        BY <4>2, Executes DEF IInv, RInv
      <4>4. b \in 1..leader'
        BY <3>1, <4>2
      <4> QED BY <4>1, <4>3, <4>4, <3>2 DEF listed, Leaders
    <3> QED BY <1>1, <3>1, <3>2, <3>3 DEF IInv, EInv, Approval, Enrolled
  <2> QED BY <2>1, <2>2, <2>3 DEF NotRegistered, Crash, Failed
<1> QED BY <1>1, <1>7, <1>8, EnrollmentKept DEF IInv
-----------------------------------------------------------------------------
(* The theorems.                                                           *)

LEMMA Initially == Init => IInv
<1> SUFFICES ASSUME Init PROVE IInv OBVIOUS
<1>1. Bounds
  BY RequestsAssumption DEF Init, RequestInit, Bounds
<1>2. Traffic
  BY FS_EmptySet DEF Init, RequestInit, Traffic, CallOK, BACKENDS
<1>3. Increasing
  BY DEF Init, RequestInit, Increasing, Grows, BACKENDS
<1>4. Reserved
  BY DEF Init, RequestInit, Reserved, NoNonceReused
<1>5. Registrations /\ Files /\ Approval
  BY DEF Init, RequestInit, Registrations, Files, Approval, Resting, Stages
<1>6. StatusIsTrue
  BY DEF Init, StatusIsTrue, NoFile
<1> QED BY <1>1, <1>2, <1>3, <1>4, <1>5, <1>6 DEF IInv, RInv, EInv

LEMMA NextKeeps == IInv /\ [Next]_vars => IInv'
<1> SUFFICES ASSUME IInv, [Next]_vars PROVE IInv' OBVIOUS
<1>1. CASE RequestNext /\ UNCHANGED <<file, temp, admin>>
  BY <1>1, ClockSigns, WalletSigns, ClientStep, NetworkStep DEF RequestNext
<1>2. CASE \E a \in Accounts : Approve(a) \/ \E credential \in Credentials : submit(a, credential)
  BY <1>2, FileSteps
<1>3. CASE Enroll \/ Refuse \/ Unlink \/ SaveApproved \/ Activate \/ SaveActive \/ Crash
  BY <1>3, EnrollStep, StageSteps, SaveSteps, RegisterSteps, RegistrationSigns DEF Activate
<1>4. CASE UNCHANGED vars
  <2>1. UNCHANGED <<requestVars, file, temp, admin>>
    BY <1>4 DEF vars
  <2>2. RInv' /\ (\A b : listed(b)' <=> listed(b)) /\ call' = call /\ signed' = signed /\ registry' = registry
    BY <2>1, Silent DEF IInv, requestVars
  <2>3. Approval'
    BY <2>1, <2>2, ApprovalKept DEF IInv, EInv
  <2> QED BY <2>1, <2>2, <2>3, EnrollmentKept DEF IInv
<1> QED BY <1>1, <1>2, <1>3, <1>4 DEF Next

\* The inductive invariant: what is signed, what is reserved and how far the approval got.
THEOREM Invariance == Spec => []IInv
BY Initially, NextKeeps, PTL DEF Spec

\* Every variable has its type, for any number of wallets, credentials and steps.
THEOREM TypeCorrect == Spec => []TypeOK
<1>1. IInv => TypeOK
  <2> SUFFICES ASSUME IInv PROVE TypeOK OBVIOUS
  <2>1. SignedRequests \subseteq Requests
    BY DEF IInv, RInv, Traffic, SignedRequests
  <2>2. /\ now \in 0..MaxTime /\ leader \in DOMAIN BACKENDS /\ faults \in Nat
        /\ DOMAIN BACKENDS = 1..3 /\ Len(BACKENDS) = 3
    BY DEF IInv, RInv, Bounds, BACKENDS
  <2>3. \A c \in Clients : call[c] = NoCall \/ call[c] \in [request : Requests, at : DOMAIN BACKENDS]
    BY <2>1, <2>2 DEF IInv, RInv, Traffic, CallOK
  <2>4. late \subseteq [request : Requests, to : DOMAIN BACKENDS]
    BY <2>1, <2>2 DEF IInv, RInv, Traffic
  <2>5. file \in [Accounts -> [credential : Credentials \cup {"none"},
                              status : {"none", "pending", "approved", "active"}]]
    <3>1. ASSUME NEW a \in Accounts
          PROVE  file[a] \in [credential : Credentials \cup {"none"},
                              status : {"none", "pending", "approved", "active"}]
      BY DEF IInv, EInv, Files, NoFile
    <3>2. file = [a \in Accounts |-> file[a]]
      BY DEF IInv, EInv, Files
    <3> QED BY <3>1, <3>2
  <2>6. registry \in [Accounts -> Credentials \cup {"none"}] /\ temp \subseteq Accounts
        /\ admin.at \in Stages /\ admin.backend \in 0..3
    BY DEF IInv, EInv, Files, Approval
  <2>7. /\ ledger \in [DOMAIN BACKENDS -> Seq(Requests)] /\ acked \subseteq Requests /\ signed \subseteq [client : Clients, request : Requests]
        /\ clock_file \in Nat \cup {-1} /\ next_nonce \in [Accounts -> Nat]
    BY <2>1, <2>2 DEF IInv, RInv, Traffic, Reserved
  <2> QED BY <2>2, <2>3, <2>4, <2>5, <2>6, <2>7 DEF TypeOK
<1> QED BY <1>1, Invariance, PTL

\* No ledger holds a request twice (auth.py, public_rpc.py), whatever the network repeats and
\* whoever leads: the nonces of an actor grow along each ledger.
THEOREM RunsOnce == Spec => []ExecutedOnce
<1>1. IInv => ExecutedOnce
  <2> SUFFICES ASSUME IInv, NEW b \in Leaders, NEW j \in DOMAIN ledger[b], NEW k \in DOMAIN ledger[b],
                      ledger[b][j] = ledger[b][k], j # k
               PROVE  FALSE
    BY DEF ExecutedOnce
  <2>1. b \in 1..3
    BY DEF Leaders, IInv, RInv, Bounds
  <2>2. PICK h \in Seq(Requests) : h = ledger[b]
    BY <2>1 DEF IInv, RInv, Traffic
  <2>3. DOMAIN h = 1..Len(h) /\ Len(h) \in Nat /\ Grows(h)
    BY <2>1, <2>2 DEF IInv, RInv, Increasing
  <2>4. h[j].nonce \in Nat
    <3>1. h[j] \in Requests BY <2>2
    <3>2. \A q \in Requests : q.nonce \in Nat BY DEF Requests
    <3> QED BY <3>1, <3>2
  <2>5. j < k \/ k < j
    BY <2>2, <2>3
  <2>6. h[j].nonce < h[k].nonce \/ h[k].nonce < h[j].nonce
    BY <2>2, <2>3, <2>5 DEF Grows
  <2> QED BY <2>2, <2>4, <2>6
<1> QED BY <1>1, Invariance, PTL

\* Neither the round clock nor a wallet signs a nonce twice (round_clock.py, reserveNonce).
THEOREM NoncesFresh == Spec => []NoNonceReused
<1>1. IInv => NoNonceReused
  BY DEF IInv, RInv, Reserved
<1> QED BY <1>1, Invariance, PTL

\* What the enrollment shows is true of the registry, and of the ledger that it was read from,
\* wherever the program stopped (enrollment_web.py).
THEOREM StatusTrue == Spec => []StatusIsTrue
<1>1. IInv => StatusIsTrue
  BY DEF IInv, EInv
<1> QED BY <1>1, Invariance, PTL

\* An account in any ledger belongs to the wallet that asked for it (enrollment.py).
THEOREM LedgerAccountsEnrolled == Spec => []RegisteredIsEnrolled
<1>1. IInv => RegisteredIsEnrolled
  <2> SUFFICES ASSUME IInv, NEW a \in Accounts, listed(a) PROVE Enrolled(a)
    BY DEF RegisteredIsEnrolled, Enrolled
  <2>1. PICK b \in 1..3 : \E k \in DOMAIN ledger[b] : ledger[b][k].method = "account.register" /\ ledger[b][k].account = a
    BY DEF listed, registered, Leaders, IInv, RInv, Bounds
  <2>2. PICK k \in DOMAIN ledger[b] : ledger[b][k].method = "account.register" /\ ledger[b][k].account = a
    BY <2>1
  <2>3. ledger[b][k] \in SignedRequests
    BY DEF IInv, RInv, Traffic
  <2>4. PICK x \in signed : x.request = ledger[b][k]
    BY <2>3 DEF SignedRequests
  <2> QED BY <2>2, <2>4 DEF IInv, EInv, Registrations
<1> QED BY <1>1, Invariance, PTL
=============================================================================
