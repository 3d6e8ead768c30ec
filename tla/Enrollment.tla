----------------------------- MODULE Enrollment -----------------------------
(***************************************************************************)
(* Enrollment of wallets through the web (splitchain/enrollment_web.py,    *)
(* enrollment.py): the queue of request files, the operator's approval,    *)
(* which writes the account registry, and the activation in the ledger     *)
(* through signed requests (module Requests).                              *)
(*                                                                         *)
(* submit and approve run under one lock, and approve keeps it while it    *)
(* activates, so at most one approval is under way (`admin`).  Each file   *)
(* operation is a step of its own: the program can stop between any two.   *)
(* The program is the only writer of the registry while it runs; other     *)
(* tools may have written there before.                                    *)
(***************************************************************************)
EXTENDS Requests

CONSTANTS
    Credentials,
    MAX_PENDING

ASSUME CredentialsAssumption == "none" \notin Credentials

VARIABLES
    file,  \* account -> its request file
    temp,  \* accounts whose temporary request file exists
    admin  \* the approval under way

vars == <<requestVars, file, temp, admin>>

NoFile == [credential |-> "none", status |-> "none"]
Resting == [at |-> "idle", account |-> "none", backend |-> 0]

unlocked == admin.at = "idle"

\* Both kinds of files match *.json.
queued == Cardinality({a \in Accounts : file[a] # NoFile}) + Cardinality(temp)

\* Bug: a request for a known account replaces its file.
submit_again(a, credential) ==
    /\ unlocked
    /\ file[a] = NoFile => queued < MAX_PENDING
    /\ file' = [file EXCEPT ![a] = [credential |-> credential, status |-> "pending"]]
    /\ UNCHANGED <<requestVars, temp, admin>>

\* A request for a known account changes nothing, with its credential or with another.
submit(a, credential) ==
    /\ unlocked
    /\ file[a] = NoFile
    /\ queued < MAX_PENDING
    /\ file' = [file EXCEPT ![a] = [credential |-> credential, status |-> "pending"]]
    /\ UNCHANGED <<requestVars, temp, admin>>
-----------------------------------------------------------------------------
(* EnrollmentStore.approve.                                                *)

Goto(stage) == admin' = [admin EXCEPT !.at = stage]

\* Bug: the request is shown as approved before the registry has it.
Approve_early(a) ==
    /\ unlocked
    /\ file[a].status \in {"pending", "approved"}
    /\ temp' = temp \cup {a}
    /\ file' = [file EXCEPT ![a].status = "approved"]
    /\ admin' = [at |-> "registry", account |-> a, backend |-> 0]
    /\ UNCHANGED requestVars

Approve(a) ==
    /\ unlocked
    /\ file[a].status \in {"pending", "approved"}
    /\ temp' = temp \cup {a}
    /\ admin' = [at |-> "registry", account |-> a, backend |-> 0]
    /\ UNCHANGED <<requestVars, file>>

\* enrollment.approve: an account that has another credential already is refused, and the
\* temporary file goes in both cases.
Enroll ==
    LET a == admin.account IN
    /\ admin.at = "registry"
    /\ registry[a] \in {"none", file[a].credential}
    /\ registry' = [registry EXCEPT ![a] = file[a].credential]
    /\ Goto("unlink")
    /\ UNCHANGED <<now, nodes, late, call, signed, clock_file, next_nonce, faults, file, temp>>

Refuse ==
    /\ admin.at = "registry"
    /\ registry[admin.account] \notin {"none", file[admin.account].credential}
    /\ temp' = temp \ {admin.account}
    /\ admin' = Resting
    /\ UNCHANGED <<requestVars, file>>

Unlink ==
    /\ admin.at = "unlink"
    /\ temp' = temp \ {admin.account}
    /\ Goto("approved")
    /\ UNCHANGED <<requestVars, file>>

SaveApproved ==
    /\ admin.at = "approved"
    /\ file' = [file EXCEPT ![admin.account].status = "approved"]
    /\ admin' = [admin EXCEPT !.at = "status", !.backend = 1]
    /\ UNCHANGED <<requestVars, temp>>

\* The request stays approved for a later retry.
Failed == admin' = Resting

\* activate: the account is in the balances of this backend.  The leader shows its own ledger,
\* another backend the ledger of the leader or of a replaced one, its own or one it followed.
AlreadyActive ==
    /\ admin.at = "status"
    /\ \E b \in Leaders : registered(b, admin.account) /\ (admin.backend = leader => b = leader)
    /\ Goto("active")
    /\ UNCHANGED <<requestVars, file, temp>>

\* It is not there, as in a replica that lags, and the registration is signed.
SignRegistration ==
    /\ admin.at = "status"
    /\ admin.backend \in Leaders => ~registered(admin.backend, admin.account)
    /\ Sign("enrollment", Operator, now, "account.register", admin.account)
    /\ Goto("register")
    /\ UNCHANGED <<now, nodes, late, clock_file, next_nonce, registry, faults, file, temp>>

\* No status in time.
NoStatus ==
    /\ admin.at = "status"
    /\ Failed
    /\ UNCHANGED <<requestVars, file, temp>>

\* Bug: the list of backends is left at its end.
NextBackend_past_end ==
    /\ admin.at = "register"
    /\ admin' = [admin EXCEPT !.at = "status", !.backend = @ + 1]
    /\ Stop("enrollment")
    /\ UNCHANGED <<now, nodes, late, signed, clock_file, next_nonce, registry, faults, file, temp>>

\* NOT_LEADER, also from a leader that has not recorded its certificate yet: the next backend,
\* from its status on.
NextBackend ==
    /\ admin.at = "register"
    /\ admin' = IF admin.backend = Len(BACKENDS) THEN Resting
                ELSE [admin EXCEPT !.at = "status", !.backend = @ + 1]
    /\ Stop("enrollment")
    /\ UNCHANGED <<now, nodes, late, signed, clock_file, next_nonce, registry, faults, file, temp>>

\* The leader answers with a result.
Registered ==
    /\ admin.at = "register"
    /\ Commits(admin.backend, call["enrollment"].request)
    /\ Goto("active")
    /\ Stop("enrollment")
    /\ UNCHANGED <<now, leader, late, signed, clock_file, next_nonce, registry, faults, file, temp>>

\* An error, of a request that was executed (CommitUncertain) or not, or no answer in time.
NotRegistered ==
    /\ admin.at = "register"
    /\ TimedOut(admin.backend, call["enrollment"].request)
    /\ Failed
    /\ Stop("enrollment")
    /\ UNCHANGED <<now, leader, acked, signed, clock_file, next_nonce, registry, file, temp>>

SaveActive ==
    /\ admin.at = "active"
    /\ file' = [file EXCEPT ![admin.account].status = "active"]
    /\ admin' = Resting
    /\ UNCHANGED <<requestVars, temp>>

\* The program stops, with whatever became of the request it had sent, and starts again.
Crash ==
    /\ ~unlocked /\ Fault
    /\ IF admin.at = "register" THEN Runs(admin.backend, call["enrollment"].request) ELSE UNCHANGED ledger
    /\ admin' = Resting
    /\ Stop("enrollment")
    /\ UNCHANGED <<now, leader, acked, late, signed, clock_file, next_nonce, registry, file, temp>>
-----------------------------------------------------------------------------
Init ==
    /\ RequestInit
    /\ registry \in [Accounts -> Credentials \cup {"none"}]
    /\ file = [a \in Accounts |-> NoFile]
    /\ temp = {}
    /\ admin = Resting

Activate == AlreadyActive \/ SignRegistration \/ NoStatus \/ NextBackend \/ Registered \/ NotRegistered

Next ==
    \/ RequestNext /\ UNCHANGED <<file, temp, admin>>
    \/ \E a \in Accounts : Approve(a) \/ \E credential \in Credentials : submit(a, credential)
    \/ Enroll \/ Refuse \/ Unlink \/ SaveApproved \/ Activate \/ SaveActive \/ Crash

Spec == Init /\ [][Next]_vars
-----------------------------------------------------------------------------
(* Properties.                                                             *)

Stages == {"idle", "registry", "unlink", "approved", "status", "register", "active"}

\* Every variable has its type.
TypeOK ==
    /\ now \in 0..MaxTime /\ leader \in DOMAIN BACKENDS /\ faults \in Nat
    /\ ledger \in [DOMAIN BACKENDS -> Seq(Requests)] /\ acked \subseteq Requests
    /\ late \subseteq [request : Requests, to : DOMAIN BACKENDS]
    /\ signed \subseteq [client : Clients, request : Requests]
    /\ \A c \in Clients : call[c] = NoCall \/ call[c] \in [request : Requests, at : DOMAIN BACKENDS]
    /\ clock_file \in Nat \cup {-1}
    /\ next_nonce \in [Accounts -> Nat]
    /\ registry \in [Accounts -> Credentials \cup {"none"}]
    /\ file \in [Accounts -> [credential : Credentials \cup {"none"},
                              status : {"none", "pending", "approved", "active"}]]
    /\ temp \subseteq Accounts
    /\ admin.at \in Stages /\ admin.backend \in 0..Len(BACKENDS)

\* Whatever the program stopped between and whatever answer was lost: a request that is shown
\* as approved is in the registry with the credential of its own wallet, and one that is shown
\* as active is in a ledger too: in that of the leader, or at least in that of a leader that was
\* replaced, for approve believes the first backend that shows the account.
StatusIsTrue ==
    \A a \in Accounts :
        /\ file[a].status \in {"approved", "active"} => registry[a] = file[a].credential
        /\ file[a].status = "active" => listed(a)

\* An account that is in any ledger can be used by the wallet that asked for it first, and by
\* no other: its credential in the registry is the one in its request file.
RegisteredIsEnrolled ==
    \A a \in Accounts : listed(a) => registry[a] \in Credentials /\ registry[a] = file[a].credential
=============================================================================
