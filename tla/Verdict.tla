------------------------------ MODULE Verdict ------------------------------
(***************************************************************************)
(* What the gateway of the compute pilot promises about its saved jobs,    *)
(* whatever stops, is lost or is repeated: a result is judged once, a      *)
(* rejected result collects no ballots, ballots are never withdrawn or     *)
(* changed, and nothing is added to a job that its ballots decided.        *)
(***************************************************************************)
CONSTANTS Jobs, Verifiers

VARIABLES
    outcome, \* job -> what became of its result
    ballots  \* job -> verifier -> vote

Votes == {"none", "yes", "no"}

\* Two verifiers agree.
Quorum(b, vote) == \E v, w \in Verifiers : v # w /\ b[v] = vote /\ b[w] = vote
Decided(b)      == Quorum(b, "yes") \/ Quorum(b, "no")

NoBallots == [v \in Verifiers |-> "none"]

\* Ballot paper c holds every vote of b.
Extends(c, b) == \A v \in Verifiers : b[v] # "none" => c[v] = b[v]
-----------------------------------------------------------------------------
Init ==
    /\ outcome = [j \in Jobs |-> "open"]
    /\ ballots = [j \in Jobs |-> NoBallots]

\* How the result of one job, with its ballots, may change.
Advances(o, b, p, c) ==
    \/ p = o /\ c = b
    \/ o = "open" /\ p = "rejected" /\ c = b
    \/ o = "open" /\ p = "accepted"
    \/ o = "accepted" /\ p = o /\ ~Decided(b) /\ Extends(c, b)

\* One save may carry what changed in several jobs since the last one.
Next ==
    /\ outcome' \in [Jobs -> {"open", "accepted", "rejected"}]
    /\ ballots' \in [Jobs -> [Verifiers -> Votes]]
    /\ \A j \in Jobs : Advances(outcome[j], ballots[j], outcome'[j], ballots'[j])

Spec == Init /\ [][Next]_<<outcome, ballots>>
=============================================================================
