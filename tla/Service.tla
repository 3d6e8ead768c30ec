------------------------------ MODULE Service ------------------------------
(***************************************************************************)
(* What the cluster of three nodes promises its clients, whatever crashes, *)
(* is lost or comes late: it behaves like one ledger.  A request is        *)
(* applied at most once and never after it was refused.  A takeover may    *)
(* drop the latest entries, those nobody was given a result for, but what  *)
(* was acknowledged keeps its place for ever.                              *)
(***************************************************************************)
EXTENDS Naturals, Sequences

CONSTANT Mutations

VARIABLES
    history, \* the mutations applied, oldest first
    asked, acked, refused

Listed == {history[k] : k \in DOMAIN history}
-----------------------------------------------------------------------------
Init == history = <<>> /\ asked = {} /\ acked = {} /\ refused = {}

Ask(m) ==
    /\ m \notin asked
    /\ asked' = asked \cup {m}
    /\ UNCHANGED <<history, acked, refused>>

Apply(m) ==
    /\ m \in asked \ refused /\ m \notin Listed
    /\ history' = Append(history, m)
    /\ UNCHANGED <<asked, acked, refused>>

Acknowledge(m) ==
    /\ m \in Listed
    /\ acked' = acked \cup {m}
    /\ UNCHANGED <<history, asked, refused>>

Refuse(m) ==
    /\ m \in asked /\ m \notin Listed
    /\ refused' = refused \cup {m}
    /\ UNCHANGED <<history, asked, acked>>

\* The new leader has the first k entries, with every acknowledged one among them.
TakeOver(k) ==
    /\ history' = SubSeq(history, 1, k)
    /\ \A m \in acked : \E j \in 1..k : history[j] = m
    /\ UNCHANGED <<asked, acked, refused>>

Next ==
    \/ \E m \in Mutations : Ask(m) \/ Apply(m) \/ Acknowledge(m) \/ Refuse(m)
    \/ \E k \in 0..Len(history) : TakeOver(k)

Spec == Init /\ [][Next]_<<history, asked, acked, refused>>
=============================================================================
