------------------------------ MODULE MCLedger ------------------------------
EXTENDS Ledger, Functions

CONSTANTS alice, bob, carol

\* alice can fund two branches of one unit or one of two; carol, when present, is not registered
\* at genesis.
MCAllocation == [x \in Accounts |-> CASE x = alice -> 5 [] x = bob -> 2 [] OTHER -> 0]

\* Total is the sum that the community modules define by a fold.
ASSUME SumsAgree ==
    \A f \in UNION {[1..n -> 0..3] : n \in 0..3} :
        Total(f) = FoldFunction(LAMBDA x, y : x + y, 0, f)
=============================================================================
