---------------------------- MODULE MCDistributor ----------------------------
EXTENDS Distributor

CONSTANTS r1, r2

MCRecipients == <<r1, r2>>
=============================================================================
