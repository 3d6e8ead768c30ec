---------------------------- MODULE MCOlcGateway ----------------------------
EXTENDS OlcGateway
=============================================================================
