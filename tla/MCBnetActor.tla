---------------------------- MODULE MCBnetActor ----------------------------
EXTENDS BnetActor
=============================================================================
