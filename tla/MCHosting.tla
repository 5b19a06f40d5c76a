------------------------------ MODULE MCHosting ------------------------------
EXTENDS Hosting
=============================================================================
