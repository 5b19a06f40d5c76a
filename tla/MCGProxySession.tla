--------------------------- MODULE MCGProxySession ---------------------------
EXTENDS GProxySession
=============================================================================
