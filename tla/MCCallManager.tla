--------------------------- MODULE MCCallManager ---------------------------
EXTENDS CallManager
=============================================================================
