----------------------------- MODULE MCNetwork -----------------------------
EXTENDS NetworkManager
=============================================================================
