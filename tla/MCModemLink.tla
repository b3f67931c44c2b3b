---------------------------- MODULE MCModemLink ----------------------------
EXTENDS ModemLink
=============================================================================
