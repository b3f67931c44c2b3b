----------------------------- MODULE MCContacts -----------------------------
EXTENDS ContactStore
=============================================================================
