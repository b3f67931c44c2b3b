----------------------------- MODULE MCAtParser -----------------------------
(* g_at_mutex admits one caller at a time: see ExchangeIsExclusive.        *)
EXTENDS AtParser
=============================================================================
