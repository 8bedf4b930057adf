----------------------------- MODULE MCIMServer -----------------------------
(* IMServer for TLC: the only method the sessions call is send().          *)
EXTENDS IMServer

MCCallbackName(c) == Uuid(c)
=============================================================================
