------------------------------- MODULE MCRoutes -------------------------------
(***************************************************************************)
(* Instances of Routes for TLC: two Daddies, one of which also sends.      *)
(***************************************************************************)
EXTENDS Routes

CONSTANTS d1, d2, a1, a2

MCRelays == <<d1, d2>>
==============================================================================
