------------------------------ MODULE MCMailFlow ------------------------------
(***************************************************************************)
(* Instances of MailFlow for TLC.                                          *)
(***************************************************************************)
EXTENDS MailFlow

CONSTANTS d1, d2

MCRelays == <<d1, d2>>

\* The Daddies that may be dead are.
DeadSpec == FairSpec /\ dead = MayBeDead
==============================================================================
