----------------------------- MODULE MCRateLimit -----------------------------
(***************************************************************************)
(* An instance of RateLimit for TLC: two sessions of one identity at one   *)
(* address that ask for one mailbox, and one bucket too few.               *)
(***************************************************************************)
EXTENDS RateLimit, TLC

CONSTANTS s1, s2, i1, address, mailbox

MCIdentityOf == (s1 :> i1) @@ (s2 :> i1)
MCSourceOf == (s1 :> address) @@ (s2 :> address)
==============================================================================
