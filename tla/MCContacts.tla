------------------------------ MODULE MCContacts ------------------------------
(***************************************************************************)
(* An instance of Contacts for TLC: two peers, the alias wanted for the    *)
(* one being the namespace of the other, two CLIs, and a queue that a row  *)
(* of a former identity and one more message fill.                         *)
(***************************************************************************)
EXTENDS Contacts, TLC

CONSTANTS p1, p2, ann, bob, old

MCNamespace == (p1 :> ann) @@ (p2 :> bob)
MCLeftover == <<old>>
==============================================================================
