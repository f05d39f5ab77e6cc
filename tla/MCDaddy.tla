------------------------------- MODULE MCDaddy -------------------------------
(***************************************************************************)
(* An instance of Daddy for TLC: alice writes to a mailbox that she and    *)
(* bob may both claim.                                                     *)
(***************************************************************************)
EXTENDS Daddy, TLC

CONSTANTS e1, m1, m2, p1, s1, s2, f1, alice, bob

Request(id, mailbox, user) ==
  [id |-> id, mailbox |-> mailbox, payload |-> p1, user |-> user]

\* Sessions of both users meet over one envelope and two mailboxes.
SessionSubmissions == {Request(e1, m1, alice)}

MCSize == p1 :> 1

MCSymmetry == Permutations(Callers) \cup Permutations(Forwarders)
==============================================================================
