----------------------------- MODULE MCHeldStore -----------------------------
(***************************************************************************)
(* Instances of HeldStore for TLC: two envelope IDs and a third one left   *)
(* by an old version, requests that repeat, that conflict and that compete *)
(* for the quotas.                                                         *)
(***************************************************************************)
EXTENDS HeldStore, TLC

CONSTANTS e1, e2, e3, m1, m2, p1, p2, u1, u2, c1, c2

Request(id, mailbox, payload, user) ==
  [id |-> id, mailbox |-> mailbox, payload |-> payload, user |-> user]

Legacy(id, mailbox, payload, expires) ==
  [id |-> id, mailbox |-> mailbox, payload |-> payload, submitter |-> NoUser,
   expires |-> expires]

\* Two handlers: the first request is repeated or retried, the second competes
\* with it for the quotas of their user and of their mailbox, the third reuses
\* the ID of the row that an old version left, for other bytes.
MCSubmissions ==
  {Request(e1, m1, p1, u1), Request(e2, m1, p1, u1), Request(e3, m2, p2, u1)}

MCLegacyRows == {Legacy(e3, m2, p1, 1), Legacy(e3, m2, p1, 2)}

MCSize == (p1 :> 1) @@ (p2 :> 2)
==============================================================================
