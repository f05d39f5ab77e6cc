--------------------------- MODULE EnvelopePromise ---------------------------
(***************************************************************************)
(* What a Daddy promises about one opaque envelope, whatever tables, quotas *)
(* and transactions it uses: an ID is free, or held for its mailbox, or    *)
(* spent.  A held envelope keeps its mailbox, its payload and its expiry   *)
(* and can only become spent; it is never held a second time; and the ID   *)
(* is forgotten only once its expiry has passed.                           *)
(*                                                                         *)
(* HeldStore implements this specification (PromiseKept there).            *)
(***************************************************************************)
EXTENDS Integers

CONSTANTS
  Envelopes,    \* envelope IDs
  Mailboxes,    \* mailbox IDs
  Payloads,     \* encrypted payloads
  Free          \* the entry of an ID the Daddy knows nothing about

VARIABLES
  now,          \* the Daddy's clock
  ledger        \* what it promises about each envelope ID

vars == <<now, ledger>>

HeldEntry == [mailbox : Mailboxes, payload : Payloads, expires : Nat,
              phase : {"held"}]

Init ==
  /\ now = 0
  /\ ledger = [e \in Envelopes |-> Free]

(***************************************************************************)
(* The moves of one entry: accepted, spent, forgotten after its expiry     *)
(* (and possibly accepted anew by the same transaction).                   *)
(***************************************************************************)
Accepted(entry, next) == entry = Free /\ next \in HeldEntry

Spent(entry, next) ==
  /\ entry # Free
  /\ entry.phase = "held"
  /\ next = [entry EXCEPT !.phase = "spent"]

Forgotten(entry, next) ==
  /\ entry # Free
  /\ entry.expires <= now
  /\ next \in HeldEntry \cup {Free}

Next ==
  /\ now' \in {now, now + 1}
  /\ DOMAIN ledger' = Envelopes
  /\ \A e \in Envelopes :
       \/ ledger'[e] = ledger[e]
       \/ Accepted(ledger[e], ledger'[e])
       \/ Spent(ledger[e], ledger'[e])
       \/ Forgotten(ledger[e], ledger'[e])

Spec == Init /\ [][Next]_vars
==============================================================================
