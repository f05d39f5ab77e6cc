------------------------------ MODULE MailPromise ------------------------------
(***************************************************************************)
(* What the sender of messages is promised, whatever Daddies, receipts and *)
(* retries there are: a message that is shown as pending is safe (stored   *)
(* at its recipient, or held for it), one that is shown as delivered is    *)
(* stored; neither is ever taken back, except by a deletion; and what was  *)
(* deleted comes back only through a process that was still busy with it.  *)
(*                                                                         *)
(* MailFlow implements this specification (MailPromiseKept there).         *)
(***************************************************************************)
CONSTANTS
  Messages      \* message IDs

VARIABLES
  shown,        \* the status that message list shows, or "none"
  known,        \* the messages that were ever composed
  busy,         \* the messages that a process of the sender still works on
  safe,         \* the messages that are stored, or held for the recipient
  stored        \* the messages that the recipient has stored

vars == <<shown, known, busy, safe, stored>>

Init ==
  /\ shown = [m \in Messages |-> "none"]
  /\ known = {}
  /\ busy = {}
  /\ safe = {}
  /\ stored = {}

(***************************************************************************)
(* The moves of what is shown of one message.                              *)
(***************************************************************************)
Composed(m) == m \notin known /\ shown'[m] = "queued"

\* A row that is gone is made anew only by a process that works on its message.
HasRow(m) == shown[m] # "none" \/ m \in busy

Entrusted(m) ==
  /\ HasRow(m) /\ shown[m] # "delivered"
  /\ shown'[m] = "pending"
  /\ m \in safe

Delivered(m) ==
  /\ HasRow(m)
  /\ shown'[m] = "delivered"
  /\ m \in stored

Forgotten(m) == shown[m] # "none" /\ shown'[m] = "none"

\* Nobody starts to work on a message that has no row.
Next ==
  /\ DOMAIN shown' = Messages
  /\ \A m \in Messages :
       \/ shown'[m] = shown[m]
       \/ Composed(m)
       \/ Entrusted(m)
       \/ Delivered(m)
       \/ Forgotten(m)
  /\ known' = known \cup {m \in Messages : Composed(m)}
  /\ busy' \subseteq busy \cup {m \in Messages : shown'[m] # "none"}
  /\ busy' \subseteq known'
  /\ safe \subseteq safe'
  /\ stored \subseteq stored'
  /\ stored' \subseteq safe' /\ safe' \subseteq known'

Spec == Init /\ [][Next]_vars
==============================================================================
