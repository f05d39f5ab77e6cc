------------------------------- MODULE MailFlow -------------------------------
(***************************************************************************)
(* The way of a message from a sender to a recipient and of its receipt    *)
(* back: the sender's CLI (cmd/inkmail/main.go) and daemon (retry.go,      *)
(* ResolveAndSend), the Daddies that hold envelopes, the recipient's       *)
(* collection (FetchHeldMessages, receiveMailboxEnvelope) and its outbox   *)
(* of receipts (opaque_mailbox.go).                                        *)
(*                                                                         *)
(* Any exchange may fail, and fail after the other side did its part: an   *)
(* answer is lost, a process is killed, the database is locked.  A Daddy   *)
(* keeps what HeldStore promises; no envelope reaches its expiry here.     *)
(* All envelopes that carry the same message to the same Daddy are one:    *)
(* an acknowledgement that is lost leaves a copy, as a second one would.   *)
(***************************************************************************)
EXTENDS Integers, Sequences, FiniteSets, SequencesExt

CONSTANTS
  Messages,         \* message IDs
  Foreign,          \* messages of other senders to the same recipient
  Discarded,        \* the messages their sender may delete
  Clients,          \* the sender's CLI processes
  Daemon,           \* the sender's daemon
  Daddies,
  Relays,           \* DaddyAddresses: every Daddy, in the order they are tried
  MayBeDead,        \* the Daddies that may never answer
  OutboxMessages,   \* quota of the recipient's outbox
  OutboxBatch,      \* ListOpaqueOutbox: entries submitted in one pass
  NoWork            \* a process that sends nothing

VARIABLES
  composed,   \* the messages composed so far
  deleted,    \* history: the messages the sender has deleted
  row,        \* the sender's messages table: status of each outgoing message
  work,       \* what each process of the sender is doing
  retry,      \* the rest of the daemon's ListQueuedMessages
  inbox,      \* the recipient's messages table
  seen,       \* history: the messages the recipient has ever stored
  outbox,     \* the recipient's opaque_mailbox_outbox, oldest first
  dead,       \* the Daddies that never answer
  held,       \* messages held for the recipient's mailbox, at each Daddy
  receipts    \* receipts held for the sender's mailbox, at each Daddy

created == <<composed, deleted>>
sender == <<created, row, work, retry>>
recipient == <<inbox, seen, outbox>>
relays == <<dead, held, receipts>>
vars == <<sender, recipient, relays>>

Workers == Clients \cup {Daemon}
Live == Daddies \ dead

Work == [message : Messages,
         phase : {"direct", "relay", "accepted", "delivered"}]

ASSUME MailFlowAssumption ==
  /\ NoWork \notin Work
  /\ Daemon \notin Clients
  /\ Discarded \subseteq Messages
  /\ Messages \cap Foreign = {}
  /\ MayBeDead \subseteq Daddies
  /\ Relays \in Seq(Daddies)
  /\ ToSet(Relays) = Daddies
  /\ OutboxMessages \in Nat
  /\ OutboxBatch \in Nat \ {0}

-----------------------------------------------------------------------------
Init ==
  /\ composed = {}
  /\ deleted = {}
  /\ row = [m \in Messages |-> "none"]
  /\ work = [w \in Workers |-> NoWork]
  /\ retry = {}
  /\ inbox = {}
  /\ seen = {}
  /\ outbox = <<>>
  /\ dead \in SUBSET MayBeDead
  /\ held = [d \in Daddies |-> {}]
  /\ receipts = [d \in Daddies |-> {}]

(***************************************************************************)
(* The sender                                                              *)
(***************************************************************************)

Start(w, m) == work' = [work EXCEPT ![w] = [message |-> m, phase |-> "direct"]]
Reach(w, phase) == work' = [work EXCEPT ![w].phase = phase]
Stop(w) == work' = [work EXCEPT ![w] = NoWork]
At(w, phase) == work[w] # NoWork /\ work[w].phase = phase

\* sendMessageToPeer stores the message before it uses the network.
Compose(c, m) ==
  /\ work[c] = NoWork
  /\ m \notin composed
  /\ composed' = composed \cup {m}
  /\ row' = [row EXCEPT ![m] = "queued"]
  /\ Start(c, m)
  /\ UNCHANGED <<deleted, retry, recipient, relays>>

Queued == {m \in Messages : row[m] = "queued"}

\* RetryQueuedMessages lists once; what it lists may change while it works.
ListQueued ==
  /\ work[Daemon] = NoWork
  /\ retry = {}
  /\ Queued # {}
  /\ retry' = Queued
  /\ UNCHANGED <<created, row, work, recipient, relays>>

RetryQueued(m) ==
  /\ work[Daemon] = NoWork
  /\ m \in retry
  /\ retry' = retry \ {m}
  /\ Start(Daemon, m)
  /\ UNCHANGED <<created, row, recipient, relays>>

\* Mutant: a result that is recorded late replaces "delivered".
LateResultWins(old, new) == new

\* StoreMessage on conflict: "delivered" is never overwritten.
Upsert(old, new) == IF old = "delivered" THEN old ELSE new

\* The StoreMessage that follows a successful ResolveAndSend.
Record(w) ==
  /\ work[w] # NoWork
  /\ work[w].phase \in {"accepted", "delivered"}
  /\ LET m      == work[w].message
         status == IF work[w].phase = "delivered" THEN "delivered" ELSE "pending"
     IN row' = [row EXCEPT ![m] = Upsert(row[m], status)]
  /\ Stop(w)
  /\ UNCHANGED <<created, retry, recipient, relays>>

\* The process is killed, or cannot record the result.
Abort(w) ==
  /\ work[w] # NoWork
  /\ Stop(w)
  /\ retry' = IF w = Daemon THEN {} ELSE retry
  /\ UNCHANGED <<created, row, recipient, relays>>

\* msg del
DeleteSent(m) ==
  /\ m \in Discarded
  /\ row[m] # "none"
  /\ row' = [row EXCEPT ![m] = "none"]
  /\ deleted' = deleted \cup {m}
  /\ UNCHANGED <<composed, work, retry, recipient, relays>>

-----------------------------------------------------------------------------
(***************************************************************************)
(* The recipient: receiveMailboxEnvelope stores the message, then queues a *)
(* receipt.  When it fails in between, the envelope is answered "rejected" *)
(* although the message is stored.                                         *)
(***************************************************************************)

Receive(m) ==
  /\ Len(outbox) < OutboxMessages
  /\ inbox' = inbox \cup {m}
  /\ seen' = seen \cup {m}
  /\ outbox' = Append(outbox, m)

\* A message of another sender comes in, by whichever way: its receipt takes a
\* place in the same outbox.
ReceiveForeign(o) ==
  /\ Len(outbox) < OutboxMessages
  /\ outbox' = Append(outbox, o)
  /\ UNCHANGED <<sender, inbox, seen, relays>>

\* The outbox is full, or one of the later statements fails.
ReceiveInPart(m) ==
  /\ inbox' = inbox \cup {m}
  /\ seen' = seen \cup {m}
  /\ UNCHANGED outbox

\* deliverEnvelopeToAddress at a direct route, up to the answer.
DeliverDirect(w) ==
  /\ At(w, "direct")
  /\ Receive(work[w].message)
  /\ Reach(w, "delivered")
  /\ UNCHANGED <<created, row, retry, relays>>

\* No route, nobody there, refused, or the answer is lost.
FailDirect(w) ==
  /\ At(w, "direct")
  /\ \/ UNCHANGED recipient
     \/ Receive(work[w].message)
     \/ ReceiveInPart(work[w].message)
  /\ Reach(w, "relay")
  /\ UNCHANGED <<created, row, retry, relays>>

\* The Daddies in S hold message m from now on.
HoldAt(S, m) ==
  held' = [d \in Daddies |-> IF d \in S THEN held[d] \cup {m} ELSE held[d]]

\* Mutant: HOLD_ACK is taken for granted.
HoldUnanswered(w, i) ==
  /\ At(w, "relay")
  /\ Relays[i] \in Live
  /\ Reach(w, "accepted")
  /\ UNCHANGED <<created, row, retry, recipient, relays>>

\* Mutant: holdViaRelays returns after the first Daddy, whatever it said.
HoldFirstOnly(w, i) ==
  /\ At(w, "relay")
  /\ i = 1
  /\ Relays[i] \in Live
  /\ HoldAt({Relays[i]}, work[w].message)
  /\ Reach(w, "accepted")
  /\ UNCHANGED <<created, row, retry, recipient, receipts, dead>>

\* holdViaRelays: the first Daddy that answers is enough.  One tried before it
\* may hold the envelope too, its answer lost.
HoldViaRelays(w, i) ==
  /\ At(w, "relay")
  /\ Relays[i] \in Live
  /\ \E unanswered \in SUBSET {Relays[j] : j \in 1 .. i - 1} :
       HoldAt((unanswered \cap Live) \cup {Relays[i]}, work[w].message)
  /\ Reach(w, "accepted")
  /\ UNCHANGED <<created, row, retry, recipient, receipts, dead>>

\* Mutant: a failed attempt is recorded, too.
FailRequeues(w) ==
  /\ At(w, "relay")
  /\ \E unanswered \in SUBSET Live : HoldAt(unanswered, work[w].message)
  /\ Stop(w)
  /\ row' = [row EXCEPT ![work[w].message] = IF @ = "delivered" THEN @ ELSE "queued"]
  /\ UNCHANGED <<created, retry, recipient, receipts, dead>>

\* No Daddy answers: the message stays queued.
FailRelays(w) ==
  /\ At(w, "relay")
  /\ \E unanswered \in SUBSET Live : HoldAt(unanswered, work[w].message)
  /\ Stop(w)
  /\ UNCHANGED <<created, row, retry, recipient, receipts, dead>>

\* Mutant: the envelope is acknowledged before its receipt is queued.
CollectEarly(d, m) ==
  /\ m \in held[d]
  /\ Receive(m) \/ ReceiveInPart(m)
  /\ held' = [held EXCEPT ![d] = @ \ {m}]
  /\ UNCHANGED <<sender, receipts, dead>>

\* FetchHeldMessages, one envelope: received, acknowledged and deleted; or the
\* acknowledgement is lost or says "rejected", and the Daddy keeps it.
Collect(d, m) ==
  /\ m \in held[d]
  /\ Receive(m)
  /\ held' = [held EXCEPT ![d] = @ \ {m}]
  /\ UNCHANGED <<sender, receipts, dead>>

CollectUnacked(d, m) ==
  /\ m \in held[d]
  /\ Receive(m) \/ ReceiveInPart(m)
  /\ UNCHANGED <<sender, relays>>

DeleteReceived(m) ==
  /\ m \in inbox
  /\ inbox' = inbox \ {m}
  /\ UNCHANGED <<seen, outbox, sender, relays>>

\* Mutant: an entry is removed once it was submitted.
SyncOutboxOnce(i, reached, answered) ==
  /\ i \in 1 .. Len(outbox)
  /\ i <= OutboxBatch
  /\ answered \subseteq reached
  /\ receipts' = [d \in Daddies |-> IF d \in reached
                                    THEN receipts[d] \cup ({outbox[i]} \cap Messages)
                                    ELSE receipts[d]]
  /\ outbox' = RemoveAt(outbox, i)
  /\ UNCHANGED <<sender, inbox, seen, held, dead>>

\* SyncOpaqueMailboxOutbox, one entry of the oldest ones: it is submitted to
\* every Daddy and removed when all of them answered in this pass.  A Daddy that
\* has it already answers "already_stored": where the receipt was collected in
\* the meantime, what is added here stands for another receipt of the message.
\* Receipts of other senders' messages go to mailboxes that are not modelled.
SyncOutbox(i, reached, answered) ==
  /\ i \in 1 .. Len(outbox)
  /\ i <= OutboxBatch
  /\ answered \subseteq reached
  /\ receipts' = [d \in Daddies |-> IF d \in reached
                                    THEN receipts[d] \cup ({outbox[i]} \cap Messages)
                                    ELSE receipts[d]]
  /\ outbox' = IF answered = Daddies THEN RemoveAt(outbox, i) ELSE outbox
  /\ UNCHANGED <<sender, inbox, seen, held, dead>>

\* The sender collects a receipt.  One that matches no message of the sender's
\* is rejected and stays; the acknowledgement of a match may be lost.
MarkDelivered(m) == row' = [row EXCEPT ![m] = "delivered"]

\* Mutant: a receipt makes the row it does not find.
CollectUpserts(d, m) ==
  /\ m \in receipts[d]
  /\ MarkDelivered(m)
  /\ receipts' = [receipts EXCEPT ![d] = @ \ {m}]
  /\ UNCHANGED <<created, work, retry, recipient, held, dead>>

CollectReceipt(d, m) ==
  /\ m \in receipts[d]
  /\ row[m] # "none"
  /\ MarkDelivered(m)
  /\ receipts' = [receipts EXCEPT ![d] = @ \ {m}]
  /\ UNCHANGED <<created, work, retry, recipient, held, dead>>

CollectReceiptUnacked(d, m) ==
  /\ m \in receipts[d]
  /\ row[m] # "none"
  /\ MarkDelivered(m)
  /\ UNCHANGED <<created, work, retry, recipient, relays>>

-----------------------------------------------------------------------------
Sending(w) ==
  \/ Record(w)
  \/ Abort(w)
  \/ DeliverDirect(w)
  \/ FailDirect(w)
  \/ \E i \in DOMAIN Relays : HoldViaRelays(w, i)
  \/ FailRelays(w)

Next ==
  \/ \E c \in Clients, m \in Messages : Compose(c, m)
  \/ ListQueued
  \/ \E m \in Messages : RetryQueued(m)
  \/ \E w \in Workers : Sending(w)
  \/ \E m \in Messages : DeleteSent(m) \/ DeleteReceived(m)
  \/ \E o \in Foreign : ReceiveForeign(o)
  \/ \E d \in Live, m \in Messages :
       \/ Collect(d, m)
       \/ CollectUnacked(d, m)
       \/ CollectReceipt(d, m)
       \/ CollectReceiptUnacked(d, m)
  \/ \E i \in DOMAIN outbox, reached, answered \in SUBSET Live :
       SyncOutbox(i, reached, answered)

Spec == Init /\ [][Next]_vars

(***************************************************************************)
(* Both daemons run their loops for ever (DialPersistentWithRetry), and    *)
(* what they try again and again gets done once in a while: they are not   *)
(* always killed, nor their database always locked, nor every live Daddy's *)
(* answer always lost.  Nothing is assumed of the CLI processes, nor that  *)
(* the recipient can ever be reached directly.                             *)
(***************************************************************************)
Fairness ==
  /\ WF_vars(ListQueued)
  /\ \A m \in Messages : SF_vars(RetryQueued(m))
  /\ SF_vars(DeliverDirect(Daemon) \/ FailDirect(Daemon))
  /\ SF_vars(\E i \in DOMAIN Relays : HoldViaRelays(Daemon, i))
  /\ SF_vars(Record(Daemon))
  /\ \A m \in Messages :
       /\ SF_vars(\E d \in Live : Collect(d, m))
       /\ SF_vars(\E d \in Live : Len(outbox) >= OutboxMessages /\ CollectUnacked(d, m))
       /\ SF_vars(\E d \in Live : CollectReceipt(d, m))
  /\ \A m \in Messages \cup Foreign :
       SF_vars(\E i \in DOMAIN outbox :
                 outbox[i] = m /\ SyncOutbox(i, Live, Live))

FairSpec == Spec /\ Fairness

-----------------------------------------------------------------------------
(***************************************************************************)
(* Properties                                                              *)
(***************************************************************************)

\* The types of the tables and of the work in progress.
TypeOK ==
  /\ composed \subseteq Messages /\ deleted \subseteq Messages
  /\ row \in [Messages -> {"none", "queued", "pending", "delivered"}]
  /\ work \in [Workers -> Work \cup {NoWork}]
  /\ retry \subseteq Messages
  /\ inbox \subseteq seen /\ seen \subseteq Messages
  /\ outbox \in Seq(Messages \cup Foreign)
  /\ dead \subseteq MayBeDead
  /\ held \in [Daddies -> SUBSET Messages]
  /\ receipts \in [Daddies -> SUBSET Messages]

\* The sender is told "delivered" only of a message the recipient has stored,
\* whether by a direct answer or by a receipt that came round the relays.
DeliveredMeansStored ==
  \A m \in Messages : row[m] = "delivered" => m \in seen

\* "pending" is kept: the recipient has the message, or a Daddy that accepted
\* it still holds it.  No acknowledgement, duplicate or failure in between
\* drops the last copy.
InGoodHands(m) == m \in seen \/ \E d \in Daddies : m \in held[d]
PendingIsSafe ==
  \A m \in Messages : row[m] = "pending" => InGoodHands(m)

\* A receipt exists only of a message that was stored.
ReceiptsAreTrue ==
  /\ outbox \in Seq(seen \cup Foreign)
  /\ \A d \in Daddies : receipts[d] \subseteq seen

\* A process about to record a result records the truth.
WorkIsTrue ==
  \A w \in Workers :
    work[w] # NoWork =>
      /\ work[w].phase = "accepted" => InGoodHands(work[w].message)
      /\ work[w].phase = "delivered" => work[w].message \in seen

\* What the sender's table says, what its processes are about to write and what
\* travels between the nodes agree.  Inductive.
MailInv ==
  /\ TypeOK
  /\ DeliveredMeansStored
  /\ PendingIsSafe
  /\ ReceiptsAreTrue
  /\ WorkIsTrue

\* A message that is not deleted is never stranded: the daemon tries it again, it
\* is delivered, or something is under way at a Daddy that lives, or at the
\* recipient, that will say so.  No envelope is dropped before its receipt is
\* queued, no receipt before every Daddy has it, and none is collected in vain.
OnItsWay(m) ==
  \/ \E d \in Live : m \in held[d] \cup receipts[d]
  \/ Live # {} /\ m \in ToSet(outbox)
NothingStranded ==
  \A m \in composed \ deleted :
    \/ row[m] \in {"queued", "delivered"}
    \/ row[m] = "pending" /\ OnItsWay(m)

\* Once shown as delivered a message is never shown as queued or pending: not
\* by a process that recorded its result late, nor by a retry of a stale list.
\* Only the user's deletion forgets it.
DeliveredIsFinal ==
  [][\A m \in Messages :
       row[m] = "delivered" => row'[m] \in {"delivered", "none"}]_vars

\* A message that is deleted while nobody is sending it, and that no list of
\* the daemon still names, never comes back: neither a receipt nor a later pass
\* of the daemon makes a row for it.  (A process that is sending it does: it
\* records its result with the message it has read.)
Sent(m) == \E w \in Workers : work[w] # NoWork /\ work[w].message = m
Gone(m) == m \in composed /\ row[m] = "none" /\ m \notin retry /\ ~Sent(m)
GoneForGood == [][\A m \in Messages : Gone(m) => Gone(m)']_vars

\* All of it in terms of what the two users can see.
Promise == INSTANCE MailPromise WITH
  shown  <- row,
  known  <- composed,
  busy   <- {m \in Messages : Sent(m) \/ m \in retry},
  safe   <- {m \in Messages : InGoodHands(m)},
  stored <- seen

\* MailFlow implements MailPromise: whatever is lost, repeated or killed, every
\* step of the two nodes and their Daddies is one of its steps, or none.
MailPromiseKept == Promise!Spec

\* A composed message that its sender does not delete reaches the recipient,
\* whichever Daddies are dead, as long as one lives.
EventuallyStored ==
  Live # {} => \A m \in Messages : m \in composed ~> m \in seen \cup deleted

\* The sender learns that a message it waits for was stored, unless a Daddy is
\* dead and other receipts fill the batch, or the outbox: these stay for ever
\* (SyncOutbox), and nothing behind them is ever submitted.
ShutOut(m) ==
  /\ dead # {}
  /\ Len(outbox) >= OutboxBatch \/ Len(outbox) >= OutboxMessages
  /\ \A i \in DOMAIN outbox : i <= OutboxBatch => outbox[i] # m
EventuallyDelivered ==
  \A m \in Messages :
    (row[m] = "pending" /\ m \in seen)
      ~> (row[m] = "delivered" \/ m \in deleted \/ ShutOut(m))

\* "disabling one Daddy does not strand the node": while another Daddy lives,
\* the receipts of a recipient that has both configured still arrive.
OneDeadDaddyIsHarmless ==
  Live # {} => \A m \in Messages :
    (row[m] = "pending" /\ m \in seen) ~> (row[m] = "delivered" \/ m \in deleted)
==============================================================================
