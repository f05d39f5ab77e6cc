---------------------------- MODULE MailFlowProofs ----------------------------
(***************************************************************************)
(* Proofs about MailFlow, for every set of messages, clients and Daddies,  *)
(* whichever Daddies are dead, and every size of the outbox.               *)
(***************************************************************************)
EXTENDS MailFlow, SequenceTheorems, TLAPS

-----------------------------------------------------------------------------
(***************************************************************************)
(* The outbox.                                                             *)
(***************************************************************************)

\* What is left of a sequence has no element the sequence had not.
LEMMA RemoveAtKeepsType ==
  ASSUME NEW S, NEW s \in Seq(S), NEW i \in 1 .. Len(s)
  PROVE  RemoveAt(s, i) \in Seq(S)
<1>1. /\ \A j \in 1 .. i - 1 : s[j] \in S
      /\ \A j \in i + 1 .. Len(s) : s[j] \in S
  OBVIOUS
<1>2. SubSeq(s, 1, i - 1) \in Seq(S)
  BY <1>1, SubSeqProperties
<1>3. SubSeq(s, i + 1, Len(s)) \in Seq(S)
  <2>1. i + 1 \in Int /\ Len(s) \in Int
    OBVIOUS
  <2>2. QED
    BY <1>1, <2>1, SubSeqProperties
<1>4. QED
  BY <1>2, <1>3, ConcatProperties DEF RemoveAt

LEMMA WiderSeq ==
  ASSUME NEW S, NEW T, S \subseteq T, NEW s \in Seq(S)
  PROVE  s \in Seq(T)
OBVIOUS

-----------------------------------------------------------------------------
(***************************************************************************)
(* Types                                                                   *)
(***************************************************************************)

LEMMA WorkerFacts ==
  ASSUME TypeOK, NEW w \in Workers, work[w] # NoWork
  PROVE  /\ work[w] \in Work
         /\ work[w].message \in Messages
         /\ work[w].phase \in {"direct", "relay", "accepted", "delivered"}
BY DEF TypeOK, Work

LEMMA StartKeepsType ==
  ASSUME TypeOK, NEW w \in Workers, NEW m \in Messages, Start(w, m)
  PROVE  work' \in [Workers -> Work \cup {NoWork}]
BY DEF TypeOK, Start, Work

LEMMA ReachKeepsType ==
  ASSUME TypeOK, NEW w \in Workers, work[w] # NoWork,
         NEW phase \in {"direct", "relay", "accepted", "delivered"},
         Reach(w, phase)
  PROVE  /\ work' \in [Workers -> Work \cup {NoWork}]
         /\ work'[w].phase = phase
         /\ work'[w].message = work[w].message
         /\ \A v \in Workers \ {w} : work'[v] = work[v]
<1>1. work[w] \in Work
  BY DEF TypeOK
<1>2. [work[w] EXCEPT !.phase = phase] \in Work
  BY <1>1 DEF Work
<1>3. work' = [work EXCEPT ![w] = [work[w] EXCEPT !.phase = phase]]
  BY DEF Reach
<1>4. QED
  BY <1>1, <1>2, <1>3 DEF TypeOK, Work

LEMMA StopKeepsType ==
  ASSUME TypeOK, NEW w \in Workers, Stop(w)
  PROVE  /\ work' \in [Workers -> Work \cup {NoWork}]
         /\ work'[w] = NoWork
         /\ \A v \in Workers \ {w} : work'[v] = work[v]
BY DEF TypeOK, Stop

\* Whatever happens to an envelope at the recipient.
ReceiveSomehow(m) == Receive(m) \/ ReceiveInPart(m)

LEMMA ReceiveKeepsType ==
  ASSUME TypeOK, NEW m \in Messages, ReceiveSomehow(m)
  PROVE  /\ inbox' \subseteq seen' /\ seen' \subseteq Messages
         /\ outbox' \in Seq(Messages \cup Foreign)
         /\ seen' = seen \cup {m}
         /\ outbox \in Seq(seen \cup Foreign) => outbox' \in Seq(seen' \cup Foreign)
<1>1. inbox' \subseteq seen' /\ seen' \subseteq Messages
      /\ seen' = seen \cup {m}
  BY DEF TypeOK, ReceiveSomehow, Receive, ReceiveInPart
<1>2. outbox' \in {outbox, Append(outbox, m)}
  BY DEF ReceiveSomehow, Receive, ReceiveInPart
<1>3. outbox' \in Seq(Messages \cup Foreign)
  BY <1>2 DEF TypeOK
<1>4. ASSUME outbox \in Seq(seen \cup Foreign)
      PROVE  outbox' \in Seq(seen' \cup Foreign)
  <2>1. outbox \in Seq(seen' \cup Foreign) /\ m \in seen'
    BY <1>1, <1>4, WiderSeq
  <2>2. QED
    BY <1>2, <2>1, AppendProperties
<1>5. QED
  BY <1>1, <1>3, <1>4

LEMMA TypeStart == Init => TypeOK
BY DEF Init, TypeOK

LEMMA TypeStep == TypeOK /\ [Next]_vars => TypeOK'
<1> SUFFICES ASSUME TypeOK, [Next]_vars PROVE TypeOK'
  OBVIOUS
<1> USE MailFlowAssumption
<1>1. ASSUME NEW c \in Clients, NEW m \in Messages, Compose(c, m)
      PROVE  TypeOK'
  <2>1. c \in Workers
    BY DEF Workers
  <2>2. work' \in [Workers -> Work \cup {NoWork}]
    BY <1>1, <2>1, StartKeepsType DEF Compose
  <2>3. QED
    BY <1>1, <2>2 DEF Compose, TypeOK, created, recipient, relays
<1>2. CASE ListQueued
  BY <1>2 DEF ListQueued, Queued, TypeOK, created, recipient, relays
<1>3. ASSUME NEW m \in Messages, RetryQueued(m)
      PROVE  TypeOK'
  <2>1. Daemon \in Workers
    BY DEF Workers
  <2>2. work' \in [Workers -> Work \cup {NoWork}]
    BY <1>3, <2>1, StartKeepsType DEF RetryQueued
  <2>3. QED
    BY <1>3, <2>2 DEF RetryQueued, TypeOK, created, recipient, relays
<1>4. ASSUME NEW w \in Workers, Sending(w)
      PROVE  TypeOK'
  <2>1. work[w] # NoWork
    BY <1>4 DEF Sending, Record, Abort, DeliverDirect, FailDirect,
                HoldViaRelays, FailRelays, At
  <2>2. work[w].message \in Messages
    BY <2>1, WorkerFacts
  <2>3. CASE Record(w)
    <3>1. work' \in [Workers -> Work \cup {NoWork}]
      BY <2>3, StopKeepsType DEF Record
    <3>2. QED
      BY <2>2, <2>3, <3>1 DEF Record, Upsert, TypeOK, created, recipient, relays
  <2>4. CASE Abort(w)
    <3>1. work' \in [Workers -> Work \cup {NoWork}]
      BY <2>4, StopKeepsType DEF Abort
    <3>2. QED
      BY <2>4, <3>1 DEF Abort, TypeOK, created, recipient, relays
  <2>5. CASE DeliverDirect(w)
    <3>1. work' \in [Workers -> Work \cup {NoWork}]
      BY <2>1, <2>5, ReachKeepsType DEF DeliverDirect
    <3>2. ReceiveSomehow(work[w].message)
      BY <2>5 DEF DeliverDirect, ReceiveSomehow
    <3>3. QED
      BY <2>2, <2>5, <3>1, <3>2, ReceiveKeepsType
         DEF DeliverDirect, TypeOK, created, relays
  <2>6. CASE FailDirect(w)
    <3>1. work' \in [Workers -> Work \cup {NoWork}]
      BY <2>1, <2>6, ReachKeepsType DEF FailDirect
    <3>2. UNCHANGED recipient \/ ReceiveSomehow(work[w].message)
      BY <2>6 DEF FailDirect, ReceiveSomehow
    <3>3. /\ inbox' \subseteq seen' /\ seen' \subseteq Messages
          /\ outbox' \in Seq(Messages \cup Foreign)
      BY <2>2, <3>2, ReceiveKeepsType DEF TypeOK, created, recipient
    <3>4. QED
      BY <2>6, <3>1, <3>3 DEF FailDirect, TypeOK, created, relays
  <2>7. ASSUME NEW i \in DOMAIN Relays, HoldViaRelays(w, i)
        PROVE  TypeOK'
    <3>1. work' \in [Workers -> Work \cup {NoWork}]
      BY <2>1, <2>7, ReachKeepsType DEF HoldViaRelays
    <3>2. held' \in [Daddies -> SUBSET Messages]
      BY <2>2, <2>7 DEF HoldViaRelays, HoldAt, TypeOK
    <3>3. QED
      BY <2>7, <3>1, <3>2 DEF HoldViaRelays, TypeOK, created, recipient
  <2>8. CASE FailRelays(w)
    <3>1. work' \in [Workers -> Work \cup {NoWork}]
      BY <2>8, StopKeepsType DEF FailRelays
    <3>2. held' \in [Daddies -> SUBSET Messages]
      BY <2>2, <2>8 DEF FailRelays, HoldAt, TypeOK
    <3>3. QED
      BY <2>8, <3>1, <3>2 DEF FailRelays, TypeOK, created, recipient
  <2>9. QED
    BY <1>4, <2>3, <2>4, <2>5, <2>6, <2>7, <2>8 DEF Sending
<1>5. ASSUME NEW m \in Messages, DeleteSent(m) \/ DeleteReceived(m)
      PROVE  TypeOK'
  BY <1>5 DEF DeleteSent, DeleteReceived, TypeOK, sender, created, recipient, relays
<1>6. ASSUME NEW d \in Live, NEW m \in Messages,
             \/ Collect(d, m)
             \/ CollectUnacked(d, m)
      PROVE  TypeOK'
  <2>1. ReceiveSomehow(m)
    BY <1>6 DEF Collect, CollectUnacked, ReceiveSomehow
  <2>2. held' \in [Daddies -> SUBSET Messages]
    BY <1>6 DEF Collect, CollectUnacked, TypeOK, created, relays
  <2>3. QED
    BY <1>6, <2>1, <2>2, ReceiveKeepsType
       DEF Collect, CollectUnacked, TypeOK, sender, created, relays
<1>7. ASSUME NEW d \in Live, NEW m \in Messages,
             \/ CollectReceipt(d, m)
             \/ CollectReceiptUnacked(d, m)
      PROVE  TypeOK'
  <2>1. d \in Daddies
    BY DEF Live
  <2>2. row' \in [Messages -> {"none", "queued", "pending", "delivered"}]
    BY <1>7 DEF CollectReceipt, CollectReceiptUnacked, MarkDelivered, TypeOK
  <2>3. receipts' \in [Daddies -> SUBSET Messages]
    BY <1>7, <2>1 DEF CollectReceipt, CollectReceiptUnacked, TypeOK, created, relays
  <2>4. QED
    BY <1>7, <2>2, <2>3
       DEF CollectReceipt, CollectReceiptUnacked, TypeOK, created, recipient, relays
<1>8. ASSUME NEW i \in DOMAIN outbox, NEW reached \in SUBSET Live,
             NEW answered \in SUBSET Live, SyncOutbox(i, reached, answered)
      PROVE  TypeOK'
  <2>1. i \in 1 .. Len(outbox) /\ outbox \in Seq(Messages \cup Foreign)
    BY <1>8 DEF SyncOutbox, TypeOK
  <2>2. outbox' \in Seq(Messages \cup Foreign)
    BY <1>8, <2>1, RemoveAtKeepsType DEF SyncOutbox
  <2>3. receipts' \in [Daddies -> SUBSET Messages]
    BY <1>8 DEF SyncOutbox, TypeOK
  <2>4. QED
    BY <1>8, <2>2, <2>3 DEF SyncOutbox, TypeOK, created, sender
<1>9. ASSUME NEW o \in Foreign, ReceiveForeign(o)
      PROVE  TypeOK'
  <2>1. outbox' \in Seq(Messages \cup Foreign)
    BY <1>9, AppendProperties DEF ReceiveForeign, TypeOK
  <2>2. QED
    BY <1>9, <2>1 DEF ReceiveForeign, TypeOK, created, sender, relays
<1>10. CASE UNCHANGED vars
  BY <1>10 DEF vars, sender, created, recipient, relays, TypeOK
<1>11. QED
  BY <1>1, <1>2, <1>3, <1>4, <1>5, <1>6, <1>7, <1>8, <1>9, <1>10 DEF Next

\* The tables and the work of both nodes always have their types: no failure,
\* retry or duplicate leaves a malformed row, outbox or relay.
THEOREM MailTypeCorrect == Spec => []TypeOK
BY TypeStart, TypeStep, PTL DEF Spec

-----------------------------------------------------------------------------
(***************************************************************************)
(* The sender is told the truth.  The heart of the argument is that good   *)
(* hands never let go: a Daddy drops a copy only after the recipient       *)
(* stored the message.                                                     *)
(***************************************************************************)

InGoodHandsNext(m) == m \in seen' \/ \E d \in Daddies : m \in held'[d]

LEMMA HandsNeverLetGo ==
  ASSUME TypeOK, [Next]_vars
  PROVE  /\ seen \subseteq seen'
         /\ \A m \in Messages : InGoodHands(m) => InGoodHandsNext(m)
<1>1. SUFFICES ASSUME NEW k
               PROVE  /\ seen \subseteq seen'
                      /\ InGoodHands(k) => InGoodHandsNext(k)
  OBVIOUS
<1>2. CASE seen \subseteq seen' /\ \A d \in Daddies : held[d] \subseteq held'[d]
  BY <1>2 DEF InGoodHands, InGoodHandsNext
<1>3. ASSUME NEW w \in Workers, Sending(w)
      PROVE  seen \subseteq seen' /\ \A d \in Daddies : held[d] \subseteq held'[d]
  <2>1. work[w] # NoWork
    BY <1>3 DEF Sending, Record, Abort, DeliverDirect, FailDirect,
                HoldViaRelays, FailRelays, At
  <2>2. seen \subseteq seen'
    BY <1>3 DEF Sending, Record, Abort, DeliverDirect, FailDirect,
                HoldViaRelays, FailRelays, Receive, ReceiveInPart, recipient
  <2>3. CASE UNCHANGED held
    BY <2>2, <2>3
  <2>4. ASSUME NEW T, HoldAt(T, work[w].message)
        PROVE  \A d \in Daddies : held[d] \subseteq held'[d]
    BY <2>4 DEF HoldAt
  <2>5. QED
    BY <1>3, <2>2, <2>3, <2>4 DEF Sending, Record, Abort, DeliverDirect,
       FailDirect, HoldViaRelays, FailRelays, relays
<1>4. ASSUME NEW d \in Live, NEW m \in Messages, Collect(d, m)
      PROVE  /\ seen \subseteq seen'
             /\ InGoodHands(k) => InGoodHandsNext(k)
  <2>1. d \in Daddies
    BY DEF Live
  <2>2. seen' = seen \cup {m} /\ held' = [held EXCEPT ![d] = @ \ {m}]
    BY <1>4 DEF Collect, Receive
  <2>3. \A e \in Daddies : held[e] \ {m} \subseteq held'[e]
    BY <2>1, <2>2 DEF TypeOK
  <2>4. QED
    BY <2>2, <2>3 DEF InGoodHands, InGoodHandsNext
<1>5. ASSUME NEW d \in Live, NEW m \in Messages, CollectUnacked(d, m)
      PROVE  seen \subseteq seen' /\ UNCHANGED held
  BY <1>5 DEF CollectUnacked, Receive, ReceiveInPart, relays
<1>6. ASSUME \/ \E c \in Clients, m \in Messages : Compose(c, m)
             \/ ListQueued
             \/ \E m \in Messages : \/ RetryQueued(m)
                                   \/ DeleteSent(m)
                                   \/ DeleteReceived(m)
             \/ \E d \in Live, m \in Messages :
                  CollectReceipt(d, m) \/ CollectReceiptUnacked(d, m)
             \/ \E i \in DOMAIN outbox, reached, answered \in SUBSET Live :
                  SyncOutbox(i, reached, answered)
             \/ \E o \in Foreign : ReceiveForeign(o)
             \/ UNCHANGED vars
      PROVE  UNCHANGED <<seen, held>>
  BY <1>6 DEF Compose, ListQueued, RetryQueued, DeleteSent, DeleteReceived,
     CollectReceipt, CollectReceiptUnacked, SyncOutbox, ReceiveForeign, vars, sender,
     created, recipient, relays
<1>7. QED
  BY <1>2, <1>3, <1>4, <1>5, <1>6 DEF Next

\* MailInv, apart from the types.
Truth == DeliveredMeansStored /\ PendingIsSafe /\ ReceiptsAreTrue /\ WorkIsTrue

LEMMA MailStart == Init => Truth
BY DEF Init, Truth, DeliveredMeansStored, PendingIsSafe, ReceiptsAreTrue,
       WorkIsTrue

\* Steps that record nothing at the sender and reach no new result keep what
\* the sender's tables and processes say true.
LEMMA SenderUntouched ==
  ASSUME TypeOK, [Next]_vars, Truth,
         \A m \in Messages : row'[m] \in {row[m], "none", "queued"},
         \A w \in Workers :
           \/ work'[w] = work[w]
           \/ work'[w] = NoWork
           \/ work'[w].phase \in {"direct", "relay"}
  PROVE  DeliveredMeansStored' /\ PendingIsSafe' /\ WorkIsTrue'
<1>1. /\ seen \subseteq seen'
      /\ \A m \in Messages : InGoodHands(m) => InGoodHandsNext(m)
  BY HandsNeverLetGo
<1>2. DeliveredMeansStored'
  BY <1>1 DEF Truth, DeliveredMeansStored
<1>3. PendingIsSafe'
  BY <1>1 DEF Truth, PendingIsSafe, InGoodHands, InGoodHandsNext
<1>4. ASSUME NEW w \in Workers, work'[w] # NoWork
      PROVE  /\ work'[w].phase = "accepted" => InGoodHandsNext(work'[w].message)
             /\ work'[w].phase = "delivered" => work'[w].message \in seen'
  <2>1. CASE work'[w] = work[w]
    <3>1. work[w] # NoWork /\ work[w].message \in Messages
      BY <1>4, <2>1, WorkerFacts
    <3>2. QED
      BY <1>1, <2>1, <3>1 DEF Truth, WorkIsTrue
  <2>2. CASE work'[w].phase \in {"direct", "relay"}
    BY <2>2
  <2>3. QED
    BY <1>4, <2>1, <2>2
<1>5. QED
  BY <1>2, <1>3, <1>4 DEF WorkIsTrue, InGoodHands, InGoodHandsNext

\* Nor do the steps that leave receipts alone, or only take some away, make a
\* receipt of a message nobody stored.
LEMMA ReceiptsUntouched ==
  ASSUME TypeOK, [Next]_vars, ReceiptsAreTrue,
         outbox' = outbox,
         \A d \in Daddies : receipts'[d] \subseteq receipts[d]
  PROVE  ReceiptsAreTrue'
<1>1. seen \subseteq seen'
  BY HandsNeverLetGo
<1>2. outbox' \in Seq(seen' \cup Foreign)
  BY <1>1, WiderSeq DEF ReceiptsAreTrue
<1>3. QED
  BY <1>1, <1>2 DEF ReceiptsAreTrue

LEMMA ReceiptsOfReceived ==
  ASSUME TypeOK, [Next]_vars, ReceiptsAreTrue, NEW m \in Messages,
         ReceiveSomehow(m), UNCHANGED receipts
  PROVE  ReceiptsAreTrue'
BY ReceiveKeepsType, HandsNeverLetGo DEF ReceiptsAreTrue

LEMMA SendingKeepsTruth ==
  ASSUME TypeOK, Truth, [Next]_vars, NEW w \in Workers, Sending(w)
  PROVE  Truth'
<1> DEFINE m == work[w].message
<1>1. /\ seen \subseteq seen'
      /\ \A k \in Messages : InGoodHands(k) => InGoodHandsNext(k)
  BY HandsNeverLetGo
<1>2. work[w] # NoWork
  BY DEF Sending, Record, Abort, DeliverDirect, FailDirect, HoldViaRelays,
         FailRelays, At
<1>3. m \in Messages
  BY <1>2, WorkerFacts
<1>4. ReceiptsAreTrue'
  <2>1. UNCHANGED receipts
    BY DEF Sending, Record, Abort, DeliverDirect, FailDirect, HoldViaRelays,
           FailRelays, relays
  <2>2. UNCHANGED outbox \/ ReceiveSomehow(m)
    BY DEF Sending, Record, Abort, DeliverDirect, FailDirect, HoldViaRelays,
           FailRelays, ReceiveSomehow, recipient
  <2>3. QED
    BY <1>3, <2>1, <2>2, ReceiptsUntouched, ReceiptsOfReceived DEF Truth
<1>5. CASE Record(w)
  <2>1. /\ work[w].phase \in {"accepted", "delivered"}
        /\ row' = [row EXCEPT ![m] =
                     Upsert(row[m], IF work[w].phase = "delivered"
                                    THEN "delivered" ELSE "pending")]
    BY <1>5 DEF Record
  <2>2. /\ row'[m] = "delivered" => m \in seen
        /\ row'[m] = "pending" => InGoodHands(m)
    BY <1>2, <1>3, <2>1 DEF Upsert, TypeOK, Truth, WorkIsTrue,
       DeliveredMeansStored
  <2>3. \A k \in Messages \ {m} : row'[k] = row[k]
    BY <2>1 DEF TypeOK
  <2>4. DeliveredMeansStored' /\ PendingIsSafe'
    BY <1>1, <1>3, <2>2, <2>3
       DEF Truth, DeliveredMeansStored, PendingIsSafe, InGoodHands,
           InGoodHandsNext
  <2>5. WorkIsTrue'
    <3>1. /\ work'[w] = NoWork
          /\ \A v \in Workers \ {w} : work'[v] = work[v]
      BY <1>5, StopKeepsType DEF Record
    <3>2. ASSUME NEW v \in Workers \ {w}, work[v] # NoWork
          PROVE  work[v].message \in Messages
      BY <3>2, WorkerFacts
    <3>3. QED
      BY <1>1, <3>1, <3>2 DEF Truth, WorkIsTrue, InGoodHands,
         InGoodHandsNext
  <2>6. QED
    BY <1>4, <2>4, <2>5 DEF Truth
<1>6. CASE Abort(w) \/ FailRelays(w) \/ FailDirect(w)
  <2>1. UNCHANGED row
    BY <1>6 DEF Abort, FailRelays, FailDirect
  <2>2. \A v \in Workers : \/ work'[v] = work[v]
                           \/ work'[v] = NoWork
                           \/ work'[v].phase \in {"direct", "relay"}
    BY <1>2, <1>6, StopKeepsType, ReachKeepsType
       DEF Abort, FailRelays, FailDirect
  <2>3. QED
    BY <1>4, <2>1, <2>2, SenderUntouched DEF Truth
<1>7. CASE DeliverDirect(w) \/ \E i \in DOMAIN Relays : HoldViaRelays(w, i)
  <2>1. DeliveredMeansStored' /\ PendingIsSafe'
    <3>1. UNCHANGED row
      BY <1>7 DEF DeliverDirect, HoldViaRelays
    <3>2. QED
      BY <1>1, <3>1 DEF Truth, DeliveredMeansStored, PendingIsSafe,
         InGoodHands, InGoodHandsNext
  <2>2. /\ work'[w].message = m
        /\ \A v \in Workers \ {w} : work'[v] = work[v]
    BY <1>2, <1>7, ReachKeepsType DEF DeliverDirect, HoldViaRelays
  <2>3. \/ work'[w].phase = "delivered" /\ m \in seen'
        \/ work'[w].phase = "accepted" /\ InGoodHandsNext(m)
    <3>1. CASE DeliverDirect(w)
      <4>1. work'[w].phase = "delivered"
        BY <1>2, <3>1, ReachKeepsType DEF DeliverDirect
      <4>2. QED
        BY <3>1, <4>1 DEF DeliverDirect, Receive
    <3>2. ASSUME NEW i \in DOMAIN Relays, HoldViaRelays(w, i)
          PROVE  work'[w].phase = "accepted" /\ InGoodHandsNext(m)
      <4>1. work'[w].phase = "accepted"
        BY <1>2, <3>2, ReachKeepsType DEF HoldViaRelays
      <4>2. Relays[i] \in Daddies /\ m \in held'[Relays[i]]
        BY <3>2 DEF HoldViaRelays, HoldAt, Live
      <4>3. QED
        BY <4>1, <4>2 DEF InGoodHandsNext
    <3>3. QED
      BY <1>7, <3>1, <3>2
  <2>4. WorkIsTrue'
    <3>1. ASSUME NEW v \in Workers \ {w}, work[v] # NoWork
          PROVE  work[v].message \in Messages
      BY <3>1, WorkerFacts
    <3>2. ASSUME NEW v \in Workers, work'[v] # NoWork
          PROVE  /\ work'[v].phase = "accepted"
                      => InGoodHandsNext(work'[v].message)
                 /\ work'[v].phase = "delivered"
                      => work'[v].message \in seen'
      <4>1. CASE v = w
        BY <2>2, <2>3, <4>1
      <4>2. CASE v # w
        BY <1>1, <2>2, <3>1, <3>2, <4>2 DEF Truth, WorkIsTrue
      <4>3. QED
        BY <4>1, <4>2
    <3>3. QED
      BY <3>2 DEF WorkIsTrue, InGoodHands, InGoodHandsNext
  <2>5. QED
    BY <1>4, <2>1, <2>4 DEF Truth
<1>8. QED
  BY <1>5, <1>6, <1>7 DEF Sending

LEMMA RecipientKeepsTruth ==
  ASSUME TypeOK, Truth, [Next]_vars, NEW m \in Messages,
         \/ \E d \in Live : Collect(d, m) \/ CollectUnacked(d, m)
         \/ DeleteReceived(m)
  PROVE  Truth'
<1>1. UNCHANGED <<row, work>>
  BY DEF Collect, CollectUnacked, DeleteReceived, sender
<1>2. DeliveredMeansStored' /\ PendingIsSafe' /\ WorkIsTrue'
  BY <1>1, SenderUntouched
<1>3. CASE \E d \in Live : Collect(d, m) \/ CollectUnacked(d, m)
  <2>1. ReceiveSomehow(m) /\ UNCHANGED receipts
    BY <1>3 DEF Collect, CollectUnacked, ReceiveSomehow, relays
  <2>2. QED
    BY <1>2, <2>1, ReceiptsOfReceived DEF Truth
<1>4. CASE DeleteReceived(m)
  BY <1>2, <1>4, ReceiptsUntouched DEF DeleteReceived, relays, Truth
<1>5. QED
  BY <1>3, <1>4

\* What enters and leaves the outbox, other than by a message that comes in.
LEMMA OutboxKeepsTruth ==
  ASSUME TypeOK, Truth, [Next]_vars,
         \/ \E i \in DOMAIN outbox, reached, answered \in SUBSET Live :
              SyncOutbox(i, reached, answered)
         \/ \E o \in Foreign : ReceiveForeign(o)
  PROVE  Truth'
<1>1. UNCHANGED <<row, work, seen>>
  BY DEF SyncOutbox, ReceiveForeign, sender
<1>2. DeliveredMeansStored' /\ PendingIsSafe' /\ WorkIsTrue'
  BY <1>1, SenderUntouched
<1>3. ASSUME NEW i \in DOMAIN outbox, NEW reached \in SUBSET Live,
             NEW answered \in SUBSET Live, SyncOutbox(i, reached, answered)
      PROVE  ReceiptsAreTrue'
  <2>1. outbox \in Seq(seen \cup Foreign) /\ i \in 1 .. Len(outbox)
    BY <1>3 DEF SyncOutbox, Truth, ReceiptsAreTrue
  <2>2. outbox[i] \in seen \cup Foreign /\ outbox' \in Seq(seen \cup Foreign)
    BY <1>3, <2>1, RemoveAtKeepsType DEF SyncOutbox
  <2>3. outbox[i] \in Messages => outbox[i] \in seen
    BY <2>2, MailFlowAssumption
  <2>4. \A d \in Daddies : receipts'[d] \subseteq seen
    BY <1>3, <2>3 DEF SyncOutbox, Truth, ReceiptsAreTrue
  <2>5. QED
    BY <1>1, <2>2, <2>4 DEF ReceiptsAreTrue
<1>4. ASSUME NEW o \in Foreign, ReceiveForeign(o)
      PROVE  ReceiptsAreTrue'
  <2>1. outbox' \in Seq(seen \cup Foreign)
    BY <1>4, AppendProperties DEF ReceiveForeign, Truth, ReceiptsAreTrue
  <2>2. QED
    BY <1>1, <1>4, <2>1 DEF ReceiveForeign, Truth, ReceiptsAreTrue, relays
<1>5. QED
  BY <1>2, <1>3, <1>4 DEF Truth

LEMMA ReceiptKeepsTruth ==
  ASSUME TypeOK, Truth, [Next]_vars, NEW d \in Live, NEW m \in Messages,
         CollectReceipt(d, m) \/ CollectReceiptUnacked(d, m)
  PROVE  Truth'
<1>1. d \in Daddies
  BY DEF Live
<1>2. m \in seen
  BY <1>1 DEF CollectReceipt, CollectReceiptUnacked, Truth, ReceiptsAreTrue
<1>3. UNCHANGED <<work, recipient, held>>
  BY DEF CollectReceipt, CollectReceiptUnacked, relays
<1>4. row' = [row EXCEPT ![m] = "delivered"]
  BY DEF CollectReceipt, CollectReceiptUnacked, MarkDelivered
<1>5. DeliveredMeansStored' /\ PendingIsSafe' /\ WorkIsTrue'
  BY <1>2, <1>3, <1>4 DEF TypeOK, Truth, DeliveredMeansStored,
     PendingIsSafe, WorkIsTrue, InGoodHands, recipient
<1>6. \A e \in Daddies : receipts'[e] \subseteq receipts[e]
  BY DEF TypeOK, CollectReceipt, CollectReceiptUnacked, relays
<1>7. ReceiptsAreTrue'
  BY <1>3, <1>6, ReceiptsUntouched DEF Truth, recipient
<1>8. QED
  BY <1>5, <1>7 DEF Truth

LEMMA MailStep == TypeOK /\ Truth /\ [Next]_vars => Truth'
<1> SUFFICES ASSUME TypeOK, Truth, [Next]_vars PROVE Truth'
  OBVIOUS
<1>1. ASSUME NEW c \in Clients, NEW m \in Messages, Compose(c, m)
      PROVE  Truth'
  <2>1. \A w \in Workers : \/ work'[w] = work[w]
                           \/ work'[w].phase = "direct"
    BY <1>1 DEF Compose, Start, TypeOK, Workers
  <2>2. \A k \in Messages : row'[k] \in {row[k], "queued"}
    BY <1>1 DEF Compose, TypeOK
  <2>3. QED
    BY <1>1, <2>1, <2>2, SenderUntouched, ReceiptsUntouched
       DEF Compose, Truth, recipient, relays
<1>2. CASE ListQueued
  BY <1>2, SenderUntouched, ReceiptsUntouched
     DEF ListQueued, Truth, recipient, relays
<1>3. ASSUME NEW m \in Messages, RetryQueued(m)
      PROVE  Truth'
  <2>1. \A w \in Workers : \/ work'[w] = work[w]
                           \/ work'[w].phase = "direct"
    BY <1>3 DEF RetryQueued, Start, TypeOK, Workers
  <2>2. QED
    BY <1>3, <2>1, SenderUntouched, ReceiptsUntouched
       DEF RetryQueued, Truth, recipient, relays
<1>4. ASSUME NEW w \in Workers, Sending(w)
      PROVE  Truth'
  BY <1>4, SendingKeepsTruth
<1>5. ASSUME NEW m \in Messages, DeleteSent(m)
      PROVE  Truth'
  <2>1. \A k \in Messages : row'[k] \in {row[k], "none"}
    BY <1>5 DEF DeleteSent, TypeOK
  <2>2. QED
    BY <1>5, <2>1, SenderUntouched, ReceiptsUntouched
       DEF DeleteSent, Truth, recipient, relays
<1>6. ASSUME NEW m \in Messages, DeleteReceived(m)
      PROVE  Truth'
  BY <1>6, RecipientKeepsTruth
<1>7. ASSUME NEW d \in Live, NEW m \in Messages,
             \/ Collect(d, m)
             \/ CollectUnacked(d, m)
             \/ CollectReceipt(d, m)
             \/ CollectReceiptUnacked(d, m)
      PROVE  Truth'
  BY <1>7, RecipientKeepsTruth, ReceiptKeepsTruth
<1>8. CASE \/ \E i \in DOMAIN outbox, reached, answered \in SUBSET Live :
                SyncOutbox(i, reached, answered)
           \/ \E o \in Foreign : ReceiveForeign(o)
  BY <1>8, OutboxKeepsTruth
<1>9. CASE UNCHANGED vars
  BY <1>9 DEF vars, sender, created, recipient, relays, Truth, DeliveredMeansStored,
     PendingIsSafe, ReceiptsAreTrue, WorkIsTrue, InGoodHands
<1>10. QED
  BY <1>1, <1>2, <1>3, <1>4, <1>5, <1>6, <1>7, <1>8, <1>9 DEF Next

LEMMA AlwaysTrue == Spec => [](TypeOK /\ Truth)
<1>1. TypeOK /\ Truth /\ [Next]_vars => (TypeOK /\ Truth)'
  BY TypeStep, MailStep
<1>2. QED
  BY TypeStart, MailStart, <1>1, PTL DEF Spec

\* "pending" and "delivered" at the sender are always true: the message is
\* stored at the recipient or held by a Daddy, whatever fails in between.
THEOREM StatusIsTrue == Spec => []MailInv
<1>1. TypeOK /\ Truth => MailInv
  BY DEF Truth, MailInv
<1>2. QED
  BY AlwaysTrue, <1>1, PTL

-----------------------------------------------------------------------------
\* The only steps that write a status over "delivered" are the deletion and
\* those that write "delivered" again.
LEMMA FinalStep ==
  ASSUME TypeOK, [Next]_vars, NEW m \in Messages, row[m] = "delivered",
         m \in composed
  PROVE  row'[m] \in {"delivered", "none"}
<1>1. CASE row' = row
  BY <1>1
<1>2. ASSUME NEW c \in Clients, NEW k \in Messages, Compose(c, k)
      PROVE  row'[m] = row[m]
  BY <1>2 DEF Compose, TypeOK
<1>3. ASSUME NEW w \in Workers, Record(w)
      PROVE  row'[m] = "delivered"
  BY <1>3 DEF Record, Upsert, TypeOK
<1>4. ASSUME NEW k \in Messages, DeleteSent(k)
      PROVE  row'[m] \in {"delivered", "none"}
  BY <1>4 DEF DeleteSent, TypeOK
<1>5. ASSUME NEW d \in Live, NEW k \in Messages,
             \/ CollectReceipt(d, k)
             \/ CollectReceiptUnacked(d, k)
      PROVE  row'[m] = "delivered"
  BY <1>5 DEF CollectReceipt, CollectReceiptUnacked, MarkDelivered, TypeOK
<1>6. ASSUME \/ ListQueued
             \/ \E k \in Messages : RetryQueued(k) \/ DeleteReceived(k)
             \/ \E w \in Workers : Sending(w) /\ ~Record(w)
             \/ \E d \in Live, k \in Messages :
                  Collect(d, k) \/ CollectUnacked(d, k)
             \/ \E i \in DOMAIN outbox, reached, answered \in SUBSET Live :
                  SyncOutbox(i, reached, answered)
             \/ \E o \in Foreign : ReceiveForeign(o)
             \/ UNCHANGED vars
      PROVE  row' = row
  BY <1>6 DEF ListQueued, RetryQueued, DeleteReceived, Sending, Abort,
     DeliverDirect, FailDirect, HoldViaRelays, FailRelays, Collect,
     CollectUnacked, SyncOutbox, ReceiveForeign, vars, sender
<1>7. QED
  BY <1>1, <1>2, <1>3, <1>4, <1>5, <1>6 DEF Next

\* A row exists only of a message that was composed: Compose never starts over
\* a message that is under way or deleted.
OnlyComposed ==
  /\ \A m \in Messages : row[m] # "none" => m \in composed
  /\ \A w \in Workers : work[w] # NoWork => work[w].message \in composed
  /\ retry \subseteq composed

LEMMA OnlyComposedStart == Init => OnlyComposed
BY DEF Init, OnlyComposed

LEMMA OnlyComposedStep ==
  TypeOK /\ OnlyComposed /\ [Next]_vars => OnlyComposed'
<1> SUFFICES ASSUME TypeOK, OnlyComposed, [Next]_vars PROVE OnlyComposed'
  OBVIOUS
<1>1. ASSUME NEW c \in Clients, NEW m \in Messages, Compose(c, m)
      PROVE  OnlyComposed'
  <2>1. \A w \in Workers : work'[w] = work[w] \/ work'[w].message = m
    BY <1>1 DEF Compose, Start, TypeOK, Workers
  <2>2. QED
    BY <1>1, <2>1 DEF Compose, OnlyComposed, TypeOK, created
<1>2. CASE ListQueued
  BY <1>2 DEF ListQueued, Queued, OnlyComposed, created
<1>3. ASSUME NEW m \in Messages, RetryQueued(m)
      PROVE  OnlyComposed'
  <2>1. \A w \in Workers : work'[w] = work[w] \/ work'[w].message = m
    BY <1>3 DEF RetryQueued, Start, TypeOK, Workers
  <2>2. QED
    BY <1>3, <2>1 DEF RetryQueued, OnlyComposed, created
<1>4. ASSUME NEW w \in Workers, Sending(w)
      PROVE  OnlyComposed'
  <2>1. work[w] # NoWork /\ UNCHANGED composed
    BY <1>4 DEF Sending, Record, Abort, DeliverDirect, FailDirect,
                HoldViaRelays, FailRelays, At, created
  <2>2. work[w].message \in composed /\ work[w].message \in Messages
    BY <2>1, WorkerFacts DEF OnlyComposed
  <2>3. \A k \in Messages \ {work[w].message} : row'[k] = row[k]
    BY <1>4 DEF Sending, Record, Abort, DeliverDirect, FailDirect,
                HoldViaRelays, FailRelays, TypeOK
  <2>4. retry' \subseteq retry
    BY <1>4 DEF Sending, Record, Abort, DeliverDirect, FailDirect,
                HoldViaRelays, FailRelays
  <2>5. \A v \in Workers :
          work'[v] # NoWork => work[v] # NoWork
                               /\ work'[v].message = work[v].message
    <3>1. \/ Stop(w)
          \/ \E phase \in {"direct", "relay", "accepted", "delivered"} :
               Reach(w, phase)
      BY <1>4 DEF Sending, Record, Abort, DeliverDirect, FailDirect,
                  HoldViaRelays, FailRelays
    <3>2. CASE Stop(w)
      BY <3>2, StopKeepsType
    <3>3. ASSUME NEW phase \in {"direct", "relay", "accepted", "delivered"},
                 Reach(w, phase)
          PROVE  \A v \in Workers :
                   work'[v] # NoWork => work[v] # NoWork
                                        /\ work'[v].message = work[v].message
      BY <2>1, <3>3, ReachKeepsType
    <3>4. QED
      BY <3>1, <3>2, <3>3
  <2>6. QED
    BY <2>1, <2>2, <2>3, <2>4, <2>5 DEF OnlyComposed
<1>5. ASSUME NEW m \in Messages, DeleteSent(m)
      PROVE  OnlyComposed'
  BY <1>5 DEF DeleteSent, OnlyComposed, TypeOK
<1>6. ASSUME NEW d \in Live, NEW m \in Messages,
             \/ CollectReceipt(d, m)
             \/ CollectReceiptUnacked(d, m)
      PROVE  OnlyComposed'
  BY <1>6 DEF CollectReceipt, CollectReceiptUnacked, MarkDelivered,
              OnlyComposed, TypeOK, created
<1>7. ASSUME \/ \E m \in Messages : DeleteReceived(m)
             \/ \E d \in Live, m \in Messages :
                  Collect(d, m) \/ CollectUnacked(d, m)
             \/ \E i \in DOMAIN outbox, reached, answered \in SUBSET Live :
                  SyncOutbox(i, reached, answered)
             \/ \E o \in Foreign : ReceiveForeign(o)
             \/ UNCHANGED vars
      PROVE  OnlyComposed'
  BY <1>7 DEF DeleteReceived, Collect, CollectUnacked, SyncOutbox, ReceiveForeign, vars,
              sender, created, OnlyComposed
<1>8. QED
  BY <1>1, <1>2, <1>3, <1>4, <1>5, <1>6, <1>7 DEF Next

\* "delivered" is never taken back: not by a process that records its result
\* late, nor by a retry of a list that is out of date.
THEOREM DeliveredStays == Spec => DeliveredIsFinal
<1>1. TypeOK /\ OnlyComposed /\ [Next]_vars => (TypeOK /\ OnlyComposed)'
  BY TypeStep, OnlyComposedStep
<1>2. TypeOK /\ OnlyComposed /\ [Next]_vars =>
        [\A m \in Messages :
           row[m] = "delivered" => row'[m] \in {"delivered", "none"}]_vars
  BY FinalStep DEF OnlyComposed
<1>3. QED
  BY TypeStart, OnlyComposedStart, <1>1, <1>2, PTL DEF Spec, DeliveredIsFinal

-----------------------------------------------------------------------------
(***************************************************************************)
(* Deletion                                                                *)
(***************************************************************************)

\* A step of a process changes only the row of the message it is sending, and
\* does not turn to another message.
LEMMA SendingElsewhere ==
  ASSUME TypeOK, NEW w \in Workers, Sending(w), NEW m \in Messages, ~Sent(m)
  PROVE  row'[m] = row[m] /\ ~Sent(m)' /\ UNCHANGED composed /\ retry' \subseteq retry
<1>1. work[w] # NoWork /\ UNCHANGED composed /\ retry' \subseteq retry
  BY DEF Sending, Record, Abort, DeliverDirect, FailDirect, HoldViaRelays,
         FailRelays, At, created
<1>2. work[w].message # m
  BY <1>1 DEF Sent
<1>3. row'[m] = row[m]
  BY <1>1, <1>2, WorkerFacts
     DEF Sending, Record, Abort, DeliverDirect, FailDirect, HoldViaRelays,
         FailRelays, TypeOK
<1>4. \/ Stop(w)
      \/ \E phase \in {"direct", "relay", "accepted", "delivered"} :
           Reach(w, phase)
  BY DEF Sending, Record, Abort, DeliverDirect, FailDirect, HoldViaRelays,
         FailRelays
<1>5. CASE Stop(w)
  BY <1>1, <1>3, <1>5, StopKeepsType DEF Sent
<1>6. ASSUME NEW phase \in {"direct", "relay", "accepted", "delivered"},
             Reach(w, phase)
      PROVE  ~Sent(m)'
  <2>1. /\ work'[w].message = work[w].message
        /\ \A v \in Workers \ {w} : work'[v] = work[v]
    BY <1>1, <1>6, ReachKeepsType
  <2>2. QED
    BY <1>2, <2>1 DEF Sent
<1>7. QED
  BY <1>1, <1>3, <1>4, <1>5, <1>6

LEMMA GoneStep ==
  ASSUME TypeOK, [Next]_vars, NEW m \in Messages, Gone(m)
  PROVE  Gone(m)'
<1>1. ASSUME NEW c \in Clients, NEW k \in Messages, Compose(c, k)
      PROVE  Gone(m)'
  <2>1. k # m
    BY <1>1 DEF Compose, Gone
  <2>2. \A w \in Workers : work'[w] = work[w] \/ work'[w].message = k
    BY <1>1 DEF Compose, Start, TypeOK, Workers
  <2>3. ~Sent(m)'
    BY <2>1, <2>2 DEF Gone, Sent
  <2>4. QED
    BY <1>1, <2>1, <2>3 DEF Compose, Gone, TypeOK
<1>2. CASE ListQueued
  BY <1>2 DEF ListQueued, Queued, Gone, Sent, created
<1>3. ASSUME NEW k \in Messages, RetryQueued(k)
      PROVE  Gone(m)'
  <2>1. k # m
    BY <1>3 DEF RetryQueued, Gone
  <2>2. \A w \in Workers : work'[w] = work[w] \/ work'[w].message = k
    BY <1>3 DEF RetryQueued, Start, TypeOK, Workers
  <2>3. ~Sent(m)'
    BY <2>1, <2>2 DEF Gone, Sent
  <2>4. QED
    BY <1>3, <2>3 DEF RetryQueued, Gone, created
<1>4. ASSUME NEW w \in Workers, Sending(w)
      PROVE  Gone(m)'
  BY <1>4, SendingElsewhere DEF Gone
<1>5. ASSUME NEW k \in Messages, DeleteSent(k)
      PROVE  Gone(m)'
  BY <1>5 DEF DeleteSent, Gone, Sent, TypeOK
<1>6. ASSUME NEW d \in Live, NEW k \in Messages,
             CollectReceipt(d, k) \/ CollectReceiptUnacked(d, k)
      PROVE  Gone(m)'
  <2>1. k # m
    BY <1>6 DEF CollectReceipt, CollectReceiptUnacked, Gone
  <2>2. QED
    BY <1>6, <2>1 DEF CollectReceipt, CollectReceiptUnacked, MarkDelivered,
                      Gone, Sent, TypeOK, created
<1>7. ASSUME \/ \E k \in Messages : DeleteReceived(k)
             \/ \E d \in Live, k \in Messages :
                  Collect(d, k) \/ CollectUnacked(d, k)
             \/ \E i \in DOMAIN outbox, reached, answered \in SUBSET Live :
                  SyncOutbox(i, reached, answered)
             \/ \E o \in Foreign : ReceiveForeign(o)
             \/ UNCHANGED vars
      PROVE  Gone(m)'
  BY <1>7 DEF DeleteReceived, Collect, CollectUnacked, SyncOutbox, ReceiveForeign, vars,
              sender, created, Gone, Sent
<1>8. QED
  BY <1>1, <1>2, <1>3, <1>4, <1>5, <1>6, <1>7 DEF Next

\* A deleted message that nobody is sending never comes back: no receipt, list
\* or later message makes a row for it.
THEOREM DeletedStaysGone == Spec => GoneForGood
<1>1. TypeOK /\ [Next]_vars => [\A m \in Messages : Gone(m) => Gone(m)']_vars
  BY GoneStep
<1>2. QED
  BY TypeStart, TypeStep, <1>1, PTL DEF Spec, GoneForGood

-----------------------------------------------------------------------------
(***************************************************************************)
(* Nothing is stranded.  What is under way for a message changes its form: *)
(* an envelope becomes a receipt in the outbox, that one a receipt at      *)
(* every Daddy, and that one a row that says "delivered".                  *)
(***************************************************************************)

\* Other entries stay when one is removed.
LEMMA OthersStay ==
  ASSUME NEW S, NEW s \in Seq(S), NEW i \in 1 .. Len(s), NEW m \in ToSet(s), m # s[i]
  PROVE  m \in ToSet(RemoveAt(s, i))
<1> DEFINE front == SubSeq(s, 1, i - 1)
           back == SubSeq(s, i + 1, Len(s))
<1>1. PICK j \in 1 .. Len(s) : s[j] = m
  BY DEF ToSet
<1>2. /\ front \in Seq(S) /\ Len(front) = i - 1
      /\ \A k \in 1 .. i - 1 : front[k] = s[k]
  <2>1. \A k \in 1 .. i - 1 : s[k] \in S
    OBVIOUS
  <2>2. QED
    BY <2>1, SubSeqProperties
<1>3. /\ back \in Seq(S) /\ Len(back) = Len(s) - i
      /\ \A k \in 1 .. Len(s) - i : back[k] = s[i + k]
  <2>1. \A k \in i + 1 .. Len(s) : s[k] \in S
    OBVIOUS
  <2>2. i + 1 \in Int /\ Len(s) \in Int
    OBVIOUS
  <2>3. /\ back \in Seq(S)
        /\ Len(back) = IF i + 1 <= Len(s) THEN Len(s) - (i + 1) + 1 ELSE 0
        /\ \A k \in 1 .. Len(s) - (i + 1) + 1 : back[k] = s[(i + 1) + k - 1]
    BY <2>1, <2>2, SubSeqProperties
  <2>4. QED
    BY <2>3
<1>4. RemoveAt(s, i) = front \o back
  BY DEF RemoveAt
<1> HIDE DEF front, back
<1>5. /\ DOMAIN (front \o back) = 1 .. Len(s) - 1
      /\ \A k \in 1 .. Len(s) - 1 :
           (front \o back)[k] = IF k <= i - 1 THEN front[k] ELSE back[k - (i - 1)]
  BY <1>2, <1>3, ConcatProperties
<1>6. CASE j < i
  <2>1. j \in 1 .. Len(s) - 1 /\ (front \o back)[j] = m
    BY <1>1, <1>2, <1>5, <1>6
  <2>2. QED
    BY <1>4, <1>5, <2>1 DEF ToSet
<1>7. CASE j > i
  <2>1. /\ j - 1 \in 1 .. Len(s) - 1 /\ ~(j - 1 <= i - 1)
        /\ (j - 1) - (i - 1) \in 1 .. Len(s) - i
        /\ i + ((j - 1) - (i - 1)) = j
    BY <1>1, <1>7
  <2>2. back[(j - 1) - (i - 1)] = s[i + ((j - 1) - (i - 1))]
    BY <1>3, <2>1
  <2>3. (front \o back)[j - 1] = m
    BY <1>1, <1>5, <2>1, <2>2
  <2>4. QED
    BY <1>4, <1>5, <2>1, <2>3 DEF ToSet
<1>8. QED
  BY <1>1, <1>6, <1>7

\* A new receipt is the last entry of the outbox, and the others stay.
LEMMA Appended ==
  ASSUME TypeOK, NEW m \in Messages \cup Foreign, outbox' = Append(outbox, m)
  PROVE  ToSet(outbox') = ToSet(outbox) \cup {m}
<1>1. /\ outbox \in Seq(Messages \cup Foreign)
      /\ DOMAIN outbox = 1 .. Len(outbox) /\ Len(outbox) \in Nat
  BY DEF TypeOK
<1>2. /\ DOMAIN outbox' = 1 .. Len(outbox) + 1
      /\ \A i \in 1 .. Len(outbox) : outbox'[i] = outbox[i]
      /\ outbox'[Len(outbox) + 1] = m
  BY <1>1, AppendProperties
<1>3. ASSUME NEW i \in DOMAIN outbox' PROVE outbox'[i] \in ToSet(outbox) \cup {m}
  <2>1. i \in DOMAIN outbox \/ i = Len(outbox) + 1
    BY <1>1, <1>2
  <2>2. QED
    BY <1>1, <1>2, <2>1 DEF ToSet
<1>4. ASSUME NEW i \in DOMAIN outbox PROVE outbox[i] \in ToSet(outbox')
  <2>1. i \in DOMAIN outbox' /\ outbox'[i] = outbox[i]
    BY <1>1, <1>2
  <2>2. QED
    BY <2>1 DEF ToSet
<1>5. m \in ToSet(outbox')
  <2>1. Len(outbox) + 1 \in DOMAIN outbox'
    BY <1>1, <1>2
  <2>2. QED
    BY <1>2, <2>1 DEF ToSet
<1>6. QED
  BY <1>3, <1>4, <1>5 DEF ToSet

LEMMA ReceivedAndKept ==
  ASSUME TypeOK, NEW m \in Messages
  PROVE  /\ Receive(m) => ToSet(outbox') = ToSet(outbox) \cup {m}
         /\ ReceiveSomehow(m) => ToSet(outbox) \subseteq ToSet(outbox')
<1>1. Receive(m) => ToSet(outbox') = ToSet(outbox) \cup {m}
  BY Appended DEF Receive
<1>2. QED
  BY <1>1 DEF ReceiveSomehow, ReceiveInPart

\* A step that takes nothing away leaves what is under way.
LEMMA NothingTaken ==
  ASSUME UNCHANGED dead, ToSet(outbox) \subseteq ToSet(outbox'),
         \A d \in Daddies : held[d] \subseteq held'[d] /\ receipts[d] \subseteq receipts'[d],
         NEW m, OnItsWay(m)
  PROVE  OnItsWay(m)'
BY DEF OnItsWay, Live

LEMMA UnderWayStep ==
  ASSUME TypeOK, [Next]_vars, NEW m \in Messages, OnItsWay(m)
  PROVE  OnItsWay(m)' \/ row'[m] = "delivered"
<1>1. ASSUME NEW w \in Workers, Sending(w)
      PROVE  OnItsWay(m)'
  <2>1. work[w] # NoWork
    BY <1>1 DEF Sending, Record, Abort, DeliverDirect, FailDirect, HoldViaRelays,
                FailRelays, At
  <2>2. work[w].message \in Messages
    BY <2>1, WorkerFacts
  <2>3. UNCHANGED <<dead, receipts>>
    BY <1>1 DEF Sending, Record, Abort, DeliverDirect, FailDirect, HoldViaRelays,
                FailRelays, relays
  <2>4. UNCHANGED outbox \/ ReceiveSomehow(work[w].message)
    BY <1>1 DEF Sending, Record, Abort, DeliverDirect, FailDirect, HoldViaRelays,
                FailRelays, recipient, ReceiveSomehow
  <2>5. UNCHANGED held \/ \E T : HoldAt(T, work[w].message)
    BY <1>1 DEF Sending, Record, Abort, DeliverDirect, FailDirect, HoldViaRelays,
                FailRelays, relays
  <2>6. \A d \in Daddies : held[d] \subseteq held'[d]
    BY <2>5 DEF HoldAt
  <2>7. ToSet(outbox) \subseteq ToSet(outbox')
    BY <2>2, <2>4, ReceivedAndKept
  <2>8. QED
    BY <2>3, <2>6, <2>7, NothingTaken
<1>2. ASSUME NEW d \in Live, NEW k \in Messages, Collect(d, k)
      PROVE  OnItsWay(m)'
  <2>1. /\ ToSet(outbox') = ToSet(outbox) \cup {k}
        /\ UNCHANGED <<dead, receipts>>
        /\ held' = [held EXCEPT ![d] = @ \ {k}]
    BY <1>2, ReceivedAndKept DEF Collect
  <2>2. CASE k = m
    BY <2>1, <2>2 DEF OnItsWay, Live
  <2>3. CASE k # m
    <3>1. \A e \in Daddies : m \in held[e] => m \in held'[e]
      BY <2>1, <2>3 DEF TypeOK
    <3>2. QED
      BY <2>1, <3>1 DEF OnItsWay, Live
  <2>4. QED
    BY <2>2, <2>3
<1>3. ASSUME NEW d \in Live, NEW k \in Messages, CollectUnacked(d, k)
      PROVE  OnItsWay(m)'
  <2>1. ReceiveSomehow(k) /\ UNCHANGED <<dead, held, receipts>>
    BY <1>3 DEF CollectUnacked, ReceiveSomehow, relays
  <2>2. QED
    BY <2>1, ReceivedAndKept, NothingTaken
<1>4. ASSUME NEW d \in Live, NEW k \in Messages, CollectReceipt(d, k)
      PROVE  OnItsWay(m)' \/ row'[m] = "delivered"
  <2>1. /\ UNCHANGED <<outbox, held, dead>>
        /\ row' = [row EXCEPT ![k] = "delivered"]
        /\ receipts' = [receipts EXCEPT ![d] = @ \ {k}]
    BY <1>4 DEF CollectReceipt, MarkDelivered, recipient
  <2>2. CASE k = m
    BY <2>1, <2>2 DEF TypeOK
  <2>3. CASE k # m
    <3>1. \A e \in Daddies : m \in receipts[e] => m \in receipts'[e]
      BY <2>1, <2>3 DEF TypeOK
    <3>2. QED
      BY <2>1, <3>1 DEF OnItsWay, Live
  <2>4. QED
    BY <2>2, <2>3
<1>5. ASSUME NEW i \in DOMAIN outbox, NEW reached \in SUBSET Live,
             NEW answered \in SUBSET Live, SyncOutbox(i, reached, answered)
      PROVE  OnItsWay(m)'
  <2>1. /\ i \in 1 .. Len(outbox) /\ outbox \in Seq(Messages \cup Foreign)
        /\ answered \subseteq reached /\ UNCHANGED <<held, dead>>
        /\ \A d \in Daddies : receipts[d] \subseteq receipts'[d]
        /\ outbox[i] \in Messages => \A d \in reached : outbox[i] \in receipts'[d]
    BY <1>5 DEF SyncOutbox, TypeOK, Live
  <2>2. CASE outbox' = outbox
    BY <2>1, <2>2, NothingTaken
  <2>3. CASE outbox' = RemoveAt(outbox, i) /\ answered = Daddies
    <3>1. CASE m = outbox[i] /\ Live # {}
      <4>1. PICK d \in Live : TRUE
        BY <3>1
      <4>2. m \in receipts'[d]
        BY <2>1, <2>3, <3>1, <4>1 DEF Live
      <4>3. QED
        BY <2>1, <4>1, <4>2 DEF OnItsWay, Live
    <3>2. CASE m \in ToSet(outbox) /\ m # outbox[i]
      <4>1. m \in ToSet(outbox')
        BY <2>1, <2>3, <3>2, OthersStay
      <4>2. QED
        BY <2>1, <4>1 DEF OnItsWay, Live
    <3>3. CASE \E d \in Live : m \in held[d] \cup receipts[d]
      BY <2>1, <3>3 DEF OnItsWay, Live
    <3>4. QED
      BY <3>1, <3>2, <3>3 DEF OnItsWay
  <2>4. QED
    BY <1>5, <2>2, <2>3 DEF SyncOutbox
<1>6. ASSUME \/ \E c \in Clients, k \in Messages : Compose(c, k)
             \/ ListQueued
             \/ \E k \in Messages : \/ RetryQueued(k)
                                   \/ DeleteSent(k)
                                   \/ DeleteReceived(k)
             \/ \E d \in Live, k \in Messages : CollectReceiptUnacked(d, k)
             \/ UNCHANGED vars
      PROVE  OnItsWay(m)'
  <2>1. UNCHANGED <<outbox, held, receipts, dead>>
    BY <1>6 DEF Compose, ListQueued, RetryQueued, DeleteSent, DeleteReceived,
       CollectReceiptUnacked, vars, sender, recipient, relays
  <2>2. QED
    BY <2>1 DEF OnItsWay, Live
<1>7. ASSUME NEW o \in Foreign, ReceiveForeign(o)
      PROVE  OnItsWay(m)'
  <2>1. ToSet(outbox') = ToSet(outbox) \cup {o}
    BY <1>7, Appended DEF ReceiveForeign
  <2>2. QED
    BY <1>7, <2>1, NothingTaken DEF ReceiveForeign, relays
<1>8. QED
  BY <1>1, <1>2, <1>3, <1>4, <1>5, <1>6, <1>7 DEF Next

\* What the process that is about to record "pending" knows: the strengthening
\* that makes NothingStranded inductive.
AcceptedIsOnItsWay ==
  \A w \in Workers :
    work[w] # NoWork /\ work[w].phase = "accepted" =>
      LET m == work[w].message
      IN  m \in deleted \/ row[m] = "delivered" \/ OnItsWay(m)

OnItsWayNext(m) ==
  \/ \E d \in Daddies \ dead' : m \in held'[d] \cup receipts'[d]
  \/ Daddies \ dead' # {} /\ m \in ToSet(outbox')

LEMMA OnItsWayAfter ==
  ASSUME TypeOK, [Next]_vars, NEW m \in Messages, OnItsWay(m)
  PROVE  OnItsWayNext(m) \/ row'[m] = "delivered"
BY UnderWayStep DEF OnItsWay, OnItsWayNext, Live

\* Only an answer of a living Daddy makes a process about to record "pending".
LEMMA AcceptedStep ==
  ASSUME TypeOK, [Next]_vars, NEW w \in Workers,
         work'[w] # NoWork, work'[w].phase = "accepted"
  PROVE  \/ work'[w] = work[w]
         \/ work[w] # NoWork /\ work'[w].message = work[w].message
            /\ OnItsWayNext(work'[w].message)
<1>1. ASSUME NEW c \in Clients, NEW m \in Messages, Compose(c, m)
      PROVE  work'[w] = work[w]
  BY <1>1 DEF Compose, Start, TypeOK, Workers
<1>2. ASSUME NEW m \in Messages, RetryQueued(m)
      PROVE  work'[w] = work[w]
  BY <1>2 DEF RetryQueued, Start, TypeOK, Workers
<1>3. ASSUME NEW v \in Workers, Sending(v)
      PROVE  \/ work'[w] = work[w]
             \/ work[w] # NoWork /\ work'[w].message = work[w].message
                /\ OnItsWayNext(work'[w].message)
  <2>1. work[v] # NoWork
    BY <1>3 DEF Sending, Record, Abort, DeliverDirect, FailDirect, HoldViaRelays,
                FailRelays, At
  <2>2. CASE Stop(v)
    BY <2>2, StopKeepsType
  <2>3. ASSUME NEW phase \in {"relay", "delivered"}, Reach(v, phase)
        PROVE  work'[w] = work[w]
    BY <2>1, <2>3, ReachKeepsType
  <2>4. ASSUME NEW i \in DOMAIN Relays, HoldViaRelays(v, i)
        PROVE  \/ work'[w] = work[w]
               \/ work[w] # NoWork /\ work'[w].message = work[w].message
                  /\ OnItsWayNext(work'[w].message)
    <3>1. /\ work'[v].message = work[v].message
          /\ \A u \in Workers \ {v} : work'[u] = work[u]
      BY <2>1, <2>4, ReachKeepsType DEF HoldViaRelays
    <3>2. Relays[i] \in Live /\ work[v].message \in held'[Relays[i]] /\ dead' = dead
      BY <2>4 DEF HoldViaRelays, HoldAt, Live
    <3>3. OnItsWayNext(work[v].message)
      BY <3>2 DEF OnItsWayNext, Live
    <3>4. QED
      BY <2>1, <3>1, <3>3
  <2>5. QED
    BY <1>3, <2>2, <2>3, <2>4
       DEF Sending, Record, Abort, DeliverDirect, FailDirect, FailRelays
<1>4. ASSUME \/ ListQueued
             \/ \E m \in Messages : DeleteSent(m) \/ DeleteReceived(m)
             \/ \E d \in Live, m \in Messages :
                  \/ Collect(d, m)
                  \/ CollectUnacked(d, m)
                  \/ CollectReceipt(d, m)
                  \/ CollectReceiptUnacked(d, m)
             \/ \E i \in DOMAIN outbox, reached, answered \in SUBSET Live :
                  SyncOutbox(i, reached, answered)
             \/ \E o \in Foreign : ReceiveForeign(o)
             \/ UNCHANGED vars
      PROVE  work'[w] = work[w]
  BY <1>4 DEF ListQueued, DeleteSent, DeleteReceived, Collect, CollectUnacked,
     CollectReceipt, CollectReceiptUnacked, SyncOutbox, ReceiveForeign, vars, sender
<1>5. QED
  BY <1>1, <1>2, <1>3, <1>4 DEF Next

\* What a step does to the row of a message that is not deleted.
LEMMA RowStep ==
  ASSUME TypeOK, OnlyComposed, [Next]_vars, NEW m \in Messages, m \notin deleted'
  PROVE  /\ m \notin deleted
         /\ \/ row'[m] = row[m] /\ (m \in composed' => m \in composed)
            \/ row'[m] = "queued" /\ m \notin composed
            \/ row'[m] = "delivered"
            \/ row'[m] = "pending" /\ row[m] # "delivered" /\ m \in composed
               /\ \E w \in Workers : /\ work[w] # NoWork /\ work[w].message = m
                                     /\ work[w].phase = "accepted"
<1>1. ASSUME NEW c \in Clients, NEW k \in Messages, Compose(c, k)
      PROVE  /\ m \notin deleted
             /\ \/ row'[m] = row[m] /\ (m \in composed' => m \in composed)
                \/ row'[m] = "queued" /\ m \notin composed
  BY <1>1 DEF Compose, TypeOK
<1>2. ASSUME NEW w \in Workers, Record(w)
      PROVE  /\ m \notin deleted
             /\ \/ row'[m] = row[m] /\ (m \in composed' => m \in composed)
                \/ row'[m] = "delivered"
                \/ row'[m] = "pending" /\ row[m] # "delivered" /\ m \in composed
                   /\ work[w] # NoWork /\ work[w].message = m
                   /\ work[w].phase = "accepted"
  <2>1. /\ work[w] # NoWork /\ work[w].phase \in {"accepted", "delivered"}
        /\ UNCHANGED <<composed, deleted>>
        /\ row' = [row EXCEPT ![work[w].message] =
                     Upsert(row[work[w].message],
                            IF work[w].phase = "delivered" THEN "delivered"
                                                           ELSE "pending")]
    BY <1>2 DEF Record, created
  <2>2. CASE m # work[w].message
    BY <2>1, <2>2 DEF TypeOK
  <2>3. CASE m = work[w].message
    BY <2>1, <2>3 DEF TypeOK, Upsert, OnlyComposed
  <2>4. QED
    BY <2>2, <2>3
<1>3. ASSUME NEW k \in Messages, DeleteSent(k)
      PROVE  m \notin deleted /\ row'[m] = row[m] /\ composed' = composed
  BY <1>3 DEF DeleteSent, TypeOK
<1>4. ASSUME NEW d \in Live, NEW k \in Messages,
             CollectReceipt(d, k) \/ CollectReceiptUnacked(d, k)
      PROVE  /\ m \notin deleted /\ composed' = composed
             /\ row'[m] = row[m] \/ row'[m] = "delivered"
  BY <1>4 DEF CollectReceipt, CollectReceiptUnacked, MarkDelivered, TypeOK, created
<1>5. ASSUME \/ ListQueued
             \/ \E k \in Messages : RetryQueued(k) \/ DeleteReceived(k)
             \/ \E w \in Workers : Sending(w) /\ ~Record(w)
             \/ \E d \in Live, k \in Messages :
                  Collect(d, k) \/ CollectUnacked(d, k)
             \/ \E i \in DOMAIN outbox, reached, answered \in SUBSET Live :
                  SyncOutbox(i, reached, answered)
             \/ \E o \in Foreign : ReceiveForeign(o)
             \/ UNCHANGED vars
      PROVE  UNCHANGED <<row, composed, deleted>>
  BY <1>5 DEF ListQueued, RetryQueued, DeleteReceived, Sending, Abort,
     DeliverDirect, FailDirect, HoldViaRelays, FailRelays, Collect,
     CollectUnacked, SyncOutbox, ReceiveForeign, vars, sender, created
<1>6. QED
  BY <1>1, <1>2, <1>3, <1>4, <1>5 DEF Next

LEMMA StrandedStart == Init => NothingStranded /\ AcceptedIsOnItsWay
BY DEF Init, NothingStranded, AcceptedIsOnItsWay

LEMMA StrandedStep ==
  ASSUME TypeOK, OnlyComposed, NothingStranded, AcceptedIsOnItsWay, [Next]_vars
  PROVE  NothingStranded' /\ AcceptedIsOnItsWay'
<1>1. ASSUME NEW m \in Messages, OnItsWay(m)
      PROVE  OnItsWayNext(m) \/ row'[m] = "delivered"
  BY <1>1, OnItsWayAfter
<1>2. TypeOK'
  BY TypeStep
<1>3. NothingStranded'
  <2> SUFFICES ASSUME NEW m \in composed', m \notin deleted'
               PROVE  \/ row'[m] \in {"queued", "delivered"}
                      \/ row'[m] = "pending" /\ OnItsWayNext(m)
    BY DEF NothingStranded, OnItsWay, OnItsWayNext, Live
  <2>1. m \in Messages
    BY <1>2 DEF TypeOK
  <2>2. CASE row'[m] = row[m] /\ m \in composed
    <3>1. \/ row[m] \in {"queued", "delivered"}
          \/ row[m] = "pending" /\ OnItsWay(m)
      BY <2>1, <2>2, RowStep DEF NothingStranded
    <3>2. QED
      BY <1>1, <2>1, <2>2, <3>1
  <2>3. ASSUME NEW w \in Workers, work[w] # NoWork, work[w].message = m,
               work[w].phase = "accepted", row[m] # "delivered",
               row'[m] = "pending"
        PROVE  OnItsWayNext(m)
    <3>1. OnItsWay(m)
      BY <2>1, <2>3, RowStep DEF AcceptedIsOnItsWay
    <3>2. QED
      BY <1>1, <2>1, <2>3, <3>1
  <2>4. QED
    BY <2>1, <2>2, <2>3, RowStep
<1>4. AcceptedIsOnItsWay'
  <2> SUFFICES ASSUME NEW w \in Workers, work'[w] # NoWork,
                      work'[w].phase = "accepted"
               PROVE  LET m == work'[w].message
                      IN  m \in deleted' \/ row'[m] = "delivered" \/ OnItsWayNext(m)
    BY DEF AcceptedIsOnItsWay, OnItsWay, OnItsWayNext, Live
  <2> DEFINE m == work'[w].message
  <2>1. CASE OnItsWayNext(m)
    BY <2>1
  <2>2. CASE work'[w] = work[w]
    <3>1. m \in Messages /\ m \in composed
      BY <2>2, WorkerFacts DEF OnlyComposed
    <3>2. CASE m \in deleted'
      BY <3>2
    <3>3. CASE m \notin deleted'
      <4>1. row[m] = "delivered" \/ OnItsWay(m)
        BY <2>2, <3>1, <3>3, RowStep DEF AcceptedIsOnItsWay
      <4>2. row[m] = "delivered" => row'[m] = "delivered"
        BY <3>1, <3>3, RowStep
      <4>3. QED
        BY <1>1, <3>1, <4>1, <4>2
    <3>4. QED
      BY <3>2, <3>3
  <2>3. QED
    BY <2>1, <2>2, AcceptedStep
<1>5. QED
  BY <1>3, <1>4

LEMMA AlwaysComposed == Spec => [](TypeOK /\ OnlyComposed)
<1>1. TypeOK /\ OnlyComposed /\ [Next]_vars => (TypeOK /\ OnlyComposed)'
  BY TypeStep, OnlyComposedStep
<1>2. QED
  BY TypeStart, OnlyComposedStart, <1>1, PTL DEF Spec

\* A message that its sender keeps is always queued, delivered, or on its way to
\* be: an envelope at a living Daddy, a receipt in the recipient's outbox or one at
\* a living Daddy (FetchHeldMessages, SyncOpaqueMailboxOutbox, holdViaRelays), with
\* any number of Daddies, dead ones, processes and messages.
THEOREM NothingIsStranded == Spec => []NothingStranded
<1>1. TypeOK /\ OnlyComposed /\ NothingStranded /\ AcceptedIsOnItsWay /\ [Next]_vars
        => NothingStranded' /\ AcceptedIsOnItsWay'
  BY StrandedStep
<1>2. QED
  BY AlwaysComposed, StrandedStart, <1>1, PTL DEF Spec

-----------------------------------------------------------------------------
(***************************************************************************)
(* MailFlow implements MailPromise.                                        *)
(***************************************************************************)

\* Only composed messages travel.
Travels == seen \subseteq composed /\ \A d \in Daddies : held[d] \subseteq composed

LEMMA TravelsStep ==
  ASSUME TypeOK, OnlyComposed, Travels, [Next]_vars
  PROVE  Travels'
<1>1. ASSUME NEW w \in Workers, Sending(w)
      PROVE  Travels'
  <2>1. work[w] # NoWork /\ UNCHANGED composed
    BY <1>1 DEF Sending, Record, Abort, DeliverDirect, FailDirect, HoldViaRelays,
                FailRelays, At, created
  <2>2. work[w].message \in composed
    BY <2>1 DEF OnlyComposed
  <2>3. UNCHANGED seen \/ seen' = seen \cup {work[w].message}
    BY <1>1 DEF Sending, Record, Abort, DeliverDirect, FailDirect, HoldViaRelays,
                FailRelays, recipient, Receive, ReceiveInPart
  <2>4. UNCHANGED held \/ \E T : HoldAt(T, work[w].message)
    BY <1>1 DEF Sending, Record, Abort, DeliverDirect, FailDirect, HoldViaRelays,
                FailRelays, relays
  <2>5. \A d \in Daddies : held'[d] \subseteq held[d] \cup {work[w].message}
    BY <2>4 DEF HoldAt
  <2>6. QED
    BY <2>1, <2>2, <2>3, <2>5 DEF Travels
<1>2. ASSUME NEW d \in Live, NEW m \in Messages, Collect(d, m) \/ CollectUnacked(d, m)
      PROVE  Travels'
  <2>1. /\ m \in held[d] /\ d \in Daddies /\ seen' = seen \cup {m}
        /\ UNCHANGED composed
        /\ held' = held \/ held' = [held EXCEPT ![d] = @ \ {m}]
    BY <1>2 DEF Collect, CollectUnacked, Receive, ReceiveInPart, sender, created,
                relays, Live
  <2>2. \A e \in Daddies : held'[e] \subseteq held[e]
    BY <2>1 DEF TypeOK
  <2>3. QED
    BY <2>1, <2>2 DEF Travels
<1>3. ASSUME \/ \E c \in Clients, m \in Messages : Compose(c, m)
             \/ ListQueued
             \/ \E m \in Messages : \/ RetryQueued(m)
                                   \/ DeleteSent(m)
                                   \/ DeleteReceived(m)
             \/ \E d \in Live, m \in Messages :
                  CollectReceipt(d, m) \/ CollectReceiptUnacked(d, m)
             \/ \E i \in DOMAIN outbox, reached, answered \in SUBSET Live :
                  SyncOutbox(i, reached, answered)
             \/ \E o \in Foreign : ReceiveForeign(o)
             \/ UNCHANGED vars
      PROVE  UNCHANGED <<seen, held>> /\ composed \subseteq composed'
  BY <1>3 DEF Compose, ListQueued, RetryQueued, DeleteSent, DeleteReceived,
     CollectReceipt, CollectReceiptUnacked, SyncOutbox, ReceiveForeign, vars, sender,
     created, recipient, relays
<1>4. QED
  BY <1>1, <1>2, <1>3 DEF Next, Travels

\* The moves of one row, with what justifies them.
LEMMA RowMoves ==
  ASSUME TypeOK, Truth, [Next]_vars, NEW m \in Messages
  PROVE  \/ row'[m] = row[m]
         \/ m \notin composed /\ row'[m] = "queued"
         \/ /\ row[m] # "none" \/ Sent(m)
            /\ row[m] # "delivered" /\ row'[m] = "pending" /\ InGoodHands(m)
         \/ /\ row[m] # "none" \/ Sent(m)
            /\ row'[m] = "delivered" /\ m \in seen
         \/ row[m] # "none" /\ row'[m] = "none"
<1>1. ASSUME NEW c \in Clients, NEW k \in Messages, Compose(c, k)
      PROVE  \/ row'[m] = row[m]
             \/ m \notin composed /\ row'[m] = "queued"
  <2>1. k \notin composed /\ row' = [row EXCEPT ![k] = "queued"]
    BY <1>1 DEF Compose
  <2>2. CASE k = m
    BY <2>1, <2>2 DEF TypeOK
  <2>3. CASE k # m
    BY <2>1, <2>3 DEF TypeOK
  <2>4. QED
    BY <2>2, <2>3
<1>2. ASSUME NEW w \in Workers, Record(w), row'[m] # row[m]
      PROVE  /\ Sent(m)
             /\ \/ row[m] # "delivered" /\ row'[m] = "pending" /\ InGoodHands(m)
                \/ row'[m] = "delivered" /\ m \in seen
  <2>1. /\ work[w] # NoWork /\ work[w].phase \in {"accepted", "delivered"}
        /\ row' = [row EXCEPT ![work[w].message] =
                     Upsert(row[work[w].message],
                            IF work[w].phase = "delivered" THEN "delivered"
                                                           ELSE "pending")]
    BY <1>2 DEF Record
  <2>2. m = work[w].message
    BY <1>2, <2>1 DEF TypeOK
  <2>3. Sent(m)
    BY <2>1, <2>2 DEF Sent
  <2>4. /\ work[w].phase = "accepted" => InGoodHands(m)
        /\ work[w].phase = "delivered" => m \in seen
    BY <2>1, <2>2 DEF Truth, WorkIsTrue
  <2>5. QED
    BY <1>2, <2>1, <2>2, <2>3, <2>4 DEF TypeOK, Upsert
<1>3. ASSUME NEW k \in Messages, DeleteSent(k)
      PROVE  \/ row'[m] = row[m]
             \/ row[m] # "none" /\ row'[m] = "none"
  <2>1. row[k] # "none" /\ row' = [row EXCEPT ![k] = "none"]
    BY <1>3 DEF DeleteSent
  <2>2. CASE k = m
    BY <2>1, <2>2 DEF TypeOK
  <2>3. CASE k # m
    BY <2>1, <2>3 DEF TypeOK
  <2>4. QED
    BY <2>2, <2>3
<1>4. ASSUME NEW d \in Live, NEW k \in Messages,
             CollectReceipt(d, k) \/ CollectReceiptUnacked(d, k)
      PROVE  \/ row'[m] = row[m]
             \/ row[m] # "none" /\ row'[m] = "delivered" /\ m \in seen
  BY <1>4 DEF CollectReceipt, CollectReceiptUnacked, MarkDelivered, TypeOK, Truth,
              ReceiptsAreTrue, Live
<1>5. ASSUME \/ ListQueued
             \/ \E k \in Messages : RetryQueued(k) \/ DeleteReceived(k)
             \/ \E w \in Workers : Sending(w) /\ ~Record(w)
             \/ \E d \in Live, k \in Messages :
                  Collect(d, k) \/ CollectUnacked(d, k)
             \/ \E i \in DOMAIN outbox, reached, answered \in SUBSET Live :
                  SyncOutbox(i, reached, answered)
             \/ \E o \in Foreign : ReceiveForeign(o)
             \/ UNCHANGED vars
      PROVE  UNCHANGED row
  BY <1>5 DEF ListQueued, RetryQueued, DeleteReceived, Sending, Abort,
     DeliverDirect, FailDirect, HoldViaRelays, FailRelays, Collect,
     CollectUnacked, SyncOutbox, ReceiveForeign, vars, sender
<1>6. QED
  BY <1>1, <1>2, <1>3, <1>4, <1>5 DEF Next

\* A message is new only by Compose, and a process turns only to a message that
\* has a row or is on the daemon's list.
LEMMA BusyStep ==
  ASSUME TypeOK, [Next]_vars, NEW m \in Messages
  PROVE  /\ m \in composed' => m \in composed \/ row'[m] = "queued"
         /\ composed \subseteq composed'
         /\ Sent(m)' \/ m \in retry' => Sent(m) \/ m \in retry \/ row'[m] # "none"
<1>1. ASSUME NEW c \in Clients, NEW k \in Messages, Compose(c, k)
      PROVE  /\ m \in composed' => m \in composed \/ row'[m] = "queued"
             /\ composed \subseteq composed'
             /\ Sent(m)' \/ m \in retry' => Sent(m) \/ m \in retry \/ row'[m] # "none"
  <2>1. \A w \in Workers : work'[w] = work[w] \/ work'[w].message = k
    BY <1>1 DEF Compose, Start, TypeOK, Workers
  <2>2. /\ composed' = composed \cup {k} /\ row'[k] = "queued" /\ retry' = retry
    BY <1>1 DEF Compose, TypeOK
  <2>3. QED
    BY <2>1, <2>2 DEF Sent
<1>2. CASE ListQueued
  BY <1>2 DEF ListQueued, Queued, Sent, created
<1>3. ASSUME NEW k \in Messages, RetryQueued(k)
      PROVE  /\ composed' = composed
             /\ Sent(m)' \/ m \in retry' => Sent(m) \/ m \in retry
  <2>1. \A w \in Workers : work'[w] = work[w] \/ work'[w].message = k
    BY <1>3 DEF RetryQueued, Start, TypeOK, Workers
  <2>2. k \in retry /\ retry' \subseteq retry /\ composed' = composed
    BY <1>3 DEF RetryQueued, created
  <2>3. QED
    BY <2>1, <2>2 DEF Sent
<1>4. ASSUME NEW w \in Workers, Sending(w)
      PROVE  /\ composed' = composed
             /\ Sent(m)' \/ m \in retry' => Sent(m) \/ m \in retry
  <2>1. composed' = composed /\ retry' \subseteq retry
    BY <1>4 DEF Sending, Record, Abort, DeliverDirect, FailDirect, HoldViaRelays,
                FailRelays, created
  <2>2. QED
    BY <1>4, <2>1, SendingElsewhere
<1>5. ASSUME \/ \E k \in Messages : DeleteSent(k) \/ DeleteReceived(k)
             \/ \E d \in Live, k \in Messages :
                  \/ Collect(d, k)
                  \/ CollectUnacked(d, k)
                  \/ CollectReceipt(d, k)
                  \/ CollectReceiptUnacked(d, k)
             \/ \E i \in DOMAIN outbox, reached, answered \in SUBSET Live :
                  SyncOutbox(i, reached, answered)
             \/ \E o \in Foreign : ReceiveForeign(o)
             \/ UNCHANGED vars
      PROVE  UNCHANGED <<composed, work, retry>>
  BY <1>5 DEF DeleteSent, DeleteReceived, Collect, CollectUnacked, CollectReceipt,
     CollectReceiptUnacked, SyncOutbox, ReceiveForeign, vars, sender, created
<1>6. CASE UNCHANGED <<composed, work, retry>>
  BY <1>6 DEF Sent
<1>7. QED
  BY <1>1, <1>2, <1>3, <1>4, <1>5, <1>6 DEF Next

LEMMA PromiseStart == Init => Promise!Init
<1> SUFFICES ASSUME Init PROVE Promise!Init
  OBVIOUS
<1>1. \A m \in Messages : ~Sent(m) /\ m \notin retry /\ ~InGoodHands(m)
  BY DEF Init, Sent, InGoodHands
<1>2. QED
  BY <1>1 DEF Init, Promise!Init

LEMMA PromiseStep ==
  ASSUME TypeOK, Truth, OnlyComposed, Travels, [Next]_vars
  PROVE  Promise!Next
<1>1. TypeOK' /\ OnlyComposed' /\ Travels'
  BY TypeStep, OnlyComposedStep, TravelsStep
<1>2. DOMAIN row' = Messages
  BY <1>1 DEF TypeOK
<1>3. ASSUME NEW m \in Messages
      PROVE  \/ row'[m] = row[m]
             \/ Promise!Composed(m)
             \/ Promise!Entrusted(m)
             \/ Promise!Delivered(m)
             \/ Promise!Forgotten(m)
  BY RowMoves DEF Promise!Composed, Promise!Entrusted, Promise!Delivered,
     Promise!Forgotten, Promise!HasRow
<1>4. composed' = composed \cup {m \in Messages : Promise!Composed(m)}
  <2>1. composed' \subseteq Messages
    BY <1>1 DEF TypeOK
  <2>2. \A m \in Messages : Promise!Composed(m) <=> m \notin composed /\ row'[m] = "queued"
    BY DEF Promise!Composed
  <2>3. ASSUME NEW m \in Messages PROVE m \in composed' => m \in composed \/ Promise!Composed(m)
    BY <2>2, BusyStep
  <2>4. ASSUME NEW m \in Messages, Promise!Composed(m) PROVE m \in composed'
    BY <1>1, <2>2, <2>4 DEF OnlyComposed
  <2>5. composed \subseteq composed'
    <3>1. CASE composed = {}
      BY <3>1
    <3>2. CASE composed # {}
      BY <3>2, BusyStep DEF TypeOK
    <3>3. QED
      BY <3>1, <3>2
  <2>6. QED
    BY <2>1, <2>3, <2>4, <2>5
<1> DEFINE busy == {m \in Messages : Sent(m) \/ m \in retry}
           safe == {m \in Messages : InGoodHands(m)}
<1>5. busy' \subseteq busy \cup {m \in Messages : row'[m] # "none"}
  BY BusyStep
<1>6. busy' \subseteq composed'
  BY <1>1 DEF OnlyComposed, Sent
<1>7. safe \subseteq safe' /\ seen \subseteq seen'
  BY HandsNeverLetGo DEF InGoodHands, InGoodHandsNext
<1>8. seen' \subseteq safe' /\ safe' \subseteq composed'
  BY <1>1 DEF TypeOK, Travels, InGoodHands
<1>9. QED
  BY <1>2, <1>3, <1>4, <1>5, <1>6, <1>7, <1>8 DEF Promise!Next

\* MailFlow implements MailPromise, with any number of processes, messages and
\* Daddies: every step of the sender, its Daddies and the recipient is a step of
\* what the sender was promised, or changes nothing of it.
THEOREM MailKeepsPromise == Spec => MailPromiseKept
<1>1. Init => Travels
  BY DEF Init, Travels
<1>2. TypeOK /\ OnlyComposed /\ Travels /\ [Next]_vars => Travels'
  BY TravelsStep
<1>3. TypeOK /\ Truth /\ OnlyComposed /\ Travels /\ [Next]_vars => Promise!Next
  BY PromiseStep
<1>4. Promise!Next => [Promise!Next]_Promise!vars
  OBVIOUS
<1>5. QED
  BY <1>1, <1>2, <1>3, <1>4, PromiseStart, AlwaysTrue, AlwaysComposed, PTL
     DEF Spec, MailPromiseKept, Promise!Spec
==============================================================================
