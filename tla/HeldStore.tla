------------------------------ MODULE HeldStore ------------------------------
(***************************************************************************)
(* The tables a Daddy keeps opaque envelopes in                            *)
(* (internal/database/mailbox_privacy.go): opaque_held_messages holds the  *)
(* envelopes, opaque_envelope_dedup remembers the ID and the content of    *)
(* every envelope accepted, until it expires, so that an envelope already  *)
(* delivered is not held again when its sender repeats the request.        *)
(*                                                                         *)
(* Handlers run concurrently (Callers).  StoreOpaqueHeldMessageForUser     *)
(* checks the request and reads the clock, then waits for the only         *)
(* database connection, then runs one transaction with the time it read:   *)
(* BeginHold, then CommitHold with a reading that may be stale.            *)
(***************************************************************************)
EXTENDS Integers, FiniteSets

CONSTANTS
  Envelopes,                \* envelope IDs
  Mailboxes,                \* mailbox IDs
  Payloads,                 \* encrypted payloads
  Users,                    \* authenticated submitters
  NoUser,                   \* empty submitter of rows written by old versions
  Callers,                  \* concurrent handlers
  Idle,                     \* a caller with no request
  Submissions,              \* the requests a submitter may make
  LegacyRows,               \* rows an old version may have left
  Size,                     \* length of each payload
  MaxOpaqueEnvelopeSize,
  MaxEnvelopeRetention,
  HeldMessagesPerUser,    HeldBytesPerUser,
  HeldMessagesPerMailbox, HeldBytesPerMailbox,
  HeldMessagesGlobal,     HeldBytesGlobal,
  ReplayRecordsPerUser,   ReplayRecordsGlobal,
  LegacyRelayMessages,    LegacyRelayBytes,
  MaxTime,                  \* bound on the clock
  MaxCrashes                \* bound on the number of crashes

VARIABLES
  now,          \* time.Now().Unix()
  held,         \* opaque_held_messages
  dedup,        \* opaque_envelope_dedup
  call,         \* the StoreOpaqueHeldMessageForUser call of each handler
  open,         \* the database is open (the daemon runs)
  backfilledAt, \* when opaque_replay_backfill_v1 was recorded, or -1
  crashes

vars == <<now, held, dedup, call, open, backfilledAt, crashes>>

Submission == [id : Envelopes, mailbox : Mailboxes, payload : Payloads,
               user : Users]

\* A row of either table: the replay record has a row's columns (hashed).  The
\* column stored_at, which only orders ListOpaqueHeldMessages, is left out.
Row == [id : Envelopes, mailbox : Mailboxes, payload : Payloads,
        submitter : Users \cup {NoUser}, expires : Nat]

Call == [request : Submission, expires : Nat, since : Nat,
         status : {"checked", "held", "already_stored", "error"}]

ASSUME HeldStoreAssumption ==
  /\ NoUser \notin Users
  /\ Idle \notin Call
  /\ Idle \notin [mailbox : Mailboxes, payload : Payloads, expires : Nat,
                  phase : {"held", "spent"}]
  /\ Submissions \subseteq Submission
  /\ LegacyRows \subseteq Row
  /\ IsFiniteSet(LegacyRows)
  /\ \A row \in LegacyRows : row.submitter = NoUser
  /\ MaxOpaqueEnvelopeSize \in Nat
  /\ Size \in [Payloads -> 1 .. MaxOpaqueEnvelopeSize]
  /\ MaxEnvelopeRetention \in Nat
  /\ HeldMessagesPerUser \in Nat     /\ HeldBytesPerUser \in Nat
  /\ HeldMessagesPerMailbox \in Nat  /\ HeldBytesPerMailbox \in Nat
  /\ HeldMessagesGlobal \in Nat      /\ HeldBytesGlobal \in Nat
  /\ ReplayRecordsPerUser \in Nat    /\ ReplayRecordsGlobal \in Nat
  /\ LegacyRelayMessages \in Nat     /\ LegacyRelayBytes \in Nat
  /\ MaxTime \in Nat                 /\ MaxCrashes \in Nat

-----------------------------------------------------------------------------
(***************************************************************************)
(* Reading the tables                                                      *)
(***************************************************************************)

\* Mutant: rows expire a second early.
UnexpiredEarly(rows, t) == {r \in rows : r.expires > t + 1}

Unexpired(rows, t) == {r \in rows : r.expires > t}
Submitted(rows, u) == {r \in rows : r.submitter = u}
Admitted(rows) == {r \in rows : r.submitter # NoUser}  \* by this version
Addressed(rows, m) == {r \in rows : r.mailbox = m}

\* One element per byte stored: SUM(length(payload)) is their number.
Octets(rows) ==
  {o \in rows \X (1 .. MaxOpaqueEnvelopeSize) : o[2] <= Size[o[1].payload]}
Bytes(rows) == Cardinality(Octets(rows))

\* Mutant: the row that reaches the limit is one too many.
FitsOffByOne(rows, payload, messages, bytes) ==
  /\ Cardinality(rows) <= messages
  /\ Bytes(rows) + Size[payload] <= bytes

Fits(rows, payload, messages, bytes) ==
  /\ Cardinality(rows) < messages
  /\ Bytes(rows) + Size[payload] <= bytes

\* The quotas, in the order the transaction tests them.
Admissible(rows, records, q) ==
  /\ Fits(Submitted(rows, q.user), q.payload,
          HeldMessagesPerUser, HeldBytesPerUser)
  /\ Fits(Addressed(rows, q.mailbox), q.payload,
          HeldMessagesPerMailbox, HeldBytesPerMailbox)
  /\ Fits(rows, q.payload, HeldMessagesGlobal - LegacyRelayMessages,
          HeldBytesGlobal - LegacyRelayBytes)
  /\ Cardinality(Submitted(records, q.user)) < ReplayRecordsPerUser
  /\ Cardinality(records) < ReplayRecordsGlobal

\* Mutant: the mailbox is charged for the row.
RowSwapped(q, expires) ==
  [id |-> q.id, mailbox |-> q.mailbox, payload |-> q.payload,
   submitter |-> q.mailbox, expires |-> expires]

RowOf(q, expires) ==
  [id |-> q.id, mailbox |-> q.mailbox, payload |-> q.payload,
   submitter |-> q.user, expires |-> expires]

\* Mutant: the replay record does not cover the payload.
SameMailbox(r, q) == r.mailbox = q.mailbox

SameContent(r, q) == r.mailbox = q.mailbox /\ r.payload = q.payload

-----------------------------------------------------------------------------
(***************************************************************************)
(* The operations                                                          *)
(***************************************************************************)

Init ==
  /\ now = 0
  /\ held \in {rows \in SUBSET LegacyRows :
                 \A r1, r2 \in rows : r1.id = r2.id => r1 = r2}
  /\ dedup = {}
  /\ call = [c \in Callers |-> Idle]
  /\ open = FALSE
  /\ backfilledAt = -1
  /\ crashes = 0

Tick ==
  /\ now < MaxTime
  /\ now' = now + 1
  /\ UNCHANGED <<held, dedup, call, open, backfilledAt, crashes>>

\* Mutant: the backfill is marked done and records nothing.
OpenNoBackfill ==
  /\ ~open
  /\ open' = TRUE
  /\ backfilledAt' = IF backfilledAt = -1 THEN now ELSE backfilledAt
  /\ UNCHANGED <<now, held, dedup, call, crashes>>

\* Open: the first one records the envelopes of old versions as accepted, in
\* the transaction that marks the backfill done.
Open ==
  /\ ~open
  /\ open' = TRUE
  /\ IF backfilledAt = -1
     THEN /\ dedup' = Unexpired(held, now)
          /\ backfilledAt' = now
     ELSE UNCHANGED <<dedup, backfilledAt>>
  /\ UNCHANGED <<now, held, call, crashes>>

\* The checks on the request that precede the transaction.
BeginHold(c, q, expires) ==
  /\ open
  /\ call[c] = Idle
  /\ now < expires /\ expires <= now + MaxEnvelopeRetention
  /\ call' = [call EXCEPT ![c] = [request |-> q, expires |-> expires,
                                  since |-> now, status |-> "checked"]]
  /\ UNCHANGED <<now, held, dedup, open, backfilledAt, crashes>>

\* Every outcome but "held" rolls the transaction back, the deletion of the
\* expired rows with it.
Refuse(c, status) ==
  /\ call' = [call EXCEPT ![c].status = status]
  /\ UNCHANGED <<held, dedup>>

Admit(c, rows, records, row) ==
  /\ held' = rows \cup {row}
  /\ dedup' = records \cup {row}
  /\ call' = [call EXCEPT ![c].status = "held"]

\* The transaction, with a clock reading t of any moment since the checks.
CommitHold(c) ==
  /\ call[c] # Idle
  /\ call[c].status = "checked"
  /\ \E t \in call[c].since .. now :
       LET q       == call[c].request
           rows    == Unexpired(held, t)
           records == Unexpired(dedup, t)
           known   == {r \in records : r.id = q.id}
           same    == {r \in known : SameContent(r, q)}
           taken   == \E r \in rows : r.id = q.id  \* the primary key
       IN \/ known # {} /\ same # {} /\ Refuse(c, "already_stored")
          \/ known # {} /\ same = {} /\ Refuse(c, "error")
          \/ /\ known = {}
             /\ taken \/ ~Admissible(rows, records, q)
             /\ Refuse(c, "error")
          \/ /\ known = {}
             /\ ~taken
             /\ Admissible(rows, records, q)
             /\ Admit(c, rows, records, RowOf(q, call[c].expires))
  /\ UNCHANGED <<now, open, backfilledAt, crashes>>

\* The database fails (it is locked by the CLI's process, say): rolled back.
FailHold(c) ==
  /\ call[c] # Idle
  /\ call[c].status = "checked"
  /\ Refuse(c, "error")
  /\ UNCHANGED <<now, open, backfilledAt, crashes>>

\* The caller takes the result.
Return(c) ==
  /\ call[c] # Idle
  /\ call[c].status # "checked"
  /\ call' = [call EXCEPT ![c] = Idle]
  /\ UNCHANGED <<now, held, dedup, open, backfilledAt, crashes>>

\* Mutant: the replay record goes with the envelope.
DeleteForgets(id, mailbox) ==
  LET rows == {r \in held : r.id = id /\ r.mailbox = mailbox} IN
  /\ open
  /\ rows # {}
  /\ held' = held \ rows
  /\ dedup' = {r \in dedup : r.id # id}
  /\ UNCHANGED <<now, call, open, backfilledAt, crashes>>

\* DeleteOpaqueHeldMessage: an error, and no change, unless one row matches.
Delete(id, mailbox) ==
  LET rows == {r \in held : r.id = id /\ r.mailbox = mailbox} IN
  /\ open
  /\ rows # {}
  /\ held' = held \ rows
  /\ UNCHANGED <<now, dedup, call, open, backfilledAt, crashes>>

\* Mutant: replay records are kept for ever.
ExpireHeldOnly ==
  /\ open
  /\ held' = Unexpired(held, now)
  /\ UNCHANGED <<now, dedup, call, open, backfilledAt, crashes>>

\* ExpireOpaqueHeldMessages, one transaction over both tables.
Expire ==
  /\ open
  /\ held' = Unexpired(held, now)
  /\ dedup' = Unexpired(dedup, now)
  /\ UNCHANGED <<now, call, open, backfilledAt, crashes>>

\* The process dies; what was committed stays.
Crash ==
  /\ open
  /\ crashes < MaxCrashes
  /\ crashes' = crashes + 1
  /\ open' = FALSE
  /\ call' = [c \in Callers |-> Idle]
  /\ UNCHANGED <<now, held, dedup, backfilledAt>>

Next ==
  \/ Tick
  \/ Open
  \/ \E c \in Callers, q \in Submissions :
       \E expires \in now .. now + MaxEnvelopeRetention + 1 :
         BeginHold(c, q, expires)
  \/ \E c \in Callers : CommitHold(c) \/ FailHold(c) \/ Return(c)
  \/ \E id \in Envelopes, mailbox \in Mailboxes : Delete(id, mailbox)
  \/ Expire
  \/ Crash

Spec == Init /\ [][Next]_vars

(***************************************************************************)
(* The daemon is restarted, and StartCleanupRoutine ticks for as long as   *)
(* it runs.  Nobody has to submit, acknowledge or crash.                   *)
(***************************************************************************)
Fairness ==
  /\ WF_vars(Open)
  /\ WF_vars(Expire)

FairSpec == Spec /\ Fairness

-----------------------------------------------------------------------------
(***************************************************************************)
(* Properties                                                              *)
(***************************************************************************)

\* The types of the tables and of the calls in progress.
TypeOK ==
  /\ now \in Nat
  /\ held \subseteq Row /\ IsFiniteSet(held)
  /\ dedup \subseteq Row /\ IsFiniteSet(dedup)
  /\ call \in [Callers -> Call \cup {Idle}]
  /\ open \in BOOLEAN
  /\ backfilledAt \in Nat \cup {-1}
  /\ crashes \in Nat

\* No envelope ID is held twice, nor remembered twice.
OneRowPerEnvelope ==
  /\ \A r1, r2 \in held : r1.id = r2.id => r1 = r2
  /\ \A r1, r2 \in dedup : r1.id = r2.id => r1 = r2

\* A row of an old version waits for the backfill; once that is done, an
\* envelope that is held has a replay record of the same content, submitter and
\* expiry, so that the two always expire together.  The exception is a row of an
\* old version that had expired before the backfill.
HeldIsGuarded ==
  IF backfilledAt = -1
  THEN dedup = {} /\ Admitted(held) = {}
  ELSE \A r \in held : r \in dedup \/ r.expires <= backfilledAt

\* A call in progress was checked after the backfill, and never in the future.
CallsAreCurrent ==
  \A c \in Callers :
    call[c] # Idle => backfilledAt # -1 /\ call[c].since \in backfilledAt .. now

\* The replay guard is sound: an envelope held is known by exactly one record of
\* its own content, across crashes, the upgrade of an old database and calls
\* that run with stale clock readings.  Inductive (HeldStoreProofs).
StoreInv ==
  /\ OneRowPerEnvelope
  /\ HeldIsGuarded
  /\ CallsAreCurrent
  /\ open => backfilledAt # -1
  /\ backfilledAt <= now

\* The envelopes accepted through the quotas stay within every one of them,
\* whatever the interleaving of handlers with stale clock readings, expiry and
\* deliveries; rows and tables of old versions only make the room smaller.
Within(rows, messages, bytes) ==
  Cardinality(rows) <= messages /\ Bytes(rows) <= bytes
QuotasRespected ==
  /\ \A u \in Users :
       /\ Within(Submitted(held, u), HeldMessagesPerUser, HeldBytesPerUser)
       /\ Cardinality(Submitted(dedup, u)) <= ReplayRecordsPerUser
  /\ \A m \in Mailboxes :
       Within(Addressed(Admitted(held), m),
              HeldMessagesPerMailbox, HeldBytesPerMailbox)
  /\ Admitted(held) # {} =>
       Within(Admitted(held), HeldMessagesGlobal - LegacyRelayMessages,
              HeldBytesGlobal - LegacyRelayBytes)
  /\ Cardinality(Admitted(dedup)) <= ReplayRecordsGlobal

\* A handler that tells the sender "held" or "already_stored" tells the truth:
\* there is a replay record of exactly this content, which lasts for as long as
\* the answer promises.  "held" promises the expiry requested; "already_stored"
\* the expiry of the first request, which had not come when this one was checked.
Deadline(c) ==
  IF call[c].status = "held" THEN call[c].expires ELSE call[c].since + 1
AcknowledgedIsRecorded ==
  \A c \in Callers :
    (call[c] # Idle /\ call[c].status \in {"held", "already_stored"}) =>
      \/ \E r \in dedup : /\ r.id = call[c].request.id
                          /\ r.mailbox = call[c].request.mailbox
                          /\ r.payload = call[c].request.payload
                          /\ r.expires >= Deadline(c)
      \/ now >= Deadline(c)

\* An accepted envelope leaves the table only when it is deleted on its own,
\* as delivered, or when its expiry has passed: no admission, expiry of other
\* envelopes or restart loses it.
NeverLostBeforeExpiry ==
  [][\A r \in held :
       r \notin held' => r.expires <= now \/ (held' = held \ {r}
                                              /\ dedup' = dedup)]_vars

\* HeldStore implements EnvelopePromise: the replay record says whether an ID
\* is known, the held row whether the envelope is still to be delivered.
Free == Idle
EntryOf(d, phase) ==
  [mailbox |-> d.mailbox, payload |-> d.payload, expires |-> d.expires,
   phase |-> phase]
Entry(rows, records, e) ==
  IF \E d \in records : d.id = e
  THEN EntryOf(CHOOSE d \in records : d.id = e,
               IF \E r \in rows : r.id = e THEN "held" ELSE "spent")
  ELSE Free
Promise == INSTANCE EnvelopePromise
             WITH ledger <- [e \in Envelopes |-> Entry(held, dedup, e)]
PromiseKept == Promise!Spec

\* An envelope whose expiry has passed is eventually removed, together with
\* its replay record, whether or not the daemon crashes.
ExpiredIsForgotten ==
  \A e \in Envelopes :
    (\E r \in held \cup dedup : r.id = e /\ r.expires <= now)
      ~> ~ \E r \in held \cup dedup : r.id = e /\ r.expires <= now
==============================================================================
