--------------------------- MODULE HeldStoreProofs ---------------------------
(***************************************************************************)
(* Proofs about HeldStore, for every set of envelopes, mailboxes, users    *)
(* and handlers, every quota and every bound on the clock.                 *)
(***************************************************************************)
EXTENDS HeldStore, FiniteSetTheorems, TLAPS

-----------------------------------------------------------------------------
(***************************************************************************)
(* What the operators used by the transactions return.                     *)
(***************************************************************************)

LEMMA UnexpiredFacts ==
  ASSUME NEW rows, NEW t
  PROVE  /\ Unexpired(rows, t) \subseteq rows
         /\ IsFiniteSet(rows) => IsFiniteSet(Unexpired(rows, t))
         /\ \A r \in rows : r \notin Unexpired(rows, t) <=> ~(r.expires > t)
<1>1. Unexpired(rows, t) \in SUBSET rows
  BY DEF Unexpired
<1>2. IsFiniteSet(rows) => IsFiniteSet(Unexpired(rows, t))
  BY <1>1, FS_Subset
<1>3. QED
  BY <1>1, <1>2 DEF Unexpired

LEMMA RowOfIsRow ==
  ASSUME NEW q \in Submission, NEW expires \in Nat
  PROVE  /\ RowOf(q, expires) \in Row
         /\ RowOf(q, expires).id = q.id
         /\ RowOf(q, expires).mailbox = q.mailbox
         /\ RowOf(q, expires).payload = q.payload
         /\ RowOf(q, expires).submitter = q.user
         /\ RowOf(q, expires).expires = expires
         /\ RowOf(q, expires).submitter # NoUser
BY HeldStoreAssumption DEF RowOf, Row, Submission

(***************************************************************************)
(* The two ways a transaction ends: without a change, or with a new row    *)
(* added to both tables after the expired ones are removed.                *)
(***************************************************************************)
Committed(c, t) ==
  /\ t \in call[c].since .. now
  /\ \A r \in Unexpired(dedup, t) : r.id # call[c].request.id
  /\ \A r \in Unexpired(held, t) : r.id # call[c].request.id
  /\ Admissible(Unexpired(held, t), Unexpired(dedup, t), call[c].request)
  /\ held' = Unexpired(held, t)
               \cup {RowOf(call[c].request, call[c].expires)}
  /\ dedup' = Unexpired(dedup, t)
                \cup {RowOf(call[c].request, call[c].expires)}
  /\ call' = [call EXCEPT ![c].status = "held"]

AlreadyKnown(c, t) ==
  /\ t \in call[c].since .. now
  /\ \E r \in Unexpired(dedup, t) :
       r.id = call[c].request.id /\ SameContent(r, call[c].request)
  /\ Refuse(c, "already_stored")

LEMMA CommitCases ==
  ASSUME NEW c \in Callers, CommitHold(c)
  PROVE  /\ call[c] # Idle
         /\ call[c].status = "checked"
         /\ UNCHANGED <<now, open, backfilledAt, crashes>>
         /\ \/ \E t \in call[c].since .. now : Committed(c, t)
            \/ \E t \in call[c].since .. now : AlreadyKnown(c, t)
            \/ Refuse(c, "error")
BY DEF CommitHold, Committed, AlreadyKnown, Admit

-----------------------------------------------------------------------------
(***************************************************************************)
(* Type correctness                                                        *)
(***************************************************************************)

LEMMA RefuseType ==
  ASSUME TypeOK, NEW c \in Callers, call[c] # Idle,
         NEW s \in {"checked", "held", "already_stored", "error"},
         Refuse(c, s), UNCHANGED <<now, open, backfilledAt, crashes>>
  PROVE  TypeOK'
BY DEF TypeOK, Refuse, Call

LEMMA TypeStart ==
  ASSUME Init
  PROVE  TypeOK
<1>1. held \in SUBSET LegacyRows
  BY DEF Init
<1>2. held \subseteq Row /\ IsFiniteSet(held)
  BY <1>1, HeldStoreAssumption, FS_Subset
<1>3. dedup \subseteq Row /\ IsFiniteSet(dedup)
  BY FS_EmptySet DEF Init
<1>4. QED
  BY <1>2, <1>3 DEF Init, TypeOK

LEMMA TypeStep ==
  ASSUME TypeOK, [Next]_vars
  PROVE  TypeOK'
<1>1. CASE Tick
  BY <1>1 DEF Tick, TypeOK
<1>2. CASE Open
  BY <1>2, UnexpiredFacts DEF Open, TypeOK
<1>3. ASSUME NEW c \in Callers, NEW q \in Submissions,
             NEW expires \in now .. now + MaxEnvelopeRetention + 1,
             BeginHold(c, q, expires)
      PROVE  TypeOK'
  <2>1. expires \in Nat
    BY HeldStoreAssumption DEF TypeOK
  <2>2. [request |-> q, expires |-> expires, since |-> now,
         status |-> "checked"] \in Call
    BY <2>1, HeldStoreAssumption DEF TypeOK, Call
  <2>3. QED
    BY <1>3, <2>2 DEF BeginHold, TypeOK
<1>4. ASSUME NEW c \in Callers, CommitHold(c) PROVE TypeOK'
  <2>1. call[c] \in Call
    BY <1>4, CommitCases DEF TypeOK
  <2>2. ASSUME NEW t \in call[c].since .. now, Committed(c, t)
        PROVE  TypeOK'
    <3> DEFINE row == RowOf(call[c].request, call[c].expires)
    <3>1. row \in Row
      BY <2>1, RowOfIsRow DEF Call
    <3>2. held' \subseteq Row /\ IsFiniteSet(held')
      BY <3>1, <2>2, UnexpiredFacts, FS_AddElement DEF TypeOK, Committed
    <3>3. dedup' \subseteq Row /\ IsFiniteSet(dedup')
      BY <3>1, <2>2, UnexpiredFacts, FS_AddElement DEF TypeOK, Committed
    <3>4. call' \in [Callers -> Call \cup {Idle}]
      BY <2>1, <2>2 DEF TypeOK, Committed, Call
    <3>5. UNCHANGED <<now, open, backfilledAt, crashes>>
      BY <1>4, CommitCases
    <3>6. QED
      BY <3>2, <3>3, <3>4, <3>5 DEF TypeOK
  <2>3. ASSUME NEW s \in {"already_stored", "error"}, Refuse(c, s)
        PROVE  TypeOK'
    BY <1>4, <2>3, CommitCases, RefuseType
  <2>4. QED
    BY <1>4, <2>2, <2>3, CommitCases DEF AlreadyKnown
<1>5. ASSUME NEW c \in Callers, FailHold(c) PROVE TypeOK'
  BY <1>5, RefuseType DEF FailHold
<1>6. ASSUME NEW c \in Callers, Return(c) PROVE TypeOK'
  BY <1>6 DEF Return, TypeOK
<1>7. ASSUME NEW id \in Envelopes, NEW mailbox \in Mailboxes,
             Delete(id, mailbox)
      PROVE  TypeOK'
  <2>1. held' \in SUBSET held
    BY <1>7 DEF Delete
  <2>2. IsFiniteSet(held')
    BY <2>1, FS_Subset DEF TypeOK
  <2>3. QED
    BY <1>7, <2>1, <2>2 DEF Delete, TypeOK
<1>8. CASE Expire
  BY <1>8, UnexpiredFacts DEF Expire, TypeOK
<1>9. CASE Crash
  <2>1. call' \in [Callers -> Call \cup {Idle}]
    BY <1>9 DEF Crash
  <2>2. crashes' \in Nat
    BY <1>9 DEF Crash, TypeOK
  <2>3. open' \in BOOLEAN
    BY <1>9 DEF Crash, TypeOK
  <2>4. UNCHANGED <<now, held, dedup, backfilledAt>>
    BY <1>9 DEF Crash
  <2>5. QED
    BY <2>1, <2>2, <2>3, <2>4 DEF TypeOK
<1>10. CASE UNCHANGED vars
  BY <1>10 DEF vars, TypeOK
<1>11. QED
  BY <1>1, <1>2, <1>3, <1>4, <1>5, <1>6, <1>7, <1>8, <1>9, <1>10 DEF Next

\* Every step keeps the tables and the calls well typed and the tables finite.
THEOREM TypeCorrect == Spec => []TypeOK
<1>1. Init => TypeOK
  BY TypeStart
<1>2. TypeOK /\ [Next]_vars => TypeOK'
  BY TypeStep
<1>3. QED
  BY <1>1, <1>2, PTL DEF Spec

-----------------------------------------------------------------------------
(***************************************************************************)
(* The replay guard                                                        *)
(***************************************************************************)

\* Removing the expired rows of both tables at the same time, and then adding
\* the same new row to both, keeps every envelope held under its own record.
LEMMA CommittedKeepsGuard ==
  ASSUME TypeOK, StoreInv, NEW c \in Callers, call[c] # Idle,
         NEW t \in call[c].since .. now, Committed(c, t),
         UNCHANGED <<now, open, backfilledAt, crashes>>
  PROVE  StoreInv'
<1> DEFINE row == RowOf(call[c].request, call[c].expires)
<1>1. /\ call[c] \in Call
      /\ row \in Row
      /\ row.id = call[c].request.id
      /\ row.submitter # NoUser
  BY RowOfIsRow DEF TypeOK, Call
<1>2. backfilledAt # -1 /\ backfilledAt <= t /\ t \in Nat /\ backfilledAt \in Nat
  BY <1>1 DEF StoreInv, CallsAreCurrent, TypeOK, Call
<1>3. OneRowPerEnvelope'
  BY <1>1, UnexpiredFacts DEF StoreInv, OneRowPerEnvelope, Committed
<1>4. ASSUME NEW r \in held'
      PROVE  r \in dedup' \/ r.expires <= backfilledAt
  <2>1. CASE r = row
    BY <2>1 DEF Committed
  <2>2. CASE r # row
    <3>1. r \in held /\ r.expires > t /\ r.expires \in Nat
      BY <2>2 DEF Committed, Unexpired, TypeOK, Row
    <3>2. r \in dedup
      BY <3>1, <1>2 DEF StoreInv, HeldIsGuarded
    <3>3. QED
      BY <3>1, <3>2 DEF Committed, Unexpired
  <2>3. QED
    BY <2>1, <2>2
<1>5. HeldIsGuarded'
  BY <1>2, <1>4 DEF HeldIsGuarded
<1>6. CallsAreCurrent'
  BY <1>1 DEF StoreInv, CallsAreCurrent, Committed, TypeOK, Call
<1>7. QED
  BY <1>3, <1>5, <1>6 DEF StoreInv

LEMMA RefuseKeepsGuard ==
  ASSUME TypeOK, StoreInv, NEW c \in Callers, call[c] # Idle,
         NEW s \in {"checked", "held", "already_stored", "error"},
         Refuse(c, s), UNCHANGED <<now, open, backfilledAt, crashes>>
  PROVE  StoreInv'
<1>1. call[c] \in Call /\ call' = [call EXCEPT ![c].status = s]
  BY DEF TypeOK, Refuse
<1>2. CallsAreCurrent'
  BY <1>1 DEF StoreInv, CallsAreCurrent, TypeOK, Call
<1>3. OneRowPerEnvelope' /\ HeldIsGuarded'
  BY DEF StoreInv, OneRowPerEnvelope, HeldIsGuarded, Refuse
<1>4. QED
  BY <1>2, <1>3 DEF StoreInv

\* StoreInv is an invariant of the specification.
THEOREM ReplayGuard == Spec => []StoreInv
<1>1. Init => StoreInv
  BY HeldStoreAssumption
     DEF Init, StoreInv, OneRowPerEnvelope, HeldIsGuarded, CallsAreCurrent,
         Admitted
<1>2. TypeOK /\ StoreInv /\ [Next]_vars => StoreInv'
  <2> SUFFICES ASSUME TypeOK, StoreInv, [Next]_vars PROVE StoreInv'
    OBVIOUS
  <2> USE DEF StoreInv
  <2>1. CASE Tick
    BY <2>1 DEF Tick, TypeOK, Call, OneRowPerEnvelope, HeldIsGuarded,
                CallsAreCurrent
  <2>2. CASE Open
    <3>1. CASE backfilledAt = -1
      <4>1. held' = held /\ dedup' = Unexpired(held, now)
            /\ backfilledAt' = now /\ call' = call /\ now' = now
        BY <2>2, <3>1 DEF Open
      <4>2. OneRowPerEnvelope'
        BY <4>1, UnexpiredFacts DEF OneRowPerEnvelope
      <4>3. \A r \in held : r \in Unexpired(held, now) \/ r.expires <= now
        BY DEF Unexpired, TypeOK, Row
      <4>4. HeldIsGuarded'
        BY <4>1, <4>3 DEF HeldIsGuarded, TypeOK
      <4>5. CallsAreCurrent'
        BY <3>1, <4>1 DEF CallsAreCurrent
      <4>6. QED
        BY <4>1, <4>2, <4>4, <4>5 DEF TypeOK
    <3>2. CASE backfilledAt # -1
      BY <2>2, <3>2 DEF Open, OneRowPerEnvelope, HeldIsGuarded, CallsAreCurrent
    <3>3. QED
      BY <3>1, <3>2
  <2>3. ASSUME NEW c \in Callers, NEW q \in Submissions,
               NEW expires \in now .. now + MaxEnvelopeRetention + 1,
               BeginHold(c, q, expires)
        PROVE  StoreInv'
    <3>1. OneRowPerEnvelope' /\ HeldIsGuarded'
      BY <2>3 DEF BeginHold, OneRowPerEnvelope, HeldIsGuarded
    <3>2. CallsAreCurrent'
      BY <2>3 DEF BeginHold, CallsAreCurrent, TypeOK
    <3>3. QED
      BY <2>3, <3>1, <3>2 DEF BeginHold
  <2>4. ASSUME NEW c \in Callers, CommitHold(c) PROVE StoreInv'
    <3>1. CASE \E t \in call[c].since .. now : Committed(c, t)
      BY <2>4, <3>1, CommitCases, CommittedKeepsGuard
    <3>2. CASE \E t \in call[c].since .. now : AlreadyKnown(c, t)
      BY <2>4, <3>2, CommitCases, RefuseKeepsGuard DEF AlreadyKnown
    <3>3. CASE Refuse(c, "error")
      BY <2>4, <3>3, CommitCases, RefuseKeepsGuard
    <3>4. QED
      BY <2>4, <3>1, <3>2, <3>3, CommitCases
  <2>5. ASSUME NEW c \in Callers, FailHold(c) PROVE StoreInv'
    BY <2>5, RefuseKeepsGuard DEF FailHold
  <2>6. ASSUME NEW c \in Callers, Return(c) PROVE StoreInv'
    BY <2>6 DEF Return, OneRowPerEnvelope, HeldIsGuarded, CallsAreCurrent, TypeOK
  <2>7. ASSUME NEW id \in Envelopes, NEW mailbox \in Mailboxes,
               Delete(id, mailbox)
        PROVE  StoreInv'
    BY <2>7 DEF Delete, OneRowPerEnvelope, HeldIsGuarded, CallsAreCurrent
  <2>8. CASE Expire
    <3>1. backfilledAt # -1
      BY <2>8 DEF Expire
    <3>2. OneRowPerEnvelope'
      BY <2>8, UnexpiredFacts DEF Expire, OneRowPerEnvelope
    <3>3. HeldIsGuarded'
      BY <2>8, <3>1 DEF Expire, HeldIsGuarded, Unexpired
    <3>4. CallsAreCurrent'
      BY <2>8 DEF Expire, CallsAreCurrent
    <3>5. QED
      BY <2>8, <3>2, <3>3, <3>4 DEF Expire
  <2>9. CASE Crash
    BY <2>9 DEF Crash, OneRowPerEnvelope, HeldIsGuarded, CallsAreCurrent
  <2>10. CASE UNCHANGED vars
    BY <2>10 DEF vars, OneRowPerEnvelope, HeldIsGuarded, CallsAreCurrent
  <2>11. QED
    BY <2>1, <2>2, <2>3, <2>4, <2>5, <2>6, <2>7, <2>8, <2>9, <2>10 DEF Next
<1>3. QED
  BY <1>1, <1>2, TypeCorrect, PTL DEF Spec

-----------------------------------------------------------------------------
(***************************************************************************)
(* The quotas                                                              *)
(***************************************************************************)

\* The bytes of one row are the length of its payload.
LEMMA OctetsOfRow ==
  ASSUME NEW row \in Row
  PROVE  /\ IsFiniteSet(Octets({row}))
         /\ Cardinality(Octets({row})) = Size[row.payload]
<1> DEFINE n == Size[row.payload]
           f == [k \in 1 .. n |-> <<row, k>>]
<1>1. n \in Nat /\ n <= MaxOpaqueEnvelopeSize /\ MaxOpaqueEnvelopeSize \in Nat
  BY HeldStoreAssumption DEF Row
<1>2. Octets({row}) = {<<row, k>> : k \in 1 .. n}
  <2>1. ASSUME NEW o \in Octets({row}) PROVE o \in {<<row, k>> : k \in 1 .. n}
    <3>1. o \in {row} \X (1 .. MaxOpaqueEnvelopeSize) /\ o[2] <= Size[o[1].payload]
      BY DEF Octets
    <3>2. o = <<row, o[2]>> /\ o[2] \in 1 .. n
      BY <3>1, <1>1
    <3>3. QED
      BY <3>2
  <2>2. ASSUME NEW k \in 1 .. n PROVE <<row, k>> \in Octets({row})
    BY <1>1 DEF Octets
  <2>3. QED
    BY <2>1, <2>2
<1>3. f \in Bijection(1 .. n, Octets({row}))
  <2>1. f \in [1 .. n -> Octets({row})]
    BY <1>2
  <2>2. \A a, b \in 1 .. n : f[a] = f[b] => a = b
    OBVIOUS
  <2>3. \A o \in Octets({row}) : \E a \in 1 .. n : f[a] = o
    BY <1>2
  <2>4. f \in Injection(1 .. n, Octets({row}))
    BY <2>1, <2>2 DEF Injection, IsInjective
  <2>5. f \in Surjection(1 .. n, Octets({row}))
    BY <2>1, <2>3 DEF Surjection
  <2>6. QED
    BY <2>4, <2>5 DEF Bijection
<1>4. ExistsBijection(1 .. n, Octets({row}))
  BY <1>3 DEF ExistsBijection
<1>5. QED
  BY <1>1, <1>4, FS_CountingElements, FS_NatBijection

LEMMA OctetsFinite ==
  ASSUME NEW rows, IsFiniteSet(rows)
  PROVE  IsFiniteSet(Octets(rows)) /\ Bytes(rows) \in Nat
<1>1. IsFiniteSet(1 .. MaxOpaqueEnvelopeSize)
  BY FS_Interval, HeldStoreAssumption
<1>2. IsFiniteSet(rows \X (1 .. MaxOpaqueEnvelopeSize))
  BY <1>1, FS_Product
<1>3. Octets(rows) \in SUBSET (rows \X (1 .. MaxOpaqueEnvelopeSize))
  BY DEF Octets
<1>4. QED
  BY <1>2, <1>3, FS_Subset, FS_CardinalityType DEF Bytes

\* Fewer rows take no more room.
LEMMA WithinSubset ==
  ASSUME NEW rows, IsFiniteSet(rows), NEW fewer \in SUBSET rows,
         NEW messages \in Int, NEW bytes \in Int, Within(rows, messages, bytes)
  PROVE  Within(fewer, messages, bytes)
<1>1. /\ IsFiniteSet(fewer)
      /\ Cardinality(fewer) <= Cardinality(rows)
      /\ Cardinality(fewer) \in Nat /\ Cardinality(rows) \in Nat
  BY FS_Subset, FS_CardinalityType
<1>2. Octets(fewer) \in SUBSET Octets(rows)
  BY DEF Octets
<1>3. Bytes(fewer) <= Bytes(rows)
  BY <1>2, OctetsFinite, FS_Subset DEF Bytes
<1>4. QED
  BY <1>1, <1>3, OctetsFinite DEF Within

\* A row that fits beside some rows fits beside any part of them.
LEMMA FitsThenWithin ==
  ASSUME NEW rows, IsFiniteSet(rows), NEW fewer \in SUBSET rows,
         NEW row \in Row, NEW messages \in Int, NEW bytes \in Int,
         Fits(rows, row.payload, messages, bytes)
  PROVE  Within(fewer \cup {row}, messages, bytes)
<1>1. /\ Cardinality(rows) \in Nat
      /\ IsFiniteSet(rows \cup {row})
      /\ Cardinality(rows \cup {row}) \in Nat
      /\ Cardinality(rows \cup {row}) <= Cardinality(rows) + 1
  <2>1. Cardinality(rows) \in Nat
    BY FS_CardinalityType
  <2>2. /\ IsFiniteSet(rows \cup {row})
        /\ \/ Cardinality(rows \cup {row}) = Cardinality(rows)
           \/ Cardinality(rows \cup {row}) = Cardinality(rows) + 1
    BY FS_AddElement
  <2>3. QED
    BY <2>1, <2>2
<1>2. Size[row.payload] \in Nat
  BY HeldStoreAssumption DEF Row
<1>3. Octets(rows \cup {row}) = Octets(rows) \cup Octets({row})
  BY DEF Octets
<1>4. /\ IsFiniteSet(Octets(rows)) /\ IsFiniteSet(Octets({row}))
      /\ Cardinality(Octets(rows) \cap Octets({row})) \in Nat
      /\ Bytes(rows) \in Nat
  BY OctetsOfRow, OctetsFinite, FS_Intersection, FS_CardinalityType
<1>5. Bytes(rows \cup {row}) <= Bytes(rows) + Size[row.payload]
  <2>1. Cardinality(Octets(rows) \cup Octets({row})) =
          Cardinality(Octets(rows)) + Cardinality(Octets({row}))
            - Cardinality(Octets(rows) \cap Octets({row}))
    BY <1>4, FS_Union
  <2>2. Cardinality(Octets({row})) = Size[row.payload]
    BY OctetsOfRow
  <2>3. Bytes(rows \cup {row}) =
          Bytes(rows) + Size[row.payload]
            - Cardinality(Octets(rows) \cap Octets({row}))
    BY <1>3, <2>1, <2>2 DEF Bytes
  <2>4. QED
    BY <1>2, <1>4, <2>3
<1>6. Within(rows \cup {row}, messages, bytes)
  BY <1>1, <1>2, <1>4, <1>5, OctetsFinite DEF Fits, Within
<1>7. QED
  BY <1>1, <1>6, WithinSubset

LEMMA NothingIsWithin ==
  ASSUME NEW messages \in Nat, NEW bytes \in Nat
  PROVE  Within({}, messages, bytes)
<1>1. Octets({}) = {}
  BY DEF Octets
<1>2. QED
  BY <1>1, FS_EmptySet DEF Within, Bytes

LEMMA SelectionsFinite ==
  ASSUME NEW rows, IsFiniteSet(rows), NEW x
  PROVE  /\ IsFiniteSet(Submitted(rows, x))
         /\ IsFiniteSet(Addressed(rows, x))
         /\ IsFiniteSet(Admitted(rows))
         /\ IsFiniteSet(Addressed(Admitted(rows), x))
<1>1. /\ Submitted(rows, x) \in SUBSET rows
      /\ Addressed(rows, x) \in SUBSET rows
      /\ Admitted(rows) \in SUBSET rows
      /\ Addressed(Admitted(rows), x) \in SUBSET rows
  BY DEF Submitted, Addressed, Admitted
<1>2. QED
  BY <1>1, FS_Subset

LEMMA CountBelow ==
  ASSUME NEW rows, IsFiniteSet(rows), NEW fewer \in SUBSET rows,
         NEW n \in Nat, Cardinality(rows) <= n
  PROVE  Cardinality(fewer) <= n
BY FS_Subset, FS_CardinalityType

\* Removing rows of either table never exceeds a quota.
LEMMA ShrinkingKeepsQuotas ==
  ASSUME TypeOK, QuotasRespected,
         held' \subseteq held, dedup' \subseteq dedup
  PROVE  QuotasRespected'
<1> USE HeldStoreAssumption
<1>1. IsFiniteSet(held) /\ IsFiniteSet(dedup)
  BY DEF TypeOK
<1>2. ASSUME NEW u \in Users
      PROVE  /\ Within(Submitted(held', u), HeldMessagesPerUser, HeldBytesPerUser)
             /\ Cardinality(Submitted(dedup', u)) <= ReplayRecordsPerUser
  <2>1. /\ Submitted(held', u) \in SUBSET Submitted(held, u)
        /\ Submitted(dedup', u) \in SUBSET Submitted(dedup, u)
    BY DEF Submitted
  <2>2. /\ Within(Submitted(held, u), HeldMessagesPerUser, HeldBytesPerUser)
        /\ Cardinality(Submitted(dedup, u)) <= ReplayRecordsPerUser
    BY DEF QuotasRespected
  <2>3. Within(Submitted(held', u), HeldMessagesPerUser, HeldBytesPerUser)
    BY <1>1, <2>1, <2>2, SelectionsFinite, WithinSubset
  <2>4. Cardinality(Submitted(dedup', u)) <= ReplayRecordsPerUser
    BY <1>1, <2>1, <2>2, SelectionsFinite, CountBelow
  <2>5. QED
    BY <2>3, <2>4
<1>3. ASSUME NEW m \in Mailboxes
      PROVE  Within(Addressed(Admitted(held'), m),
                    HeldMessagesPerMailbox, HeldBytesPerMailbox)
  <2>1. Addressed(Admitted(held'), m) \in SUBSET Addressed(Admitted(held), m)
    BY DEF Addressed, Admitted
  <2>2. QED
    BY <1>1, <2>1, SelectionsFinite, WithinSubset DEF QuotasRespected
<1>4. ASSUME Admitted(held') # {}
      PROVE  Within(Admitted(held'), HeldMessagesGlobal - LegacyRelayMessages,
                    HeldBytesGlobal - LegacyRelayBytes)
  <2>1. Admitted(held') \in SUBSET Admitted(held) /\ Admitted(held) # {}
    BY <1>4 DEF Admitted
  <2>2. QED
    BY <1>1, <2>1, SelectionsFinite, WithinSubset DEF QuotasRespected
<1>5. Cardinality(Admitted(dedup')) <= ReplayRecordsGlobal
  <2>1. Admitted(dedup') \in SUBSET Admitted(dedup)
    BY DEF Admitted
  <2>2. QED
    BY <1>1, <2>1, SelectionsFinite, CountBelow DEF QuotasRespected
<1>6. QED
  BY <1>2, <1>3, <1>4, <1>5 DEF QuotasRespected

LEMMA AdmissionKeepsQuotas ==
  ASSUME TypeOK, QuotasRespected, NEW c \in Callers, call[c] # Idle,
         NEW t \in call[c].since .. now, Committed(c, t)
  PROVE  QuotasRespected'
<1> DEFINE q == call[c].request
           row == RowOf(q, call[c].expires)
           rows == Unexpired(held, t)
           records == Unexpired(dedup, t)
<1> USE HeldStoreAssumption
<1>1. /\ call[c] \in Call /\ row \in Row
      /\ row.payload = q.payload /\ row.mailbox = q.mailbox
      /\ row.submitter = q.user /\ row.submitter # NoUser
  BY RowOfIsRow DEF TypeOK, Call
<1>2. /\ IsFiniteSet(rows) /\ rows \subseteq held
      /\ IsFiniteSet(records) /\ records \subseteq dedup
      /\ IsFiniteSet(held) /\ IsFiniteSet(dedup)
  BY UnexpiredFacts DEF TypeOK
<1>3. held' = rows \cup {row} /\ dedup' = records \cup {row}
  BY DEF Committed
<1>4. Admissible(rows, records, q)
  BY DEF Committed
<1> HIDE DEF q, row, rows, records
<1>5. ASSUME NEW u \in Users
      PROVE  /\ Within(Submitted(held', u), HeldMessagesPerUser, HeldBytesPerUser)
             /\ Cardinality(Submitted(dedup', u)) <= ReplayRecordsPerUser
  <2>1. CASE u = q.user
    <3>1. /\ Submitted(held', u) = Submitted(rows, u) \cup {row}
          /\ Submitted(dedup', u) = Submitted(records, u) \cup {row}
      BY <1>1, <1>3, <2>1 DEF Submitted
    <3>2. Fits(Submitted(rows, u), row.payload, HeldMessagesPerUser,
               HeldBytesPerUser)
      BY <1>1, <1>4, <2>1 DEF Admissible
    <3>3. Within(Submitted(held', u), HeldMessagesPerUser, HeldBytesPerUser)
      <4>1. IsFiniteSet(Submitted(rows, u))
        BY <1>2, SelectionsFinite
      <4>2. Submitted(rows, u) \in SUBSET Submitted(rows, u)
        OBVIOUS
      <4>3. Within(Submitted(rows, u) \cup {row}, HeldMessagesPerUser,
                   HeldBytesPerUser)
        BY <1>1, <3>2, <4>1, <4>2, FitsThenWithin
      <4>4. QED
        BY <3>1, <4>3
    <3>4. Cardinality(Submitted(records, u)) < ReplayRecordsPerUser
      BY <1>4, <2>1 DEF Admissible
    <3>5. Cardinality(Submitted(records, u)) \in Nat
      BY <1>2, SelectionsFinite, FS_CardinalityType
    <3>6. \/ Cardinality(Submitted(dedup', u)) = Cardinality(Submitted(records, u))
          \/ Cardinality(Submitted(dedup', u)) = Cardinality(Submitted(records, u)) + 1
      BY <1>2, <3>1, SelectionsFinite, FS_AddElement
    <3>7. QED
      BY <3>3, <3>4, <3>5, <3>6
  <2>2. CASE u # q.user
    <3>1. /\ Submitted(held', u) \in SUBSET Submitted(held, u)
          /\ Submitted(dedup', u) \in SUBSET Submitted(dedup, u)
      BY <1>1, <1>2, <1>3, <2>2 DEF Submitted
    <3>2. Within(Submitted(held', u), HeldMessagesPerUser, HeldBytesPerUser)
      BY <1>2, <3>1, SelectionsFinite, WithinSubset DEF QuotasRespected
    <3>3. Cardinality(Submitted(dedup', u)) <= ReplayRecordsPerUser
      BY <1>2, <3>1, SelectionsFinite, CountBelow DEF QuotasRespected
    <3>4. QED
      BY <3>2, <3>3
  <2>3. QED
    BY <2>1, <2>2
<1>6. ASSUME NEW m \in Mailboxes
      PROVE  Within(Addressed(Admitted(held'), m),
                    HeldMessagesPerMailbox, HeldBytesPerMailbox)
  <2>1. CASE m = q.mailbox
    <3>1. Addressed(Admitted(held'), m) = Addressed(Admitted(rows), m) \cup {row}
      BY <1>1, <1>3, <2>1 DEF Addressed, Admitted
    <3>2. Addressed(Admitted(rows), m) \in SUBSET Addressed(rows, m)
      BY DEF Addressed, Admitted
    <3>3. Fits(Addressed(rows, m), row.payload, HeldMessagesPerMailbox,
               HeldBytesPerMailbox)
      BY <1>1, <1>4, <2>1 DEF Admissible
    <3>4. IsFiniteSet(Addressed(rows, m))
      BY <1>2, SelectionsFinite
    <3>5. Within(Addressed(Admitted(rows), m) \cup {row}, HeldMessagesPerMailbox,
                 HeldBytesPerMailbox)
      BY <1>1, <3>2, <3>3, <3>4, FitsThenWithin
    <3>6. QED
      BY <3>1, <3>5
  <2>2. CASE m # q.mailbox
    <3>1. Addressed(Admitted(held'), m) \in SUBSET Addressed(Admitted(held), m)
      BY <1>1, <1>2, <1>3, <2>2 DEF Addressed, Admitted
    <3>2. QED
      BY <1>2, <3>1, SelectionsFinite, WithinSubset DEF QuotasRespected
  <2>3. QED
    BY <2>1, <2>2
<1>7. Within(Admitted(held'), HeldMessagesGlobal - LegacyRelayMessages,
             HeldBytesGlobal - LegacyRelayBytes)
  <2>1. Admitted(held') = Admitted(rows) \cup {row}
    BY <1>1, <1>3 DEF Admitted
  <2>2. Admitted(rows) \in SUBSET rows
    BY DEF Admitted
  <2>3. Fits(rows, row.payload, HeldMessagesGlobal - LegacyRelayMessages,
             HeldBytesGlobal - LegacyRelayBytes)
    BY <1>1, <1>4 DEF Admissible
  <2>4. /\ HeldMessagesGlobal - LegacyRelayMessages \in Int
        /\ HeldBytesGlobal - LegacyRelayBytes \in Int
    OBVIOUS
  <2>5. Within(Admitted(rows) \cup {row}, HeldMessagesGlobal - LegacyRelayMessages,
               HeldBytesGlobal - LegacyRelayBytes)
    BY <1>1, <1>2, <2>2, <2>3, <2>4, FitsThenWithin
  <2>6. QED
    BY <2>1, <2>5
<1>8. Cardinality(Admitted(dedup')) <= ReplayRecordsGlobal
  <2>1. Admitted(dedup') \in SUBSET (records \cup {row})
    BY <1>3 DEF Admitted
  <2>2. /\ IsFiniteSet(records \cup {row})
        /\ \/ Cardinality(records \cup {row}) = Cardinality(records)
           \/ Cardinality(records \cup {row}) = Cardinality(records) + 1
    BY <1>2, FS_AddElement
  <2>3. Cardinality(records) < ReplayRecordsGlobal /\ Cardinality(records) \in Nat
    BY <1>2, <1>4, FS_CardinalityType DEF Admissible
  <2>4. Cardinality(records \cup {row}) <= ReplayRecordsGlobal
    BY <2>2, <2>3
  <2>5. QED
    BY <2>1, <2>2, <2>4, CountBelow
<1>9. QED
  BY <1>5, <1>6, <1>7, <1>8 DEF QuotasRespected

\* What a step may do to the tables: the transaction that admits a row and the
\* backfill are the only ones that add anything.
LEMMA TableChanges ==
  ASSUME TypeOK, [Next]_vars
  PROVE  \/ held' \subseteq held /\ dedup' \subseteq dedup
         \/ held' = held /\ dedup' = Unexpired(held, now) /\ backfilledAt = -1
         \/ \E c \in Callers : /\ call[c] # Idle
                              /\ \E t \in call[c].since .. now : Committed(c, t)
<1>1. CASE Open
  BY <1>1 DEF Open
<1>2. ASSUME NEW c \in Callers, CommitHold(c)
      PROVE  \/ held' \subseteq held /\ dedup' \subseteq dedup
             \/ call[c] # Idle /\ \E t \in call[c].since .. now : Committed(c, t)
  BY <1>2, CommitCases DEF AlreadyKnown, Refuse
<1>3. CASE Expire
  BY <1>3, UnexpiredFacts DEF Expire
<1>4. ASSUME NEW c \in Callers, FailHold(c) \/ Return(c)
      PROVE  held' \subseteq held /\ dedup' \subseteq dedup
  BY <1>4 DEF FailHold, Refuse, Return
<1>5. ASSUME NEW id \in Envelopes, NEW mailbox \in Mailboxes, Delete(id, mailbox)
      PROVE  held' \subseteq held /\ dedup' \subseteq dedup
  BY <1>5 DEF Delete
<1>6. ASSUME NEW c \in Callers, NEW q \in Submissions,
             NEW expires \in now .. now + MaxEnvelopeRetention + 1,
             BeginHold(c, q, expires)
      PROVE  held' \subseteq held /\ dedup' \subseteq dedup
  BY <1>6 DEF BeginHold
<1>7. CASE Tick \/ Crash \/ UNCHANGED vars
  BY <1>7 DEF Tick, Crash, vars
<1>8. QED
  BY <1>1, <1>2, <1>3, <1>4, <1>5, <1>6, <1>7 DEF Next

\* Every quota is respected in every reachable state.
THEOREM QuotasHold == Spec => []QuotasRespected
<1>1. ASSUME Init PROVE QuotasRespected
  <2>1. dedup = {} /\ \A r \in held : r.submitter = NoUser
    BY <1>1, HeldStoreAssumption DEF Init
  <2>2. /\ Admitted(held) = {} /\ Admitted(dedup) = {}
        /\ \A m \in Mailboxes : Addressed(Admitted(held), m) = {}
        /\ \A u \in Users : Submitted(held, u) = {} /\ Submitted(dedup, u) = {}
    BY <2>1, HeldStoreAssumption DEF Admitted, Addressed, Submitted
  <2>3. /\ Within({}, HeldMessagesPerUser, HeldBytesPerUser)
        /\ Within({}, HeldMessagesPerMailbox, HeldBytesPerMailbox)
    BY NothingIsWithin, HeldStoreAssumption
  <2>4. Cardinality({}) <= ReplayRecordsPerUser /\ Cardinality({}) <= ReplayRecordsGlobal
    BY FS_EmptySet, HeldStoreAssumption
  <2>5. QED
    BY <2>2, <2>3, <2>4 DEF QuotasRespected
<1>2. ASSUME TypeOK, StoreInv, QuotasRespected, [Next]_vars PROVE QuotasRespected'
  <2>1. CASE held' \subseteq held /\ dedup' \subseteq dedup
    BY <1>2, <2>1, ShrinkingKeepsQuotas
  <2>2. CASE held' = held /\ dedup' = Unexpired(held, now) /\ backfilledAt = -1
    <3>1. Admitted(held) = {}
      BY <1>2, <2>2 DEF StoreInv, HeldIsGuarded
    <3>2. /\ Admitted(dedup') = {}
          /\ \A u \in Users : Submitted(dedup', u) = {}
      BY <2>2, <3>1, HeldStoreAssumption DEF Admitted, Submitted, Unexpired
    <3>3. QED
      BY <1>2, <2>2, <3>2, FS_EmptySet, HeldStoreAssumption DEF QuotasRespected
  <2>3. ASSUME NEW c \in Callers, call[c] # Idle,
               NEW t \in call[c].since .. now, Committed(c, t)
        PROVE  QuotasRespected'
    BY <1>2, <2>3, AdmissionKeepsQuotas
  <2>4. QED
    BY <1>2, <2>1, <2>2, <2>3, TableChanges
<1>3. QED
  BY <1>1, <1>2, TypeCorrect, ReplayGuard, PTL DEF Spec

-----------------------------------------------------------------------------
(***************************************************************************)
(* Envelopes are not lost, and what the senders are told is true           *)
(***************************************************************************)

\* An envelope leaves the table alone, by a deletion, or after its expiry.
THEOREM NothingLost == Spec => NeverLostBeforeExpiry
<1> DEFINE Kept == \A r \in held :
                     r \notin held' => r.expires <= now
                                        \/ (held' = held \ {r} /\ dedup' = dedup)
<1>1. ASSUME TypeOK, StoreInv, [Next]_vars PROVE Kept
  <2>1. ASSUME NEW id \in Envelopes, NEW mailbox \in Mailboxes,
               Delete(id, mailbox), NEW r \in held, r \notin held'
        PROVE  held' = held \ {r} /\ dedup' = dedup
    BY <1>1, <2>1 DEF Delete, StoreInv, OneRowPerEnvelope
  <2>2. ASSUME NEW t \in Int, t <= now, NEW r \in held,
               r \notin Unexpired(held, t)
        PROVE  r.expires <= now
    BY <1>1, <2>2 DEF Unexpired, TypeOK, Row
  <2>3. ASSUME NEW c \in Callers, CommitHold(c) PROVE Kept
    <3>1. call[c] \in Call
      BY <1>1, <2>3, CommitCases DEF TypeOK
    <3>2. \A t \in call[c].since .. now : t \in Int /\ t <= now
      BY <1>1, <3>1 DEF TypeOK, Call
    <3>3. QED
      BY <2>2, <2>3, <3>2, CommitCases DEF Committed, AlreadyKnown, Refuse
  <2>4. CASE Expire
    BY <1>1, <2>2, <2>4 DEF Expire, TypeOK
  <2>5. ASSUME NEW c \in Callers, FailHold(c) \/ Return(c) PROVE held' = held
    BY <2>5 DEF FailHold, Refuse, Return
  <2>6. ASSUME NEW c \in Callers, NEW q \in Submissions,
               NEW expires \in now .. now + MaxEnvelopeRetention + 1,
               BeginHold(c, q, expires)
        PROVE  held' = held
    BY <2>6 DEF BeginHold
  <2>7. CASE Tick \/ Open \/ Crash \/ UNCHANGED vars
    BY <2>7 DEF Tick, Open, Crash, vars
  <2>8. QED
    BY <1>1, <2>1, <2>3, <2>4, <2>5, <2>6, <2>7 DEF Next
<1>2. QED
  BY <1>1, TypeCorrect, ReplayGuard, PTL DEF Spec, NeverLostBeforeExpiry

\* A replay record disappears only when it has expired.
LEMMA TableKeeps ==
  ASSUME TypeOK, backfilledAt # -1, [Next]_vars, NEW r \in dedup, r \notin dedup'
  PROVE  \/ r.expires <= now
         \/ \E c \in Callers : /\ call[c] # Idle
                              /\ \E t \in call[c].since .. now : Committed(c, t)
<1>1. CASE Expire
  BY <1>1 DEF Expire, Unexpired, TypeOK, Row
<1>2. ASSUME NEW c \in Callers, CommitHold(c)
      PROVE  call[c] # Idle /\ \E t \in call[c].since .. now : Committed(c, t)
  BY <1>2, CommitCases DEF AlreadyKnown, Refuse
<1>3. ASSUME NEW c \in Callers, FailHold(c) \/ Return(c) PROVE FALSE
  BY <1>3 DEF FailHold, Refuse, Return
<1>4. ASSUME NEW id \in Envelopes, NEW mailbox \in Mailboxes, Delete(id, mailbox)
      PROVE  FALSE
  BY <1>4 DEF Delete
<1>5. ASSUME NEW c \in Callers, NEW q \in Submissions,
             NEW expires \in now .. now + MaxEnvelopeRetention + 1,
             BeginHold(c, q, expires)
      PROVE  FALSE
  BY <1>5 DEF BeginHold
<1>6. CASE Tick \/ Open \/ Crash \/ UNCHANGED vars
  BY <1>6 DEF Tick, Open, Crash, vars
<1>7. QED
  BY <1>1, <1>2, <1>3, <1>4, <1>5, <1>6 DEF Next

\* The transaction is the only step after which a handler has an answer that
\* it did not have before.
LEMMA OnlyCommitAnswers ==
  ASSUME TypeOK, [Next]_vars, NEW c \in Callers, call'[c] # call[c],
         call'[c] # Idle, call'[c].status \in {"held", "already_stored"}
  PROVE  CommitHold(c)
<1>1. ASSUME NEW b \in Callers, CommitHold(b) PROVE b = c
  BY <1>1, CommitCases DEF Committed, AlreadyKnown, Refuse, TypeOK
<1>2. ASSUME NEW b \in Callers, FailHold(b) PROVE FALSE
  <2>1. call[b] \in Call /\ call' = [call EXCEPT ![b].status = "error"]
    BY <1>2 DEF FailHold, Refuse, TypeOK
  <2>2. QED
    BY <2>1 DEF TypeOK, Call
<1>3. ASSUME NEW b \in Callers, Return(b) PROVE FALSE
  BY <1>3 DEF Return, TypeOK
<1>4. ASSUME NEW b \in Callers, NEW q \in Submissions,
             NEW expires \in now .. now + MaxEnvelopeRetention + 1,
             BeginHold(b, q, expires)
      PROVE  FALSE
  BY <1>4 DEF BeginHold, TypeOK
<1>5. ASSUME NEW id \in Envelopes, NEW mailbox \in Mailboxes, Delete(id, mailbox)
      PROVE  FALSE
  BY <1>5 DEF Delete
<1>6. CASE Tick \/ Open \/ Expire \/ Crash \/ UNCHANGED vars
  BY <1>6 DEF Tick, Open, Expire, Crash, vars
<1>7. QED
  BY <1>1, <1>2, <1>3, <1>4, <1>5, <1>6 DEF Next

\* Every answer "held" or "already_stored" is backed by a replay record.
THEOREM AnswersAreTrue == Spec => []AcknowledgedIsRecorded
<1>1. Init => AcknowledgedIsRecorded
  BY DEF Init, AcknowledgedIsRecorded
<1>2. ASSUME TypeOK, StoreInv, AcknowledgedIsRecorded, [Next]_vars
      PROVE  AcknowledgedIsRecorded'
  <2> DEFINE Answered(x) == x # Idle /\ x.status \in {"held", "already_stored"}
             Due(x) == IF x.status = "held" THEN x.expires ELSE x.since + 1
             Backed(x, records) ==
               \E r \in records : /\ r.id = x.request.id
                                  /\ SameContent(r, x.request)
                                  /\ r.expires >= Due(x)
  <2>1. \A c \in Callers :
          Answered(call[c]) => Backed(call[c], dedup) \/ now >= Due(call[c])
    BY <1>2 DEF AcknowledgedIsRecorded, Deadline, SameContent
  <2>2. SUFFICES ASSUME NEW c \in Callers, Answered(call'[c])
                 PROVE  Backed(call'[c], dedup') \/ now' >= Due(call'[c])
    BY DEF AcknowledgedIsRecorded, Deadline, SameContent
  <2>3. now \in Nat /\ now' \in Nat /\ now' >= now
    BY <1>2 DEF TypeOK, Next, Tick, Open, BeginHold, CommitHold, FailHold,
                Return, Delete, Expire, Crash, vars
  <2>4. ASSUME call'[c] = call[c] PROVE Backed(call'[c], dedup') \/ now' >= Due(call'[c])
    <3>1. call[c] \in Call /\ backfilledAt # -1
      BY <1>2, <2>2, <2>4 DEF TypeOK, StoreInv, CallsAreCurrent
    <3>2. Due(call[c]) \in Nat
      BY <3>1 DEF Call
    <3>3. CASE now >= Due(call[c])
      BY <2>3, <2>4, <3>2, <3>3
    <3>4. CASE Backed(call[c], dedup)
      <4>1. PICK r \in dedup : /\ r.id = call[c].request.id
                              /\ SameContent(r, call[c].request)
                              /\ r.expires >= Due(call[c])
        BY <3>4
      <4>2. r \in dedup' \/ r.expires <= now
        <5>1. r.expires \in Nat
          BY <1>2, <4>1 DEF TypeOK, Row
        <5>2. ASSUME NEW b \in Callers, call[b] # Idle,
                     NEW t \in call[b].since .. now, Committed(b, t)
              PROVE  r \in dedup' \/ r.expires <= now
          <6>1. t \in Int /\ t <= now
            BY <1>2, <5>2 DEF TypeOK, Call
          <6>2. QED
            BY <2>3, <4>1, <5>1, <5>2, <6>1 DEF Committed, Unexpired
        <5>3. QED
          BY <1>2, <4>1, <3>1, <5>2, TableKeeps
      <4>3. CASE r \in dedup'
        BY <2>4, <4>1, <4>3
      <4>4. CASE r.expires <= now
        <5>1. r.expires \in Nat
          BY <1>2, <4>1 DEF TypeOK, Row
        <5>2. QED
          BY <2>3, <2>4, <3>2, <4>1, <4>4, <5>1
      <4>5. QED
        BY <4>2, <4>3, <4>4
    <3>5. QED
      BY <2>1, <2>2, <2>4, <3>3, <3>4
  <2>5. ASSUME call'[c] # call[c] PROVE Backed(call'[c], dedup')
    <3>1. CommitHold(c)
      BY <1>2, <2>2, <2>5, OnlyCommitAnswers
    <3>2. call[c] \in Call
      BY <1>2, <3>1, CommitCases DEF TypeOK
    <3>3. CASE \E t \in call[c].since .. now : Committed(c, t)
      <4>1. /\ RowOf(call[c].request, call[c].expires) \in dedup'
            /\ call'[c] = [call[c] EXCEPT !.status = "held"]
        BY <1>2, <3>3 DEF Committed, TypeOK
      <4>2. Due(call'[c]) = call[c].expires /\ call'[c].request = call[c].request
        BY <3>2, <4>1 DEF Call
      <4>3. QED
        BY <3>2, <4>1, <4>2, RowOfIsRow DEF SameContent, Call
    <3>4. CASE \E t \in call[c].since .. now : AlreadyKnown(c, t)
      <4>1. PICK t \in call[c].since .. now : AlreadyKnown(c, t)
        BY <3>4
      <4>2. PICK r \in dedup : /\ r.id = call[c].request.id
                              /\ SameContent(r, call[c].request)
                              /\ r.expires > t
        BY <4>1 DEF AlreadyKnown, Unexpired
      <4>3. /\ dedup' = dedup
            /\ call'[c] = [call[c] EXCEPT !.status = "already_stored"]
        BY <1>2, <4>1 DEF AlreadyKnown, Refuse, TypeOK
      <4>4. /\ Due(call'[c]) = call[c].since + 1
            /\ call'[c].request = call[c].request
        BY <3>2, <4>3 DEF Call
      <4>5. r.expires >= call[c].since + 1
        BY <1>2, <3>2, <4>1, <4>2 DEF Call, TypeOK, Row
      <4>6. QED
        BY <4>2, <4>3, <4>4, <4>5
    <3>5. CASE Refuse(c, "error")
      BY <1>2, <2>2, <3>2, <3>5 DEF Refuse, TypeOK, Call
    <3>6. QED
      BY <3>1, <3>3, <3>4, <3>5, CommitCases
  <2>6. QED
    BY <2>4, <2>5
<1>3. QED
  BY <1>1, <1>2, TypeCorrect, ReplayGuard, PTL DEF Spec

-----------------------------------------------------------------------------
(***************************************************************************)
(* HeldStore implements EnvelopePromise                                    *)
(***************************************************************************)

OneRecord(records) == \A d1, d2 \in records : d1.id = d2.id => d1 = d2
Phase(rows, e) == IF \E r \in rows : r.id = e THEN "held" ELSE "spent"

LEMMA EntryKnown ==
  ASSUME NEW rows, NEW records, OneRecord(records), NEW d \in records
  PROVE  Entry(rows, records, d.id) = EntryOf(d, Phase(rows, d.id))
<1>1. (CHOOSE x \in records : x.id = d.id) = d
  BY DEF OneRecord
<1>2. QED
  BY <1>1 DEF Entry, Phase

LEMMA EntryUnknown ==
  ASSUME NEW rows, NEW records, NEW e, \A d \in records : d.id # e
  PROVE  Entry(rows, records, e) = Free
BY DEF Entry

LEMMA EntryTypes ==
  ASSUME NEW d \in Row
  PROVE  /\ EntryOf(d, "held") \in Promise!HeldEntry
         /\ \A phase \in {"held", "spent"} :
              /\ EntryOf(d, phase) # Free
              /\ EntryOf(d, phase).expires = d.expires
              /\ EntryOf(d, phase).phase = phase
         /\ EntryOf(d, "spent") = [EntryOf(d, "held") EXCEPT !.phase = "spent"]
BY HeldStoreAssumption DEF EntryOf, Row, Promise!HeldEntry, Free

\* The moves an entry of the ledger may make.
Moves(entry, next) ==
  \/ next = entry
  \/ Promise!Accepted(entry, next)
  \/ Promise!Spent(entry, next)
  \/ Promise!Forgotten(entry, next)

\* The entry of an envelope moves as promised when both tables lose only
\* expired records and deleted rows.
LEMMA LosingMoves ==
  ASSUME NEW rows, NEW records \in SUBSET Row, NEW rows2 \in SUBSET rows,
         NEW records2 \in SUBSET records, OneRecord(records), NEW e,
         \A d \in records : d \notin records2 => d.expires <= now
  PROVE  Moves(Entry(rows, records, e), Entry(rows2, records2, e))
<1>1. OneRecord(records2)
  BY DEF OneRecord
<1>2. CASE \A d \in records : d.id # e
  BY <1>2, EntryUnknown DEF Moves
<1>3. ASSUME NEW d \in records, d.id = e
      PROVE  Moves(Entry(rows, records, e), Entry(rows2, records2, e))
  <2>1. /\ Entry(rows, records, e) = EntryOf(d, Phase(rows, e))
        /\ Phase(rows, e) \in {"held", "spent"}
    <3>1. Entry(rows, records, e) = EntryOf(d, Phase(rows, e))
      BY <1>3, EntryKnown
    <3>2. Phase(rows, e) \in {"held", "spent"}
      BY DEF Phase
    <3>3. QED
      BY <3>1, <3>2
  <2>2. CASE d \in records2
    <3>1. Entry(rows2, records2, e) = EntryOf(d, Phase(rows2, e))
      BY <1>1, <1>3, <2>2, EntryKnown
    <3>2. \/ Phase(rows2, e) = Phase(rows, e)
          \/ Phase(rows, e) = "held" /\ Phase(rows2, e) = "spent"
      BY DEF Phase
    <3>3. QED
      BY <2>1, <3>1, <3>2, EntryTypes DEF Moves, Promise!Spent, Free
  <2>3. CASE d \notin records2
    <3>1. Entry(rows2, records2, e) = Free
      BY <1>3, <2>3, EntryUnknown DEF OneRecord
    <3>2. QED
      BY <2>1, <2>3, <3>1, EntryTypes DEF Moves, Promise!Forgotten, Free
  <2>4. QED
    BY <2>2, <2>3
<1>4. QED
  BY <1>2, <1>3

\* So does the entry of an envelope when its row is added.
LEMMA AdmissionMoves ==
  ASSUME TypeOK, StoreInv, NEW c \in Callers, call[c] # Idle,
         NEW t \in call[c].since .. now, Committed(c, t), NEW e
  PROVE  Moves(Entry(held, dedup, e), Entry(held', dedup', e))
<1> DEFINE row == RowOf(call[c].request, call[c].expires)
           rows == Unexpired(held, t)
           records == Unexpired(dedup, t)
<1>1. /\ row \in Row /\ t \in Int /\ t <= now
      /\ row.id = call[c].request.id
  BY RowOfIsRow DEF TypeOK, Call
<1>2. /\ held' = rows \cup {row} /\ dedup' = records \cup {row}
      /\ \A d \in records : d.id # row.id
  BY <1>1 DEF Committed
<1>3. OneRecord(dedup) /\ OneRecord(dedup') /\ dedup \in SUBSET Row
  BY <1>2 DEF OneRecord, StoreInv, OneRowPerEnvelope, Unexpired, TypeOK
<1>4. \A d \in dedup : d \notin records => d.expires <= now
  BY <1>1 DEF Unexpired, TypeOK, Row
<1> HIDE DEF row
<1>5. CASE e = row.id
  <2>1. Entry(held', dedup', e) = EntryOf(row, "held")
    <3>1. row \in held' /\ row \in dedup'
      BY <1>2
    <3>2. Phase(held', e) = "held"
      BY <1>5, <3>1 DEF Phase
    <3>3. QED
      BY <1>3, <1>5, <3>1, <3>2, EntryKnown
  <2>2. CASE \A d \in dedup : d.id # e
    BY <1>1, <2>1, <2>2, EntryUnknown, EntryTypes DEF Moves, Promise!Accepted, Free
  <2>3. ASSUME NEW d \in dedup, d.id = e
        PROVE  Moves(Entry(held, dedup, e), Entry(held', dedup', e))
    <3>1. Entry(held, dedup, e) = EntryOf(d, Phase(held, e))
      BY <1>3, <2>3, EntryKnown
    <3>2. d.expires <= now
      BY <1>2, <1>4, <1>5, <2>3
    <3>3. Phase(held, e) \in {"held", "spent"} /\ d \in Row
      BY <1>3 DEF Phase
    <3>4. QED
      BY <1>1, <2>1, <3>1, <3>2, <3>3, EntryTypes DEF Moves, Promise!Forgotten, Free
  <2>4. QED
    BY <2>2, <2>3
<1>6. CASE e # row.id
  <2>1. Entry(held', dedup', e) = Entry(rows, records, e)
    <3>1. CASE \A d \in records : d.id # e
      <4>1. \A d \in dedup' : d.id # e
        BY <1>2, <1>6, <3>1
      <4>2. QED
        BY <3>1, <4>1, EntryUnknown
    <3>2. ASSUME NEW d \in records, d.id = e
          PROVE  Entry(held', dedup', e) = Entry(rows, records, e)
      <4>1. OneRecord(records) /\ d \in dedup'
        BY <1>2, <1>3 DEF OneRecord
      <4>2. Phase(held', e) = Phase(rows, e)
        BY <1>2, <1>6 DEF Phase
      <4>3. QED
        BY <1>3, <3>2, <4>1, <4>2, EntryKnown
    <3>3. QED
      BY <3>1, <3>2
  <2>2. rows \in SUBSET held /\ records \in SUBSET dedup
    BY UnexpiredFacts
  <2>3. QED
    BY <1>3, <1>4, <2>1, <2>2, LosingMoves
<1>7. QED
  BY <1>5, <1>6

\* The backfill accepts the rows it finds.
LEMMA BackfillMoves ==
  ASSUME TypeOK, StoreInv, held' = held, dedup' = Unexpired(held, now),
         backfilledAt = -1, NEW e
  PROVE  Moves(Entry(held, dedup, e), Entry(held', dedup', e))
<1>1. Entry(held, dedup, e) = Free
  BY EntryUnknown DEF StoreInv, HeldIsGuarded
<1>2. CASE \A d \in dedup' : d.id # e
  BY <1>1, <1>2, EntryUnknown DEF Moves
<1>3. ASSUME NEW d \in dedup', d.id = e
      PROVE  Moves(Entry(held, dedup, e), Entry(held', dedup', e))
  <2>1. d \in held' /\ d \in Row /\ OneRecord(dedup')
    BY DEF Unexpired, OneRecord, StoreInv, OneRowPerEnvelope, TypeOK
  <2>2. Phase(held', e) = "held"
    BY <1>3, <2>1 DEF Phase
  <2>3. Entry(held', dedup', e) = EntryOf(d, "held")
    BY <1>3, <2>1, <2>2, EntryKnown
  <2>4. QED
    BY <1>1, <2>1, <2>3, EntryTypes DEF Moves, Promise!Accepted, Free
<1>4. QED
  BY <1>2, <1>3

\* Every behaviour of HeldStore is a behaviour of EnvelopePromise.
THEOREM ImplementsPromise == Spec => PromiseKept
<1>1. Init => Promise!Init
  BY EntryUnknown DEF Init, Promise!Init
<1>2. ASSUME TypeOK, StoreInv, [Next]_vars PROVE [Promise!Next]_(Promise!vars)
  <2>1. ASSUME NEW e \in Envelopes
        PROVE  Moves(Entry(held, dedup, e), Entry(held', dedup', e))
    <3>1. CASE \E c \in Callers : /\ call[c] # Idle
                                /\ \E t \in call[c].since .. now : Committed(c, t)
      BY <1>2, <3>1, AdmissionMoves
    <3>2. CASE held' = held /\ dedup' = Unexpired(held, now) /\ backfilledAt = -1
      BY <1>2, <3>2, BackfillMoves
    <3>3. CASE held' \subseteq held /\ dedup' \subseteq dedup
      <4>1. CASE backfilledAt = -1
        <5>1. dedup = {} /\ dedup' = {}
          BY <1>2, <3>3, <4>1 DEF StoreInv, HeldIsGuarded
        <5>2. QED
          BY <5>1, EntryUnknown DEF Moves
      <4>2. CASE backfilledAt # -1
        <5>1. ASSUME NEW d \in dedup, d \notin dedup'
              PROVE  d.expires <= now \/
                     \E c \in Callers : /\ call[c] # Idle
                                      /\ \E t \in call[c].since .. now : Committed(c, t)
          BY <1>2, <4>2, <5>1, TableKeeps
        <5>2. CASE \A d \in dedup : d \notin dedup' => d.expires <= now
          <6>1. OneRecord(dedup) /\ dedup \in SUBSET Row
            BY <1>2 DEF OneRecord, StoreInv, OneRowPerEnvelope, TypeOK
          <6>2. QED
            BY <3>3, <5>2, <6>1, LosingMoves
        <5>3. QED
          BY <3>1, <5>1, <5>2
      <4>3. QED
        BY <4>1, <4>2
    <3>4. QED
      BY <1>2, <3>1, <3>2, <3>3, TableChanges
  <2>2. now' \in {now, now + 1}
    BY <1>2 DEF Next, Tick, Open, BeginHold, CommitHold, FailHold, Return,
                Delete, Expire, Crash, vars
  <2>3. Promise!Next
    BY <2>1, <2>2 DEF Promise!Next, Moves
  <2>4. QED
    BY <2>3
<1>3. QED
  BY <1>1, <1>2, TypeCorrect, ReplayGuard, PTL DEF Spec, PromiseKept, Promise!Spec
==============================================================================
