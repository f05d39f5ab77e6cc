SPECIFICATION FairSpec
CONSTANTS
  e1 = e1  e2 = e2  e3 = e3
  m1 = m1  m2 = m2
  p1 = p1  p2 = p2
  u1 = u1  u2 = u2
  c1 = c1  c2 = c2
  Envelopes = {e1, e2, e3}
  Mailboxes = {m1, m2}
  Payloads = {p1, p2}
  Users = {u1, u2}
  NoUser = NoUser
  Callers = {c1, c2}
  Idle = Idle
  Submissions <- MCSubmissions
  LegacyRows <- MCLegacyRows
  Size <- MCSize
  MaxOpaqueEnvelopeSize = 2
  MaxEnvelopeRetention = 1
  HeldMessagesPerUser = 2
  HeldBytesPerUser = 2
  HeldMessagesPerMailbox = 1
  HeldBytesPerMailbox = 2
  HeldMessagesGlobal = 3
  HeldBytesGlobal = 4
  ReplayRecordsPerUser = 2
  ReplayRecordsGlobal = 3
  LegacyRelayMessages = 1
  LegacyRelayBytes = 1
  MaxTime = 2
  MaxCrashes = 1
INVARIANTS
  StoreInv
  TypeOK
  QuotasRespected
  AcknowledgedIsRecorded
PROPERTIES
  ExpiredIsForgotten
  NeverLostBeforeExpiry
  PromiseKept
