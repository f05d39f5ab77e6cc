SPECIFICATION DaddySpec
CONSTANTS
  e1 = e1
  m1 = m1  m2 = m2
  p1 = p1
  s1 = s1  s2 = s2
  f1 = f1
  alice = alice  bob = bob
  Envelopes = {e1}
  Mailboxes = {m1, m2}
  Payloads = {p1}
  Users = {alice, bob}
  NoUser = NoUser
  Callers = {s1, s2}
  Forwarders = {f1}
  Idle = Idle
  Closed = Closed
  Done = Done
  Unbound = Unbound
  Submissions <- SessionSubmissions
  LegacyRows = {}
  Size <- MCSize
  MaxOpaqueEnvelopeSize = 1
  MaxEnvelopeRetention = 1
  HeldMessageTTL = 1
  maxRouteLifetime = 1
  maxHeldMessageBatch = 1
  HeldMessagesPerUser = 2
  HeldBytesPerUser = 2
  HeldMessagesPerMailbox = 2
  HeldBytesPerMailbox = 2
  HeldMessagesGlobal = 2
  HeldBytesGlobal = 2
  ReplayRecordsPerUser = 2
  ReplayRecordsGlobal = 2
  LegacyRelayMessages = 0
  LegacyRelayBytes = 0
  MailboxOwnersGlobal = 1
  RoutesPerIdentity = 1
  RelayForwardLimit = 1
  MaxTime = 1
  MaxCrashes = 1
SYMMETRY MCSymmetry
INVARIANTS
  SessionsAreScoped
  OnlyOwnersReceive
  LimitsKept
  KeptUntilHanded
PROPERTIES
  StoreUsed
