SPECIFICATION FairSpec
CONSTANTS
  s1 = s1  i1 = i1  i2 = i2
  Connections = {c1, c2, c3}
  Closed = Closed
  Sources = {s1}
  Identities = {i1, i2}
  NoName = NoName
  NoFailure = NoFailure
  ConnectionsPerSource = 2
  ConnectionsGlobal = 2
  ConcurrentHandshakes = 1
  ConcurrentRequestsPerIdentity = 1
  ConcurrentRequests = 2
  HandshakeFailuresPerWindow = 1
  HandshakeFailureWindowSeconds = 1
  HandshakeCooldownSeconds = 1
  maxTrackedIdentities = 2
  maxSessionRequests = 1
  MaxFailures = 5
  MaxTime = 1
INVARIANTS
  AdmissionInv
  FailuresBounded
PROPERTIES
  ConnectionsEnd
