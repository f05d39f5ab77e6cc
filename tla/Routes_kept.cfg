SPECIFICATION FairSpec
CONSTANTS
  d1 = d1  d2 = d2  a1 = a1  a2 = a2
  Relays <- MCRelays
  Dead = {}
  Senders = {}
  Addresses = {a1}
  SourcePort = SourcePort
  Nowhere = Nowhere
  DefaultRouteTTL = 18
  RetryInterval = 2
  MaxPass = 2
INVARIANTS
  TypeOK
  KeptAlive
PROPERTIES
  RouteReturns
