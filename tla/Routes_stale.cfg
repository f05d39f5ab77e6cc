SPECIFICATION Spec
CONSTANTS
  d1 = d1  d2 = d2  a1 = a1  a2 = a2
  Relays <- MCRelays
  Dead = {}
  Senders = {d2}
  Addresses = {a1, a2}
  SourcePort = SourcePort
  Nowhere = Nowhere
  DefaultRouteTTL = 3
  RetryInterval = 1
  MaxPass = 1
INVARIANTS
  StaleRoutesEnd
