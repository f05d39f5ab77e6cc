SPECIFICATION FairSpec
CONSTANTS
  p1 = p1  p2 = p2  ann = ann  bob = bob  old = old
  Identities = {p1, p2}
  Namespace <- MCNamespace
  Aliases = {bob}
  NoAlias = NoAlias
  Unknown = Unknown
  PeerIdentitiesGlobal = 2
  Clients = {c1, c2}
  Messages = {old, m1, m2}
  Leftover <- MCLeftover
  QueueLimit = 2
INVARIANTS
  TypeOK
  AliasReachesItsPeer
PROPERTIES
  ContactsKeep
  NobodyIsPassedOver
  EventuallySent
