SPECIFICATION FairSpec
CONSTANTS
  d1 = d1  d2 = d2
  Messages = {m1}
  Foreign = {o1}
  Discarded = {m1}
  Clients = {c1}
  Daemon = daemon
  Daddies = {d1, d2}
  Relays <- MCRelays
  MayBeDead = {d1}
  OutboxMessages = 2
  OutboxBatch = 1
  NoWork = NoWork
CHECK_DEADLOCK FALSE
INVARIANTS
  MailInv
  NothingStranded
PROPERTIES
  DeliveredIsFinal
  GoneForGood
  MailPromiseKept
  EventuallyStored
  EventuallyDelivered
