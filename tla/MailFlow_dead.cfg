SPECIFICATION DeadSpec
CONSTANTS
  d1 = d1  d2 = d2
  Messages = {m1}
  Foreign = {o1}
  Discarded = {}
  Clients = {c1}
  Daemon = daemon
  Daddies = {d1, d2}
  Relays <- MCRelays
  MayBeDead = {d2}
  OutboxMessages = 2
  OutboxBatch = 1
  NoWork = NoWork
CHECK_DEADLOCK FALSE
PROPERTIES
  OneDeadDaddyIsHarmless
