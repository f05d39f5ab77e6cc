SPECIFICATION Spec
CONSTANTS
  s1 = s1  s2 = s2  i1 = i1  address = address  mailbox = mailbox
  Sessions = {s1, s2}
  Sources = {address}
  OtherKeys = {i1, mailbox}
  IdentityOf <- MCIdentityOf
  SourceOf <- MCSourceOf
  Mailboxes = {mailbox}
  NoMailbox = NoMailbox
  Untracked = Untracked
  TokenTime = 1
  RequestBurst = 1
  MaxTracked = 2
  MaxClock = 5
INVARIANTS
  TypeOK
  RateIsKept
  NoneIsStarved
