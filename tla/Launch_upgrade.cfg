SPECIFICATION Spec
CONSTANTS
  daemon = daemon  cli = cli
  a1 = a1  a2 = a2  alice = alice
  m1 = m1  m2 = m2  m3 = m3
  user = user  ink = ink
  Processes = {daemon, cli}
  Names = {user, ink}
  NoName = NoName
  defaultNamespace = user
  Requested <- MCRequested
  Absent = Absent
  Damaged = Damaged
  AddedColumns <- MCColumns
  Peers = {a1, a2}
  Aliases = {alice}
  NoAlias = NoAlias
  Blank = Blank
  Mail = {m1, m2, m3}
  Databases <- WithoutAliases
  MaxFaults = 2
INVARIANTS
  EarlierReleasesOpen
