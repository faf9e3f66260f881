SPECIFICATION ApiSpec

CONSTANTS
  u1 = u1
  u2 = u2
  a = a
  b = b
  v = v
  o1 = o1
  o2 = o2
  o3 = o3
  p1 = p1
  p2 = p2
  MAX_REVISION = 2
  Users = {u1, u2}
  Devices = {a, b}
  Vaults = {v}
  Operations = {o1, o2, o3}
  Payloads = {p1, p2}
  NoUser = NoUser
  MaxCorruptions = 1
  Slots = {1, 2}
  Requests <- RacingRequests
  Watched <- RacingRequests
  Readers = {}
  MaxChanges = 1
  Owner = u1
  Member = u2
  OwnerDevice = a
  MemberDevice = b
  Vault = v
  Free = Free

INVARIANTS
  AckedIsDurable
  ConflictIsFinal

PROPERTIES
  OnlyWritersCommit
  ConfirmedIsIntact
  ImplementsVaultLog
