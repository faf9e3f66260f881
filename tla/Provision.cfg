SPECIFICATION ProvisionSpec

CONSTANTS
  u = u
  v = v
  d1 = d1
  d2 = d2
  d3 = d3
  d4 = d4
  o = o
  p = p
  c1 = c1
  c2 = c2
  c3 = c3
  MAX_REVISION = 1
  Users = {u}
  Devices = {d1, d2, d3, d4}
  Vaults = {v}
  Operations = {o}
  Payloads = {p}
  NoUser = NoUser
  MaxCorruptions = 0
  Jobs <- Commanded
  Paths = {c1, c2, c3}
  Owner = u
  Vault = v
  FirstFiles = {"absent", "legacy", "populated", "foreign"}
  MaxFaults = 2
  NoFile = NoFile
  NoDevice = NoDevice

INVARIANTS
  ProvisionTypeOK
  WholeFiles
  ReportedCredentialsWork
  ReportedBackupIsComplete
  FailedLeavesNoDevice
  OnlyUnusableIsRefused

CHECK_DEADLOCK FALSE
