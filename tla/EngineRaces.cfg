SPECIFICATION Spec
SYMMETRY DeviceSymmetry

CONSTANTS
  d1 = d1
  d2 = d2
  twin = twin
  copy = copy
  copy2 = copy2
  note = note
  None = None
  Paths <- TwoCopies
  CopiesOf <- CopiesOfNote
  Clashing <- NoClash
  Devices <- MCDevices
  MAX_REVISION = 1000
  MAX_ROUNDS = 2
  PULL_BATCH = 1
  PACKET_LIMIT = 796
  PACKET_RESERVE = 544
  PathBytes <- LongNames
  ContentBytes <- OneLargeFile
  OpIds = {0, 1, 2, 3, 4, 5, 6}
  Edited = {note}
  MaxEdits = 3
  MaxFaults = 0
  MaxRestores = 0
  TakingCopies = TRUE
  EditsInWindow = FALSE
  SharedStart <- StartNote

INVARIANTS
  SystemTypeOK
  SuccessMeansSynced
  PacketsFit
  BaseIsServerContents
  NoSilentLoss

PROPERTIES
  OnlyBaseIsReplaced
