SPECIFICATION Spec
SYMMETRY DeviceSymmetry

CONSTANTS
  d1 = d1
  d2 = d2
  twin = twin
  copy = copy
  copy2 = copy2
  note = note
  None = None
  Paths <- Twins
  CopiesOf <- CopiesOfNote
  Clashing <- TwinsClash
  Devices <- MCDevices
  MAX_REVISION = 1000
  MAX_ROUNDS = 2
  PULL_BATCH = 4
  PACKET_LIMIT = 796
  PACKET_RESERVE = 544
  PathBytes <- LongNames
  ContentBytes <- FullFiles
  OpIds = {0, 1, 2, 3, 4, 5, 6}
  Edited = {note, twin}
  MaxEdits = 2
  MaxFaults = 0
  MaxRestores = 1
  TakingCopies = FALSE
  EditsInWindow = FALSE
  SharedStart <- StartNote

INVARIANTS
  ServerIsPortable

PROPERTIES
  FreshMergeKeepsFiles
