SPECIFICATION Spec
CONSTANTS
  Names <- MCNames
  Versions <- MCVersions
  Hashes = {"h1"}
  Times = {"t1"}
  Descriptions <- MCDescriptions
  Nfc <- MCNfc
  TooLong <- MCTooLong
  Reserved = {3}
  Ranges = {"range"}
  Requirements = {"requests"}
  Drafts <- MCDrafts
  Registries <- MCRegistries
  Mended <- MCMended
  MaxEntries = 2
INVARIANTS
  TypeOK
  EveryErrorCounts
  OneRule
PROPERTIES
  OnePass
  StaysReadable
CHECK_DEADLOCK FALSE
