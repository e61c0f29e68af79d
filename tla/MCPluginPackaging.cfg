SPECIFICATION Spec
CONSTANTS
  Paths <- MCPaths
  Names <- MCNames
  PythonNames <- MCPythonNames
  Normalized <- MCNormalized
  Rank <- MCRank
  LongPaths <- MCLongPaths
  Triggers = {"process_writes"}
  Excludes <- MCExcludes
  BadPattern = BadPattern
  Entries <- MCEntries
  Layouts <- MCLayouts
  MaxEdits = 1
  Absent = Absent
  Unparseable = Unparseable
  None = None
INVARIANTS
  TypeOK
  ArchiveRuns
  RefusedForCause
  WhitelistWins
  Reproducible
CHECK_DEADLOCK FALSE
