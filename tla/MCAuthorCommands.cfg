SPECIFICATION Spec
CONSTANTS
  Names <- MCNames
  Versions <- MCVersions
  Hashes = {"h1", "h2"}
  Times = {"t1"}
  Descriptions = {"short", "grows"}
  Nfc <- MCNfc
  TooLong = "toolong"
  Procs = {p1, p2, p3}
  Paths <- MCPaths
  Dirs = {"registry", "store", "out", "next"}
  Real <- MCReal
  IndexLink <- NoLink
  Jobs <- MCJobs
  Hosted <- MCHosted
  Absent = Absent
  Empty = Empty
  Partial = Partial
  None = None
INVARIANTS
  TypeOK
  InputUntouched
  ArtifactBeforeIndex
  ExitZeroMeansWritten
  RefusalTouchesNothing
SYMMETRY AnyOrder
CHECK_DEADLOCK FALSE
