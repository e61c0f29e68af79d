SPECIFICATION Spec
CONSTANTS
  Names <- MCNames
  Versions <- MCVersions
  Hashes = {"h1", "h2"}
  Times = {"t1"}
  Descriptions = {"short", "grows"}
  Nfc <- MCNfc
  TooLong = "toolong"
  Procs = {p1, p2}
  Paths <- MCPaths
  Dirs = {"registry", "store", "out", "next"}
  Real <- MCReal
  IndexLink <- OutLinked
  Jobs <- MCJobs
  Hosted <- MCHosted
  Absent = Absent
  Empty = Empty
  Partial = Partial
  None = None
CHECK_DEADLOCK FALSE
INVARIANT InputUntouched
