SPECIFICATION Spec
CONSTANTS
  Names <- MCNames
  Procs = {p1, p2}
  Jobs <- MCJobs
  Layouts <- MCLayouts
  Absent = Absent
  Foreign = Foreign
  Partial = Partial
INVARIANTS
  TypeOK
  SiblingsPublishable
PROPERTIES
  UserFilesKept
  SuccessClassifies
CHECK_DEADLOCK FALSE
