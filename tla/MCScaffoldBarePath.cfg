SPECIFICATION Spec
CONSTANTS
  Names <- MCNames
  Procs = {p1}
  Jobs <- BareJobs
  Layouts <- MCLayouts
  Absent = Absent
  Foreign = Foreign
  Partial = Partial
CHECK_DEADLOCK FALSE
INVARIANT BarePathsChecked
