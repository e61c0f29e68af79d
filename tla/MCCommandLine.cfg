\* At most two arguments (three in seven cases), five environments.
SPECIFICATION Spec
CONSTANTS
  NotUnicode = "<not UTF-8>"
  Invocations <- MCInvocations
  IndexReports <- MCIndexReports
  DirectoryReports <- MCDirectoryReports
  DirectoryErrors <- MCDirectoryErrors
  PackageErrors <- MCPackageErrors
  SerializeErrors <- MCSerializeErrors
  ScaffoldErrors <- MCScaffoldErrors
INVARIANTS
  TypeOK
  OneDocument
  ExitAgreesWithOutput
  NoDiagnosticLost
  ColourPerStream
  ReportedIsWritten
\* An invocation ends.
CHECK_DEADLOCK FALSE
