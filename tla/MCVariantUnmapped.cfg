\* An index with a plugin dependency given twice.
SPECIFICATION Spec
CONSTANTS
  NotUnicode = "<not UTF-8>"
  Invocations <- MCInvocations
  IndexReports <- UnmappedReports
  DirectoryReports <- MCDirectoryReports
  DirectoryErrors <- MCDirectoryErrors
  PackageErrors <- MCPackageErrors
  SerializeErrors <- MCSerializeErrors
  ScaffoldErrors <- MCScaffoldErrors
INVARIANT DetailsNameVariant
\* An invocation ends.
CHECK_DEADLOCK FALSE
