SPECIFICATION Spec
CONSTANTS
  Names <- MCNames
  Versions <- MCVersions
  Hashes = {"h1", "h2"}
  Times = {"t1"}
  Descriptions = {"short"}
  Nfc <- MCNfc
  TooLong = "toolong"
  Runs = {"r1", "r2", "r3", "r4"}
  Checkout <- MCCheckout
  NoManifest = NoManifest
  Hosted <- MCHosted
  Grouping <- Never
  MaxFaults = 0
  Absent = Absent
CHECK_DEADLOCK FALSE
INVARIANT EntriesNeverDeleted
