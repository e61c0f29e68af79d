SPECIFICATION FairSpec
CONSTANTS
  Names <- MCNames
  Versions <- MCVersions
  Hashes = {"h1", "h2"}
  Times = {"t1"}
  Descriptions = {"short"}
  Nfc <- MCNfc
  TooLong = "toolong"
  Runs = {"r1", "r2", "r3", "r4"}
  Checkout <- MCCheckout
  NoManifest = NoManifest
  Hosted <- MCHosted
  Grouping <- Either
  MaxFaults = 1
  Absent = Absent
INVARIANTS
  TypeOK
  PublishedFetchable
  NothingForgotten
  GreenMeansPublished
PROPERTY
  RunsEndGreen
CHECK_DEADLOCK FALSE
