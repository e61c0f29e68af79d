SPECIFICATION Spec
CONSTANTS
  Names <- MCNames
  Versions <- MCVersions
  Hashes = {"h1", "h2"}
  Times = {"t1"}
  Descriptions = {"composed", "decomposed", "grows"}
  Nfc <- MCNfc
  TooLong = "toolong"
  Seeds <- MCSeeds
  MaxEntries = 3
  Databases = {"db3", "db4"}
  Requires <- MCRequires
  Triggers = {"writes", "request"}
  Declares <- MCDeclares
  Texts <- MCTexts
  Unset = Unset
INVARIANTS
  TypeOK
  RegistryConsistent
  InsertMirrorsParse
  SearchAgreesWithInfo
  ReasonsSuffice
  QueriesIgnoreOrder
  SearchHitMatchesInfo
PROPERTIES
  ImmutablePublication
  OutputIsCanonical
  ImplementsRegistry
CHECK_DEADLOCK FALSE
