\* Two processes import five files that repeat, contradict and overlap each
\* other, while venues are registered,
\* one of them under another licence, with one fault.
SPECIFICATION Spec
CONSTANTS
  Importers = {i1, i2}
  i1 = i1
  i2 = i2
  Files <- TheFiles
  Content <- TheContent
  Licenses <- TheLicenses
  Venues = {1, 2}
  ISSNs = {"a", "b"}
  VenueISSNs <- TheVenueISSNs
  Metrics = {1, 2}
  Titles = {"t"}
  Sources = {"clarivate"}
  KeyRank <- TheKeyRank
  AliasLock <- TheAliasLock
  MaxRows = 3
  MaxRuns <- TheRuns
  MaxFaults = 1
  None = None
INVARIANTS
  SuccessMeansStored
  ConflictIsReal
PROPERTIES
  ImportsAreAtomic
  ImportsEnd
CHECK_DEADLOCK FALSE
