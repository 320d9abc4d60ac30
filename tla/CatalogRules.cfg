SPECIFICATION Spec
CONSTANTS
  None = None
  NoJif = NoJif
  Nil = Nil
  One = 2
  Unit = 10
  Day = 2
  Slug <- MCSlug
  Contents <- MCContents
  RowSets <- MCRowSets
  Catalogs <- MCCatalogs
  Now <- MCNow
  Dates <- MCDates
  Decimals <- MCDecimals
  Journals <- MCJournals
  Judgements <- MCJudgements
  Opportunities <- MCOpportunities
  Series <- MCSeries
  WindowPairs <- MCWindowPairs
  Cohorts <- MCCohorts
INVARIANTS
  SelectionIgnoresIds
  StatsAreFinal
  SlugsResolve
  DecimalsAreExact
  DecisionsAreFinal
  VerdictsAreExclusive
  SignalsAreBounded
