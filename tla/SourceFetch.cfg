\* Long fetches of each kind and two that share a client, over a server that
\* answers anything.
SPECIFICATION Spec
CONSTANTS
  Calls = {s1, s2}
  s1 = s1
  s2 = s2
  Interval = 2
  MaxRetries = 2
  MaxWait = 2
  InitialBackoff = 1
  MaxBackoff = 2
  MaxDuration = 7
  Hints = {0, 7}
  Late = 1
  Loads <- LongOrContending
  PageSize = 2
  Fresh = Fresh
  None = None
INVARIANTS
  RetriesWithinBudget
  BackoffIsExponential
  FaithfulIsServed
PROPERTIES
  SlotsAreApart
  FetchEnds
