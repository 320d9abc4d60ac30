\* Nobody waits for a lock for ever.
SPECIFICATION FairSpec
CONSTANTS
  Workers = {w1, w2}
  Raws = {a1, a2, b1, dA}
  Events = {eA, eB}
  Ids = {doi, openalex}
  Works = {x1, x2}
  Versions = {v1}
  Snapshot <- Overlapping
  Verdict <- AllIncluded
  Priority <- AllPriority
  Order <- AllOrder
  None = None
  doi = doi
  openalex = openalex
  eA = eA
  eB = eB
  a1 = a1
  a2 = a2
  b1 = b1
  dA = dA
  v1 = v1
PROPERTIES HandlersEnd
