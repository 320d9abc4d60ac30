\* Two workers, every kind of write, colliding identities, two policy versions.
SPECIFICATION Spec
CONSTANTS
  Workers = {w1, w2}
  Raws = {a1, a2, b1, dA}
  Events = {eA, eB}
  Ids = {doi, openalex}
  Works = {x1, x2}
  Versions = {v1, v2}
  Snapshot <- Mixed
  Verdict <- Reassessed
  Priority <- AllPriority
  Order <- AllOrder
  None = None
  doi = doi
  openalex = openalex
  eA = eA
  eB = eB
  a1 = a1
  a2 = a2
  b1 = b1
  dA = dA
  v1 = v1
SYMMETRY BothSymmetries
INVARIANTS
  IncludedIsBacked
  IncludedWorksAreCurrent
PROPERTIES
  ImplementsLedger
