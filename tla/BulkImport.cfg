SPECIFICATION Spec
CONSTANTS
  i1 = i1
  i2 = i2
  h1 = h1
  h2 = h2
  h3 = h3
  c1 = c1
  c2 = c2
  None = None
  Importers = {i1, i2}
  Years = {25, 26}
  Hashes = {h1, h2, h3}
  Citations = {c1, c2}
  Content <- MCContent
  Requests <- MCRequests
  MaxSequence = 3
SYMMETRY MCSymmetry
INVARIANTS AppliedWithoutGaps CheckpointIsLastApplied SuccessCoversRequest ProjectionIsReplay
