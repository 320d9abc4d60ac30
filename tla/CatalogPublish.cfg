SPECIFICATION Spec
CONSTANTS
  p1 = p1
  p2 = p2
  r1 = r1
  None = None
  Publishers = {p1, p2}
  Readers = {r1}
  Keys = {1, 2, 3}
  Drafts <- MCDrafts
  States <- MCStates
  Formulas = {"v1"}
  Filters <- MCFilters
  Limit = 1
  MaxChanges = 3
  MaxPublications = 3
SYMMETRY MCSymmetry
INVARIANTS PublicationsAreMonotone PublicationsAreTrue ListingsAreExact
CHECK_DEADLOCK FALSE
