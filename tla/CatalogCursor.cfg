\* One generation with a value of every kind, read page by page.
SPECIFICATION Spec
CONSTANTS
  p1 = p1
  p2 = p2
  r1 = r1
  None = None
  Publishers = {p1}
  Readers = {r1}
  Keys = {1, 2, 3}
  Drafts <- MCDrafts
  States <- MCStates
  Formulas = {"v1"}
  Filters <- MCFilters
  Limit = 1
  MaxChanges = 1
  MaxPublications = 1
PROPERTIES NextCursorsAreServed
CHECK_DEADLOCK FALSE
