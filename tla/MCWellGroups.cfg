SPECIFICATION Spec
CONSTANTS
  w1 = w1
  w2 = w2
  d2 = d2
  g1 = g1
  field = FIELD
  d1 = d1
  MaxSteps = 2
  MaxPerKeyword = 1
  Group = {field, g1, NoGroup}
  Root = field
  Well = {w1, w2}
  NoGroup = NoGroup
  WellData = {d1, d2}
SYMMETRY Names
CONSTRAINT FewNames
INVARIANTS MembershipAgrees DefinedWhenUsed TreesAreRooted OnlyCutOffGroupsMissing
PROPERTIES PastIsFrozen
CHECK_DEADLOCK FALSE
