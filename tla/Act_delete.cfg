CONSTANTS
  k1 = k1  k2 = k2  r1 = r1  r2 = r2  d1 = d1  d2 = d2
  Rows = {r1}
  Drafts = {d1, d2}
  Existing = {d2}
  Clients = {k1}
  MaxPlans = 2
  Free = Free  NoRow = NoRow  NoDraft = NoDraft
SPECIFICATION Spec
PROPERTIES AppliedNotDeleted
SYMMETRY Symmetry
