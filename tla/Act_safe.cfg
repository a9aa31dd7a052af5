CONSTANTS
  k1 = k1  k2 = k2  r1 = r1  r2 = r2  d1 = d1  d2 = d2
  Rows = {r1, r2}
  Drafts = {d1}
  Existing = {}
  Clients = {k1, k2}
  MaxPlans = 2
  Free = Free  NoRow = NoRow  NoDraft = NoDraft
SPECIFICATION Spec
INVARIANTS TypeOK ApprovedWasValidated ApprovedPlanIsCurrent AppliedWasWritten
PROPERTIES StatusesStay BlockedLoopStays
SYMMETRY Symmetry
