SPECIFICATION Spec
CONSTANTS
  r1 = r1
  r2 = r2
  u1 = u1
  u2 = u2
  None = None
  Users = {u1, u2}
  Tokens = {1, 2, 3}
  Reqs = {r1, r2}
  Redis = TRUE
  MaxChanges = 1
  MaxEvents = 1
SYMMETRY Symmetry
INVARIANTS TypeOK EndedNeverValid
PROPERTIES OthersUntouched LoginStoresSession
CHECK_DEADLOCK FALSE
