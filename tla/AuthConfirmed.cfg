SPECIFICATION Spec
CONSTANTS
  r1 = r1
  r2 = r2
  u1 = u1
  u2 = u2
  None = None
  Users = {u1}
  Tokens = {1, 2}
  Reqs = {r1, r2}
  Redis = TRUE
  MaxChanges = 1
  MaxEvents = 2
INVARIANT ConfirmedChangeWritten
CHECK_DEADLOCK FALSE
