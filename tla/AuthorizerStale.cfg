SPECIFICATION Spec
CONSTANTS
  u1 = u1
  u2 = u2
  p1 = p1
  p2 = p2
  admin = admin
  r1 = r1
  r2 = r2
  a1 = a1
  a2 = a2
  None = None
  Star = Star
  Roles = {admin}
  Users = {u1}
  Perms = {p1}
  DirectSubjects = {u1, admin}
  Grantable = {p1}
  Seed <- SeedRole
  Reqs = {r1}
  Admins = {a1}
  MaxSize = 1
  MaxChanges = 1
  MaxOutside = 0
SYMMETRY Symmetry
INVARIANT NoStaleWindow
CHECK_DEADLOCK FALSE
