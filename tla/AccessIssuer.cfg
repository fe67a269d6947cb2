SPECIFICATION RecordsSpec
CONSTANTS
  Accounts = {"a1"}
  Calls = {"c1", "c2"}
  Emails = {"e1", "e2"}
  NoRow = NoRow
  Unset = Unset
  RowIds = {1, 2, 3, 4, 5}
  Limits = {0, 1, 2, 9}
  DefaultLimit = 2
  MaxLimit = 3
  NoCursor = NoCursor
  Files = {"f1"}
  Readers = {"g1"}
  Deleters = {"d1"}
  Dirs <- MCDirs
  NoFile = NoFile
  LogRows = {1, 2, 3, 4, 5, 6, 7}
  AgeOf <- MCAgeOf
  Jobs = {"j1", "j2"}
  RetentionOf <- MCRetentionOf
  DefaultDays = 90
  BatchSize = 2
  Seeders = {"s1", "s2"}
  SeedUsers = 2
  SeedRules = 1
  People = {"u"}
  Visits = {"v"}
  Lifetime = 1
  LastTick = 1
  MaxTokens = 1
  ConfigFiles <- MCConfigFiles
  Environments <- MCEnvironments
  Nobody = Nobody
  LimitKeys = {"k"}
  MaxHits = 2
  Window = 3
  Hits = {"h1", "h2"}
  UseSites <- MCUseSites
  MaxTime = 4
  MaxAdmitted = 3
  NoCall = NoCall
  u1 = u1
  u2 = u2
  p1 = p1
  p2 = p2
  Users = {u1, u2}
  Perms = {p1, p2}
  MaxSize = 3
  None = None
  SessionUsers = {u1}
  SessionTokens = {1, 2, 3}
  SessionReqs = {"r1", "r2"}
PROPERTY SignedTokenAccepted
CHECK_DEADLOCK FALSE
