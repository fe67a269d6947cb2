SPECIFICATION ServicesSpec
CONSTANTS
  Consumers = {"k1", "k2"}
  Messages = {"m1"}
  Pings = {"g1"}
  MaxReconnectTries = 2
  MaxFaults = 1
  NoConn = NoConn
  Conns = {"s1", "s2"}
  UserOf <- MCUserOf
  Topics = {"t1"}
  Casters = {"b1"}
  Buffer = 1
  MaxBroadcasts = 2
  NoOne = NoOne
  Instances = {"i1", "i2"}
  WatchRules <- MCWatchRules
  Removable <- MCRemovable
  WatchBuffer = 2
  Configs <- MCConfigs
  Requests = {"q1"}
  MaxTime = 21
  Deps = {"database", "cache", "queue", "authz"}
  ReadinessTimeout = 1
  Heartbeat = 2
  MaxFlips = 1
  Recipients = 1
  j1 = j1
  j2 = j2
  c1 = c1
  u1 = u1
  p1 = p1
  admin = admin
  r1 = r1
  a1 = a1
  Star = Star
  None = None
INVARIANTS
  ServicesTypeOK
  NoLeakedConnection NoSendOnClosed 
PROPERTIES
  ReconnectSettles StreamsDrainAndEnd AddsReachAll ShutdownReturns
  ReadinessAnswers SendReturns ShutdownTerminates JobSettles Converges
CHECK_DEADLOCK FALSE
