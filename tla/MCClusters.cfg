CONSTANTS
  MaxBackendServers = 2
  MaxServerId = 3
  MaxRequests = 4
  Weights = {0, 2}
  MaxConnections = 2
  MaxClients = 3
  ConnectionId = {"c1", "c2"}
  SessionData = {"a", "b"}
  Flow = {"f1", "f2"}
  Class = {"best", "bulk"}
  BestEffort = "best"
  MaxRules = 3
  MaxLimiters = 2
  MaxBurst = 2
  MaxRuleId = 4
  MaxNodes = 3
  MaxUptime = 2
SPECIFICATION System
INVARIANTS
  TypesOK SharesFair
PROPERTIES
   FailoverSound
CHECK_DEADLOCK FALSE
