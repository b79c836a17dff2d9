CONSTANTS
  Node = {1, 2}
  MaxTerm = 2
  MaxLog = 3
  MaxPeers = 2
  MaxVotes = 3
CONSTANTS
  MaxDistLog = 2
  MaxSent = 2
  MaxNodes = 2
  MaxEvents = 2
  MaxId = 2
  MaxSessions = 2
  MaxReplicas = 3
  MaxReplicationLog = 2
  ReplicaId = {0, 1}
  MaxSessionId = 2
  MaxEntryId = 3
SPECIFICATION System
INVARIANTS
  TypesOK OneVotePerTerm RolesConsistent
PROPERTIES
  VoteStands NothingRetreats
CHECK_DEADLOCK FALSE
