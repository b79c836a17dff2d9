CONSTANTS
  MaxSessions = 2
  TotalPages = 131072
  Width = 1048576
  MaxIterations = 4
  HostMemory = 2
  MaxMachines = 2
  MaxMigrations = 3
  MaxVmMemory = 1
  MaxBackups = 2
  MaxJobs = 2
  MaxSnapshotId = 1
CONSTANTS
  Inf = Inf
  NaN = NaN
  Soft = Soft
  All = All
SPECIFICATION System

   
PROPERTIES
  DevicesAndLinks MigrationSound 
CHECK_DEADLOCK FALSE
