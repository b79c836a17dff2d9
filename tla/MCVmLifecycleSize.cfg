CONSTANTS
  MaxSessions = 1
  TotalPages = 131072
  Width = 1048576
  MaxIterations = 1
  HostMemory = 1
  MaxMachines = 1
  MaxMigrations = 1
  MaxVmMemory = 1
  MaxBackups = 2
  MaxJobs = 2
  MaxSnapshotId = 1
SPECIFICATION LifecycleSpec
INVARIANTS BackupSizeAsStated
