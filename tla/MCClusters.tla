---------------------------- MODULE MCClusters ----------------------------
(*****************************************************************************)
(* Distributed data, membership and traffic for TLC. The components share    *)
(* no state: no function of one touches another, so their steps interleave   *)
(* freely and each property speaks of one of them. A behaviour therefore     *)
(* exercises one component, and a run has the sum of their states instead    *)
(* of the product.                                                           *)
(*****************************************************************************)
EXTENDS ClusterServices

VARIABLES
  subject,   \* the component this behaviour exercises
  cache_nodes, now, latest,
  blocks, replicas, jobs,
  containers, volumes, running_container_count, total_container_memory_mb, mounts,
  uncounted, orchestrated, running_containers, healthy_containers, deployments,
  active_deployments, miscounted, services, next_instance_id, active_instances,
  lost, configs, next_config_id

Cache == INSTANCE DistCache WITH
  Key <- {1, 2}, Value <- {"v1", "v2"}, Hash <- [k \in {1, 2} |-> k],
  Size <- [v \in {"v1", "v2"} |-> IF v = "v1" THEN 1 ELSE 2], Parts <- 1, MaxNodes <- 2,
  MaxEntries <- 2, TTL <- {0, 1}, MaxTime <- 2, None <- "none", nodes <- cache_nodes

Store == INSTANCE DistStorage WITH
  Key <- {"k1", "k2"}, Value <- {"v1", "v2"}, MaxBlocks <- 3, MaxReplicas <- 1,
  MaxJobs <- 2, Factor <- 2

Settings == INSTANCE Deployment WITH
  Width <- 8, MaxContainers <- 2, MaxVolumes <- 2, Memory <- {1, 2}, MaxRunning <- 2,
  MaxReferences <- 2, MaxDeployments <- 2, MaxTasks <- 2, MaxServices <- 2,
  MaxInstances <- 2, MaxInstanceId <- 3, MaxEndpoints <- 2, MaxConfigs <- 2, MaxKeys <- 2,
  KeyName <- {"host", "port"}, KeyValue <- {"a", "b"}, MaxConfigId <- 3

cacheVars == <<
  cache_nodes, now, latest>>

storeVars == <<
  blocks, replicas, jobs>>

settingsVars == <<
  containers, volumes, running_container_count, total_container_memory_mb, mounts,
  uncounted, orchestrated, running_containers, healthy_containers, deployments,
  active_deployments, miscounted, services, next_instance_id, active_instances,
  lost, configs, next_config_id>>

all == <<subject, vars, cacheVars, storeVars, electionVars, settingsVars>>

\* A component that is not exercised waits in one of its initial states.
Start ==
  /\ subject \in {"balancer", "service", "sessions", "shaper", "cache", "store", "election", "settings"}
  /\ Init /\ Cache!Init /\ Store!Init /\ Election!Init /\ Settings!Init
  /\ subject # "balancer" => algorithm = "RANDOM"

\* One component moves, the others wait in their initial states.
Step ==
  \/ subject = "balancer" /\ PoolNext /\ UNCHANGED <<subject, cacheVars, storeVars, electionVars, settingsVars>>
  \/ subject = "service" /\ BalancerNext /\ UNCHANGED <<subject, cacheVars, storeVars, electionVars, settingsVars>>
  \/ subject = "sessions" /\ SessionsNext /\ UNCHANGED <<subject, cacheVars, storeVars, electionVars, settingsVars>>
  \/ subject = "shaper" /\ ShaperNext /\ UNCHANGED <<subject, cacheVars, storeVars, electionVars, settingsVars>>
  \/ subject = "cache" /\ Cache!Next /\ UNCHANGED <<subject, vars, storeVars, electionVars, settingsVars>>
  \/ subject = "store" /\ Store!Next /\ UNCHANGED <<subject, vars, cacheVars, electionVars, settingsVars>>
  \/ subject = "election" /\ Election!Next /\ UNCHANGED <<subject, vars, cacheVars, storeVars, settingsVars>>
  \/ subject = "settings" /\ Settings!ConfigsNext /\ UNCHANGED <<subject, vars, cacheVars, storeVars, electionVars>>

System == Start /\ [][Step]_all

-----------------------------------------------------------------------------

\* A read of the cache returns the last value put and not deleted since, or
\* nothing, as long as no node joined or left, and partitions count what they
\* hold. Only a write or a deletion changes what a read returns: expiry and
\* tombstone cleanups are invisible, a stored key keeps its oldest value until
\* that is deleted, and of its blocks only the first is ever a tombstone. A key
\* of a configuration keeps its value, too, until it is deleted.
ReadsAreStable ==
  /\ Store!CleanupInvisible
  /\ Settings!SettingsStand
  /\ Cache!CleanupInvisible
  /\ Store!OldestWriteStays
  /\ []Store!TombstoneFirst
  /\ Store!FailedComesBackWhole
  /\ []Cache!ReadsLatest
  /\ []Cache!PartitionAccounting

\* Every component stays within its types and the sizes of its tables.
TypesOK == TypeOK /\ Cache!TypeOK /\ Store!TypeOK /\ Election!TypeOK /\ Settings!TypeOK
=============================================================================
