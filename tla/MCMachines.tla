---------------------------- MODULE MCMachines ----------------------------
(*****************************************************************************)
(* Virtual machines, real-time tasks, devices, the network stack,            *)
(* containers and deployments for TLC. The components share no state: no     *)
(* function of one touches another, so their steps interleave freely and     *)
(* each property speaks of one of them. A behaviour therefore exercises one  *)
(* component, and a run has the sum of their states instead of the product.  *)
(*****************************************************************************)
EXTENDS LiveMigration

CONSTANTS Inf, NaN, Soft, All

VARIABLES
  subject,   \* the component this behaviour exercises
  vm_memory, vcpus, total_memory_allocated_mb, pools, reservation_count,
  overwritten, reserved, kinds, requests, allocations, next_pool_id,
  next_request_id, overrun, holed, again, allocators,
  realtime_tasks, reservation, finite, admitted, timers, newest_first,
  tasks_tasks, queues, current, pinned, periodic, aperiodic, next_deadline_task_id,
  tasks_missed_deadline,
  drivers, instances, call, stray, initialised, forgotten,
  sockets, connections, connects, missed, streams, allocated, spilled, entries,
  accepted, age,
  containers, volumes, running_container_count, total_container_memory_mb, mounts,
  uncounted, orchestrated, running_containers, healthy_containers, deployments,
  active_deployments, miscounted, services, next_instance_id, active_instances,
  lost, configs, next_config_id

Resources == INSTANCE ResourcePools WITH
  MaxVms <- 2, MaxVcpus <- 4, Capacity <- 6, PoolCount <- 2, Amounts <- {1, 2},
  MaxReservations <- 1, Kind <- {"cpu", "memory"}, RoomOf <- {3}, MaxPools <- 2,
  MaxRequests <- 2, MaxAllocations <- 3, MaxId <- 2, MaxAllocators <- 2, MaxEvents <- 3,
  Total <- 3

Realtime == INSTANCE Realtime WITH
  TaskId <- {"t1", "t2", "t3"}, Util <- {30, 60, 20, Inf}, MaxTasks <- 2, MaxTimers <- 4,
  tasks <- realtime_tasks

Tasks == INSTANCE TaskScheduler WITH
  CoreCount <- 2, MaxTasks <- 2, Masks <- {{0}, {}}, AllCores <- All, MaxSlices <- 2,
  MaxPeriodic <- 2, MaxAperiodic <- 1, Width <- 4, Arrival <- {3}, Relative <- {0, 1},
  Period <- {0, 2}, Computation <- {1, 2}, MaxMissed <- 3, tasks <- tasks_tasks

Devices == INSTANCE DeviceDriver WITH
  MaxDrivers <- 2, MaxInstances <- 3,
  Ops <- {{"initialize", "cleanup", "read", "write", "ioctl"}, {"initialize", "read"}}

Network == INSTANCE NetworkStack WITH
  MaxSockets <- 2, MaxConnections <- 3, MaxConnects <- 4, MaxStreams <- 3, Buffer <- 1..7,
  Ip <- {1, 2, 3}, Mac <- {1, 2}, MaxEntries <- 3, Ttl <- 2

Services == INSTANCE Deployment WITH
  Width <- 8, MaxContainers <- 2, MaxVolumes <- 2, Memory <- {1, 2}, MaxRunning <- 2,
  MaxReferences <- 2, MaxDeployments <- 2, MaxTasks <- 2, MaxServices <- 2,
  MaxInstances <- 2, MaxInstanceId <- 3, MaxEndpoints <- 2, MaxConfigs <- 2, MaxKeys <- 2,
  KeyName <- {"host", "port"}, KeyValue <- {"a", "b"}, MaxConfigId <- 3

resourcesVars == <<
  vm_memory, vcpus, total_memory_allocated_mb, pools, reservation_count,
  overwritten, reserved, kinds, requests, allocations, next_pool_id,
  next_request_id, overrun, holed, again, allocators>>

realtimeVars == <<
  realtime_tasks, reservation, finite, admitted, timers, newest_first>>

tasksVars == <<
  tasks_tasks, queues, current, pinned, periodic, aperiodic, next_deadline_task_id,
  tasks_missed_deadline>>

devicesVars == <<
  drivers, instances, call, stray, initialised, forgotten>>

networkVars == <<
  sockets, connections, connects, missed, streams, allocated, spilled, entries,
  accepted, age>>

servicesVars == <<
  containers, volumes, running_container_count, total_container_memory_mb, mounts,
  uncounted, orchestrated, running_containers, healthy_containers, deployments,
  active_deployments, miscounted, services, next_instance_id, active_instances,
  lost, configs, next_config_id>>

all == <<subject, vars, resourcesVars, realtimeVars, tasksVars, devicesVars, networkVars, servicesVars>>

Start ==
  /\ subject \in {"migration", "host", "lifecycle", "resources", "allocator", "amounts", "tasks", "timers", "deadlines", "cycles", "devices", "sockets", "streams", "arp", "containers", "orchestrator", "deployments", "discovery"}
  /\ Init /\ Resources!Init /\ Realtime!Init /\ Tasks!Init /\ Devices!Init /\ Network!Init /\ Services!Init

\* One component moves, the others wait in their initial states.
Step ==
  \/ subject = "migration" /\ SessionsNext /\ UNCHANGED <<subject, resourcesVars, realtimeVars, tasksVars, devicesVars, networkVars, servicesVars>>
  \/ subject = "host" /\ HostNext /\ UNCHANGED <<subject, resourcesVars, realtimeVars, tasksVars, devicesVars, networkVars, servicesVars>>
  \/ subject = "lifecycle" /\ LifecycleNext /\ UNCHANGED <<subject, resourcesVars, realtimeVars, tasksVars, devicesVars, networkVars, servicesVars>>
  \/ subject = "resources" /\ Resources!VmNext /\ UNCHANGED <<subject, vars, realtimeVars, tasksVars, devicesVars, networkVars, servicesVars>>
  \/ subject = "allocator" /\ Resources!AllocatorNext /\ UNCHANGED <<subject, vars, realtimeVars, tasksVars, devicesVars, networkVars, servicesVars>>
  \/ subject = "amounts" /\ Resources!ServiceNext /\ UNCHANGED <<subject, vars, realtimeVars, tasksVars, devicesVars, networkVars, servicesVars>>
  \/ subject = "tasks" /\ Realtime!TaskNext /\ UNCHANGED <<subject, vars, resourcesVars, tasksVars, devicesVars, networkVars, servicesVars>>
  \/ subject = "timers" /\ Realtime!TimerNext /\ UNCHANGED <<subject, vars, resourcesVars, tasksVars, devicesVars, networkVars, servicesVars>>
  \/ subject = "deadlines" /\ Tasks!DeadlinesNext /\ UNCHANGED <<subject, vars, resourcesVars, realtimeVars, devicesVars, networkVars, servicesVars>>
  \/ subject = "cycles" /\ Tasks!QueuesNext /\ UNCHANGED <<subject, vars, resourcesVars, realtimeVars, devicesVars, networkVars, servicesVars>>
  \/ subject = "devices" /\ Devices!Next /\ UNCHANGED <<subject, vars, resourcesVars, realtimeVars, tasksVars, networkVars, servicesVars>>
  \/ subject = "sockets" /\ Network!SocketsNext /\ UNCHANGED <<subject, vars, resourcesVars, realtimeVars, tasksVars, devicesVars, servicesVars>>
  \/ subject = "streams" /\ Network!StreamsNext /\ UNCHANGED <<subject, vars, resourcesVars, realtimeVars, tasksVars, devicesVars, servicesVars>>
  \/ subject = "arp" /\ Network!ArpNext /\ UNCHANGED <<subject, vars, resourcesVars, realtimeVars, tasksVars, devicesVars, servicesVars>>
  \/ subject = "containers" /\ Services!ContainersNext /\ UNCHANGED <<subject, vars, resourcesVars, realtimeVars, tasksVars, devicesVars, networkVars>>
  \/ subject = "orchestrator" /\ Services!OrchestratorNext /\ UNCHANGED <<subject, vars, resourcesVars, realtimeVars, tasksVars, devicesVars, networkVars>>
  \/ subject = "deployments" /\ Services!DeploymentsNext /\ UNCHANGED <<subject, vars, resourcesVars, realtimeVars, tasksVars, devicesVars, networkVars>>
  \/ subject = "discovery" /\ Services!DiscoveryNext /\ UNCHANGED <<subject, vars, resourcesVars, realtimeVars, tasksVars, devicesVars, networkVars>>

System == Start /\ [][Step]_all

-----------------------------------------------------------------------------

\* What a machine talks through stays in order: a driver is asked to
\* initialise, use and clean up a device in that order and is there while its
\* devices are open, unless it was unloaded under them; its count of devices is
\* exact. Every connect is remembered, TCP streams own their buffers whatever
\* allocation fails, and the ARP table answers with the last address it
\* accepted until that has aged.
DevicesAndLinks ==
  /\ Devices!CallsInOrder
  /\ []Devices!DeviceCountExact
  /\ []Devices!UsedIsRegistered
  /\ []Network!ConnectionsRemembered
  /\ []Network!BuffersOwned
  /\ []Network!ArpFollowsAdds

\* Memory and processors are conserved: the total is the sum of the machines,
\* on the host of the virtualization service too, every pool accounts for what
\* it gave and reserved, and a running machine has a processor. The allocator's
\* pools hold what their allocations took, at addresses that do not overlap
\* while they are released last first, and a request is served once unless it
\* is asked for again. Containers, mounts, deployments and service instances
\* are counted as they are until one of the calls their parts name is made; no
\* mounted volume is deleted, and a deployment with a failed task is not
\* started.
ResourcesConserved ==
  /\ Resources!PoolConserved
  /\ HostMemoryExact
  /\ Resources!TotalExact
  /\ Resources!RunningHasVcpu
  /\ Resources!AllocationsConserved
  /\ Resources!BasesDisjoint
  /\ Resources!ServedOnce
  /\ Resources!RoomFollowsReleases
  /\ Services!ContainersCounted
  /\ Services!MountsKept
  /\ Services!OrchestratorCounted
  /\ Services!FailureSticks
  /\ Services!ActiveCounted
  /\ Services!HealthCounted
  /\ Services!InstancesCounted

\* The reservation is the sum over the tasks, tasks admitted together fit on
\* the processor, and live timers have different ids unless one in the middle
\* was deleted. Tasks with deadlines: what a completed task did stays, one
\* marked infeasible belongs to a set that overloads the processor, and misses
\* are true and counted. A task that is current on two cores gets one slice a
\* cycle, the current place of a run queue has a task, and tasks free to run
\* anywhere fill the first two queues in turn.
RealtimeConsistent ==
  /\ Tasks!CompletedIsFinal
  /\ Tasks!DispatchedOnce
  /\ []Tasks!CurrentInside
  /\ []Tasks!DefaultsBalanced
  /\ []Tasks!InfeasibleIsTrue
  /\ []Tasks!MissesSound
  /\ []Realtime!AdmittedFit
  /\ []Realtime!ReservationIsSum
  /\ []Realtime!TimerIdsUnique

\* Every component stays within its types and the sizes of its tables.
TypesOK == TypeOK /\ Resources!TypeOK /\ Realtime!TypeOK /\ Tasks!TypeOK /\ Devices!TypeOK /\ Network!TypeOK /\ Services!TypeOK
=============================================================================
