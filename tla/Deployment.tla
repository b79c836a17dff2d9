------------------------------- MODULE Deployment -------------------------------
(***************************************************************************)
(* How services are run, in five parts that share no state: the containers   *)
(* and volumes of services/container_manager.c, the containers of            *)
(* deployment-orchestration/container_orchestrator.c, the deployments of     *)
(* deployment-orchestration/deployment_manager.c, the registry of            *)
(* configuration-management/service_discovery.c and the keys of              *)
(* configuration-management/config_manager.c.  Names of services, limits,    *)
(* ports, variables, images, networks, stages and times are left out: no     *)
(* condition of the operations here reads them.                              *)
(***************************************************************************)
EXTENDS Integers, Sequences, FiniteSets, SequencesExt

CONSTANTS
  Width,              \* counters wrap modulo this, 2^32 in the code
  MaxContainers,      \* MAX_CONTAINERS
  MaxVolumes,         \* MAX_VOLUMES
  Memory,             \* memory limits containers are created with
  MaxRunning,         \* bound on running_container_count
  MaxReferences,      \* bound on the mounts outstanding
  MaxDeployments,     \* MAX_DEPLOYMENTS
  MaxTasks,           \* MAX_DEPLOYMENT_TASKS
  MaxServices,        \* MAX_SERVICES
  MaxInstances,       \* MAX_SERVICE_INSTANCES_PER_SERVICE
  MaxInstanceId,      \* bound on next_instance_id
  MaxEndpoints,       \* MAX_SERVICE_ENDPOINTS_PER_INSTANCE
  MaxConfigs,         \* MAX_CONFIGS
  MaxKeys,            \* MAX_CONFIG_KEYS_PER_CONFIG
  KeyName, KeyValue,  \* names and values of keys
  MaxConfigId         \* bound on next_config_id

VARIABLES
  containers, volumes, running_container_count, total_container_memory_mb,
  mounts,             \* history: successful mounts less successful unmounts
  uncounted,          \* history: a call left the count of running containers behind
  orchestrated,       \* states and health of the containers of the orchestrator
  running_containers, healthy_containers,
  deployments, active_deployments,
  miscounted,         \* history: a call left the count of active deployments behind
  services, next_instance_id, active_instances,
  lost,               \* history: instances of services that were destroyed
  configs, next_config_id

containerVars == <<containers, volumes, running_container_count, total_container_memory_mb, mounts, uncounted>>
orchestratorVars == <<orchestrated, running_containers, healthy_containers>>
deploymentVars == <<deployments, active_deployments, miscounted>>
discoveryVars == <<services, next_instance_id, active_instances, lost>>
configVars == <<configs, next_config_id>>
vars == <<containers, volumes, running_container_count, total_container_memory_mb, mounts, uncounted,
          orchestrated, running_containers, healthy_containers,
          deployments, active_deployments, miscounted,
          services, next_instance_id, active_instances, lost, configs, next_config_id>>

ContainerState == {"CREATED", "RUNNING", "PAUSED", "STOPPED"}
Container == [id : 1..MaxContainers, state : ContainerState, memory : Memory]
Volume == [id : 1..MaxVolumes, references : 0..MaxReferences]
OrchestratedContainer == [state : ContainerState, is_healthy : BOOLEAN]

DeploymentStatus == {"PENDING", "IN_PROGRESS", "FAILED", "ROLLED_BACK"}
TaskStatus == {"PENDING", "RUNNING", "COMPLETED", "FAILED"}
DeploymentRecord ==
  [status : DeploymentStatus, rollback : BOOLEAN, tasks : Seq(TaskStatus)]

Health == {"UNKNOWN", "UP", "DOWN"}
ServiceInstance == [health : Health, endpoints : 0..MaxEndpoints]
\* added: endpoints ever added; doubled: a healthy instance was counted twice or left uncounted (histories)
Service ==
  [instances : Seq(ServiceInstance), healthy : 0..(Width - 1), unhealthy : 0..(Width - 1),
   added : 0..(Width - 1), doubled : BOOLEAN]

ConfigKey == [name : KeyName, value : KeyValue, is_encrypted : BOOLEAN]
Config == [id : 1..MaxConfigId, keys : Seq(ConfigKey)]

TypeOK ==
  /\ containers \in Seq(Container) /\ Len(containers) <= MaxContainers
  /\ volumes \in Seq(Volume) /\ Len(volumes) <= MaxVolumes
  /\ running_container_count \in 0..MaxRunning /\ total_container_memory_mb \in Nat
  /\ mounts \in 0..MaxReferences /\ uncounted \in BOOLEAN
  /\ orchestrated \in Seq(OrchestratedContainer) /\ Len(orchestrated) <= MaxContainers
  /\ running_containers \in 0..(Width - 1) /\ healthy_containers \in 0..(Width - 1)
  /\ deployments \in Seq(DeploymentRecord) /\ Len(deployments) <= MaxDeployments
  /\ active_deployments \in 0..(Width - 1) /\ miscounted \in BOOLEAN
  /\ services \in Seq(Service) /\ Len(services) <= MaxServices
  /\ next_instance_id \in 1..(MaxInstanceId + 1) /\ active_instances \in 0..(Width - 1) /\ lost \in Nat
  /\ configs \in Seq(Config) /\ Len(configs) <= MaxConfigs /\ next_config_id \in 1..(MaxConfigId + 1)
  /\ \A c \in DOMAIN configs : Len(configs[c].keys) <= MaxKeys

Init ==
  /\ containers = << >> /\ volumes = << >> /\ running_container_count = 0 /\ total_container_memory_mb = 0
  /\ mounts = 0 /\ uncounted = FALSE
  /\ orchestrated = << >> /\ running_containers = 0 /\ healthy_containers = 0
  /\ deployments = << >> /\ active_deployments = 0 /\ miscounted = FALSE
  /\ services = << >> /\ next_instance_id = 1 /\ active_instances = 0 /\ lost = 0
  /\ configs = << >> /\ next_config_id = 1

Plus(a, b) == (a + b) % Width
Minus(a, b) == (a + Width - b) % Width

\* Lookups by id stop at the first entry; ids repeat after deletions.
FirstWith(list, id) == {i \in DOMAIN list : list[i].id = id /\ \A j \in 1..(i - 1) : list[j].id # id}

Active == {"RUNNING", "PAUSED"}

-----------------------------------------------------------------------------
(* Containers and volumes *)

container_create(memory) ==
  /\ Len(containers) < MaxContainers
  /\ containers' = Append(containers, [id |-> Len(containers) + 1, state |-> "CREATED", memory |-> memory])
  /\ total_container_memory_mb' = total_container_memory_mb + memory
  /\ UNCHANGED <<volumes, running_container_count, mounts, uncounted>>

OneLess == IF running_container_count > 0 THEN running_container_count - 1 ELSE 0

\* A paused container stays counted; what the container mounted stays mounted.
Delete(i) ==
  /\ containers' = RemoveAt(containers, i)
  /\ total_container_memory_mb' = total_container_memory_mb - containers[i].memory
  /\ running_container_count' = IF containers[i].state = "RUNNING" THEN OneLess ELSE running_container_count
  /\ uncounted' = (uncounted \/ containers[i].state = "PAUSED")
  /\ UNCHANGED <<volumes, mounts>>

container_delete(id) == \E i \in FirstWith(containers, id) : Delete(i)

SetContainer(i, state) ==
  /\ containers' = [containers EXCEPT ![i].state = state]
  /\ UNCHANGED <<volumes, total_container_memory_mb, mounts>>

\* A paused container that is started is counted again.
container_start(id) ==
  \E i \in FirstWith(containers, id) :
    /\ containers[i].state # "RUNNING" /\ running_container_count < MaxRunning
    /\ running_container_count' = running_container_count + 1
    /\ uncounted' = (uncounted \/ containers[i].state = "PAUSED")
    /\ SetContainer(i, "RUNNING")

\* A container that never ran is counted off, too.
container_stop(id) ==
  \E i \in FirstWith(containers, id) :
    /\ containers[i].state # "STOPPED"
    /\ running_container_count' = OneLess
    /\ uncounted' = (uncounted \/ containers[i].state = "CREATED")
    /\ SetContainer(i, "STOPPED")

container_pause(id) ==
  \E i \in FirstWith(containers, id) :
    /\ containers[i].state = "RUNNING" /\ SetContainer(i, "PAUSED")
    /\ UNCHANGED <<running_container_count, uncounted>>

container_resume(id) ==
  \E i \in FirstWith(containers, id) :
    /\ containers[i].state = "PAUSED" /\ SetContainer(i, "RUNNING")
    /\ UNCHANGED <<running_container_count, uncounted>>

\* RUNNING from any state, and not counted.
container_restart(id) ==
  \E i \in FirstWith(containers, id) :
    /\ uncounted' = (uncounted \/ containers[i].state \notin Active)
    /\ SetContainer(i, "RUNNING") /\ UNCHANGED running_container_count

container_volume_create ==
  /\ Len(volumes) < MaxVolumes
  /\ volumes' = Append(volumes, [id |-> Len(volumes) + 1, references |-> 0])
  /\ UNCHANGED <<containers, running_container_count, total_container_memory_mb, mounts, uncounted>>

Deletable(i) == volumes[i].references = 0

container_volume_delete(id) ==
  \E i \in FirstWith(volumes, id) :
    /\ Deletable(i) /\ volumes' = RemoveAt(volumes, i)
    /\ UNCHANGED <<containers, running_container_count, total_container_memory_mb, mounts, uncounted>>

container_volume_mount(container, id) ==
  \E i \in FirstWith(volumes, id) :
    /\ FirstWith(containers, container) # {} /\ mounts < MaxReferences
    /\ volumes' = [volumes EXCEPT ![i].references = @ + 1] /\ mounts' = mounts + 1
    /\ UNCHANGED <<containers, running_container_count, total_container_memory_mb, uncounted>>

\* Whichever container asks.
container_volume_unmount(id) ==
  \E i \in FirstWith(volumes, id) :
    /\ volumes[i].references > 0
    /\ volumes' = [volumes EXCEPT ![i].references = @ - 1] /\ mounts' = mounts - 1
    /\ UNCHANGED <<containers, running_container_count, total_container_memory_mb, uncounted>>

ContainersNext ==
  /\ \/ \E memory \in Memory : container_create(memory)
     \/ \E id \in 1..MaxContainers :
          \/ container_delete(id) \/ container_start(id) \/ container_stop(id)
          \/ container_pause(id) \/ container_resume(id) \/ container_restart(id)
          \/ \E volume \in 1..MaxVolumes : container_volume_mount(id, volume)
     \/ container_volume_create
     \/ \E id \in 1..MaxVolumes : container_volume_delete(id) \/ container_volume_unmount(id)
  /\ UNCHANGED <<orchestratorVars, deploymentVars, discoveryVars, configVars>>

-----------------------------------------------------------------------------
(* Containers of the orchestrator: ids are places, nothing is removed *)

orchestrator_container_create ==
  /\ Len(orchestrated) < MaxContainers
  /\ orchestrated' = Append(orchestrated, [state |-> "CREATED", is_healthy |-> FALSE])
  /\ UNCHANGED <<running_containers, healthy_containers>>

orchestrator_container_start(c) ==
  /\ orchestrated[c].state \in {"CREATED", "STOPPED"}
  /\ orchestrated' = [orchestrated EXCEPT ![c] = [state |-> "RUNNING", is_healthy |-> TRUE]]
  /\ running_containers' = Plus(running_containers, 1)
  /\ healthy_containers' = Plus(healthy_containers, 1)

Stoppable == Active

\* A stopped container stays marked healthy.
orchestrator_container_stop(c) ==
  /\ orchestrated[c].state \in Stoppable
  /\ orchestrated' = [orchestrated EXCEPT ![c].state = "STOPPED"]
  /\ running_containers' = Minus(running_containers, 1)
  /\ healthy_containers' = Minus(healthy_containers, IF orchestrated[c].is_healthy THEN 1 ELSE 0)

orchestrator_container_pause(c) ==
  /\ orchestrated[c].state = "RUNNING"
  /\ orchestrated' = [orchestrated EXCEPT ![c].state = "PAUSED"]
  /\ UNCHANGED <<running_containers, healthy_containers>>

orchestrator_container_resume(c) ==
  /\ orchestrated[c].state = "PAUSED"
  /\ orchestrated' = [orchestrated EXCEPT ![c].state = "RUNNING"]
  /\ UNCHANGED <<running_containers, healthy_containers>>

\* What orchestration_perform_health_check counts.
UnhealthyFound == {c \in DOMAIN orchestrated : orchestrated[c].state = "RUNNING" /\ ~orchestrated[c].is_healthy}

OrchestratorNext ==
  /\ \/ orchestrator_container_create
     \/ \E c \in DOMAIN orchestrated :
          \/ orchestrator_container_start(c) \/ orchestrator_container_stop(c)
          \/ orchestrator_container_pause(c) \/ orchestrator_container_resume(c)
  /\ UNCHANGED <<containerVars, deploymentVars, discoveryVars, configVars>>

-----------------------------------------------------------------------------
(* Deployments: ids are fresh, so that an id is a place *)

deployment_create ==
  /\ Len(deployments) < MaxDeployments
  /\ deployments' = Append(deployments, [status |-> "PENDING", rollback |-> FALSE, tasks |-> << >>])
  /\ UNCHANGED <<active_deployments, miscounted>>

\* An active deployment stays counted.
deployment_destroy(i) ==
  /\ deployments' = RemoveAt(deployments, i)
  /\ miscounted' = (miscounted \/ deployments[i].status = "IN_PROGRESS")
  /\ UNCHANGED active_deployments

deployment_add_task(i) ==
  /\ Len(deployments[i].tasks) < MaxTasks
  /\ deployments' = [deployments EXCEPT ![i].tasks = Append(@, "PENDING")]
  /\ UNCHANGED <<active_deployments, miscounted>>

CanStart(i) == deployments[i].status = "PENDING"

deployment_start(i) ==
  /\ CanStart(i)
  /\ deployments' = [deployments EXCEPT ![i].status = "IN_PROGRESS"]
  /\ active_deployments' = Plus(active_deployments, 1)
  /\ UNCHANGED miscounted

\* In a deployment of any status.
deployment_execute_task(i, t) ==
  /\ deployments[i].tasks[t] = "PENDING"
  /\ deployments' = [deployments EXCEPT ![i].tasks[t] = "RUNNING"]
  /\ UNCHANGED <<active_deployments, miscounted>>

\* For a task of any status in a deployment of any status; a failed deployment stays
\* counted as active.
deployment_mark_task_complete(i, t, succeeded) ==
  /\ deployments' =
       IF succeeded THEN [deployments EXCEPT ![i].tasks[t] = "COMPLETED"]
       ELSE [deployments EXCEPT ![i].tasks[t] = "FAILED", ![i].status = "FAILED"]
  /\ miscounted' = (miscounted \/ (~succeeded /\ deployments[i].status = "IN_PROGRESS"))
  /\ UNCHANGED active_deployments

\* From any status, and as often as it is called.
deployment_rollback(i) ==
  /\ deployments[i].rollback
  /\ deployments' = [deployments EXCEPT ![i].status = "ROLLED_BACK"]
  /\ active_deployments' = Minus(active_deployments, 1)
  /\ miscounted' = (miscounted \/ deployments[i].status # "IN_PROGRESS")

deployment_enable_rollback(i) ==
  /\ deployments' = [deployments EXCEPT ![i].rollback = TRUE]
  /\ UNCHANGED <<active_deployments, miscounted>>

DeploymentsNext ==
  /\ \/ deployment_create
     \/ \E i \in DOMAIN deployments :
          \/ deployment_destroy(i) \/ deployment_add_task(i) \/ deployment_start(i)
          \/ deployment_rollback(i) \/ deployment_enable_rollback(i)
          \/ \E t \in DOMAIN deployments[i].tasks :
               \/ deployment_execute_task(i, t)
               \/ \E succeeded \in BOOLEAN : deployment_mark_task_complete(i, t, succeeded)
  /\ UNCHANGED <<containerVars, orchestratorVars, discoveryVars, configVars>>

-----------------------------------------------------------------------------
(* Service discovery *)

service_create ==
  /\ Len(services) < MaxServices
  /\ services' = Append(services, [instances |-> << >>, healthy |-> 0, unhealthy |-> 0, added |-> 0, doubled |-> FALSE])
  /\ UNCHANGED <<next_instance_id, active_instances, lost>>

\* Its instances stay counted as active.
service_destroy(s) ==
  /\ services' = RemoveAt(services, s)
  /\ lost' = lost + Len(services[s].instances)
  /\ UNCHANGED <<next_instance_id, active_instances>>

service_instance_register(s) ==
  /\ Len(services[s].instances) < MaxInstances /\ next_instance_id <= MaxInstanceId
  /\ services' = [services EXCEPT ![s].instances = Append(@, [health |-> "UNKNOWN", endpoints |-> 0])]
  /\ next_instance_id' = next_instance_id + 1
  /\ active_instances' = Plus(active_instances, 1) /\ UNCHANGED lost

\* A healthy instance stays counted in its service.
service_instance_deregister(s, j) ==
  /\ services' = [services EXCEPT ![s].instances = RemoveAt(@, j),
                                  ![s].doubled = @ \/ services[s].instances[j].health = "UP"]
  /\ active_instances' = Minus(active_instances, 1) /\ UNCHANGED <<next_instance_id, lost>>

\* Each endpoint counts its instance as healthy once more.
service_instance_add_endpoint(s, j) ==
  /\ services[s].instances[j].endpoints < MaxEndpoints /\ services[s].added + 1 < Width
  /\ services' = [services EXCEPT ![s].instances[j].endpoints = @ + 1, ![s].instances[j].health = "UP",
                                  ![s].healthy = Plus(@, 1), ![s].added = @ + 1,
                                  ![s].doubled = @ \/ services[s].instances[j].health = "UP"]
  /\ UNCHANGED <<next_instance_id, active_instances, lost>>

Recount(service, was, health) ==
  IF was = "UP" /\ health # "UP"
  THEN [service EXCEPT !.healthy = Minus(@, 1), !.unhealthy = Plus(@, 1)]
  ELSE IF was # "UP" /\ health = "UP"
  THEN [service EXCEPT !.healthy = Plus(@, 1), !.unhealthy = Minus(@, 1)]
  ELSE service

service_instance_update_health(s, j, health) ==
  /\ services' = [services EXCEPT ![s] = [Recount(services[s], services[s].instances[j].health, health) EXCEPT
                                              !.instances[j].health = health]]
  /\ UNCHANGED <<next_instance_id, active_instances, lost>>

DiscoveryNext ==
  /\ \/ service_create
     \/ \E s \in DOMAIN services :
          \/ service_destroy(s) \/ service_instance_register(s)
          \/ \E j \in DOMAIN services[s].instances :
               \/ service_instance_deregister(s, j) \/ service_instance_add_endpoint(s, j)
               \/ \E health \in Health : service_instance_update_health(s, j, health)
  /\ UNCHANGED <<containerVars, orchestratorVars, deploymentVars, configVars>>

-----------------------------------------------------------------------------
(* Configurations and their keys *)

config_create ==
  /\ Len(configs) < MaxConfigs /\ next_config_id <= MaxConfigId
  /\ configs' = Append(configs, [id |-> next_config_id, keys |-> << >>])
  /\ next_config_id' = next_config_id + 1

config_destroy(c) == configs' = RemoveAt(configs, c) /\ UNCHANGED next_config_id

\* A name that is there is not replaced: the new key comes behind it.
NewKey(keys, key) == Append(keys, key)

config_set_key(c, name, value) ==
  /\ Len(configs[c].keys) < MaxKeys
  /\ configs' = [configs EXCEPT ![c].keys = NewKey(@, [name |-> name, value |-> value, is_encrypted |-> FALSE])]
  /\ UNCHANGED next_config_id

\* The place of the first key of the name, which config_get_key and the calls below find.
FirstKey(keys, name) == {k \in DOMAIN keys : keys[k].name = name /\ \A j \in 1..(k - 1) : keys[j].name # name}

config_delete_key(c, name) ==
  /\ \E k \in FirstKey(configs[c].keys, name) : configs' = [configs EXCEPT ![c].keys = RemoveAt(@, k)]
  /\ UNCHANGED next_config_id

config_key_encrypt(c, name) ==
  /\ \E k \in FirstKey(configs[c].keys, name) : configs' = [configs EXCEPT ![c].keys[k].is_encrypted = TRUE]
  /\ UNCHANGED next_config_id

ConfigsNext ==
  /\ \/ config_create
     \/ \E c \in DOMAIN configs :
          \/ config_destroy(c)
          \/ \E name \in KeyName :
               \/ \E value \in KeyValue : config_set_key(c, name, value)
               \/ config_delete_key(c, name) \/ config_key_encrypt(c, name)
  /\ UNCHANGED <<containerVars, orchestratorVars, deploymentVars, discoveryVars>>

ConfigsSpec == Init /\ [][ConfigsNext]_vars
ContainersSpec == Init /\ [][ContainersNext]_vars
OrchestratorSpec == Init /\ [][OrchestratorNext]_vars
DeploymentsSpec == Init /\ [][DeploymentsNext]_vars
DiscoverySpec == Init /\ [][DiscoveryNext]_vars

-----------------------------------------------------------------------------

\* running_container_count is the number of running and paused containers and the
\* memory total their sum, until a call is made that the count does not follow: a
\* stop before the first start, a start of a paused container, a restart of one
\* that is not running, or the deletion of a paused one.
ContainersCounted ==
  /\ ~uncounted => running_container_count = Cardinality({i \in DOMAIN containers : containers[i].state \in Active})
  /\ total_container_memory_mb = FoldSeq(LAMBDA c, sum : c.memory + sum, 0, containers)

\* No mounted volume is deleted, although volumes come to share ids: the mounts
\* outstanding are all found in the table (container_volume_delete).
MountsKept == mounts = FoldSeq(LAMBDA v, sum : v.references + sum, 0, volumes)

\* The orchestrator's two counters agree with the containers through any number of
\* starts, stops and pauses, and a health check never finds an unhealthy container.
OrchestratorCounted ==
  /\ running_containers = Cardinality({c \in DOMAIN orchestrated : orchestrated[c].state \in Active})
  /\ healthy_containers = running_containers
  /\ UnhealthyFound = {}

\* A failed task is not forgotten: whatever was reported before, a deployment with
\* a failed task is neither waiting nor in progress, so it cannot be started
\* (deployment_mark_task_complete, deployment_start).
FailureSticks ==
  \A i \in DOMAIN deployments :
    (\E t \in DOMAIN deployments[i].tasks : deployments[i].tasks[t] = "FAILED") =>
      deployments[i].status \in {"FAILED", "ROLLED_BACK"}

\* active_deployments is the number of deployments in progress until one fails, is
\* destroyed in progress, or is rolled back when it is not in progress: no such call
\* keeps the count (deployment_rollback takes one off each time).
ActiveCounted ==
  ~miscounted => active_deployments = Cardinality({i \in DOMAIN deployments : deployments[i].status = "IN_PROGRESS"})

\* The healthy and the unhealthy counter of a service add up to the endpoints ever
\* added to it, not to its instances.  The healthy counter alone is the number of
\* instances that are UP until a healthy instance gets a second endpoint or is
\* deregistered.
HealthCounted ==
  \A s \in DOMAIN services :
    /\ Plus(services[s].healthy, services[s].unhealthy) = services[s].added
    /\ ~services[s].doubled =>
         services[s].healthy = Cardinality({j \in DOMAIN services[s].instances : services[s].instances[j].health = "UP"})

\* active_instances is the number of instances of all services, destroyed ones
\* included.
InstancesCounted ==
  active_instances = FoldSeq(LAMBDA s, sum : Len(s.instances) + sum, 0, services) + lost

ShownStays(keys, later, name) ==
  \A k \in FirstKey(keys, name) : \E l \in FirstKey(later, name) :
    later[l].value = keys[k].value /\ (keys[k].is_encrypted => later[l].is_encrypted)

\* A name of a configuration keeps the value config_get_key shows, and stays
\* encrypted, until a key of that name is deleted from it: setting the name again
\* (config_set_key), changing other names or configurations and moving this one in
\* the table do not show.
SettingsStand ==
  [][\A c \in DOMAIN configs, d \in DOMAIN configs' :
       LET keys == configs[c].keys  later == configs'[d].keys
           changed == {name \in KeyName : ~ShownStays(keys, later, name)}
       IN configs[c].id = configs'[d].id => Cardinality(changed) <= IF Len(later) < Len(keys) THEN 1 ELSE 0]_configs

=============================================================================
