--------------------------- MODULE ClusterElection ---------------------------
(***************************************************************************)
(* One cluster of distributed-systems/cluster_manager.c: nodes that join,   *)
(* beat, fail and are reported in any state, and the elections of a master  *)
(* and a replica by uptime.  Nodes are never removed, so a node's id is its *)
(* place in the table.                                                      *)
(***************************************************************************)
EXTENDS Naturals, Sequences

CONSTANTS
  MaxNodes,     \* MAX_CLUSTER_NODES
  MaxUptime     \* bound on uptime_seconds

VARIABLES
  nodes,            \* role, health_state and uptime_seconds of each node
  master_node_id,   \* 0 for none
  replica_node_id,
  call              \* the function that made the last step, for the properties

vars == <<nodes, master_node_id, replica_node_id, call>>

\* Of the states that are neither healthy nor offline one stands for all.
Health == {"HEALTHY", "LEAVING", "OFFLINE"}
ClusterNode == [role : {"MASTER", "REPLICA", "WORKER"}, health : Health, up : 0..MaxUptime]

TypeOK ==
  /\ nodes \in Seq(ClusterNode) /\ Len(nodes) <= MaxNodes
  /\ master_node_id \in 0..Len(nodes) /\ replica_node_id \in 0..Len(nodes)

Init == nodes = << >> /\ master_node_id = 0 /\ replica_node_id = 0 /\ call = "cluster_create"

cluster_join ==
  /\ Len(nodes) < MaxNodes
  /\ LET n == Len(nodes) + 1 IN
     /\ nodes' = Append(nodes, [role |-> IF n = 1 THEN "MASTER" ELSE IF n = 2 THEN "REPLICA" ELSE "WORKER",
                                health |-> "HEALTHY", up |-> 0])
     /\ master_node_id' = IF n = 1 THEN 1 ELSE master_node_id
     /\ replica_node_id' = IF n = 2 THEN 2 ELSE replica_node_id
  /\ call' = "cluster_join"

\* cluster_leave and cluster_update_node_status
cluster_update_node_status(n, health) ==
  /\ nodes' = [nodes EXCEPT ![n].health = health]
  /\ call' = "cluster_update_node_status"
  /\ UNCHANGED <<master_node_id, replica_node_id>>

Older(node) == [node EXCEPT !.up = IF @ < MaxUptime THEN @ + 1 ELSE @]

cluster_node_heartbeat(n) ==
  /\ nodes' = [nodes EXCEPT ![n] = Older(@)]
  /\ call' = "cluster_node_heartbeat"
  /\ UNCHANGED <<master_node_id, replica_node_id>>

cluster_perform_health_check ==
  /\ nodes' = [n \in 1..Len(nodes) |-> IF nodes[n].health = "HEALTHY" THEN Older(nodes[n]) ELSE nodes[n]]
  /\ call' = "cluster_perform_health_check"
  /\ UNCHANGED <<master_node_id, replica_node_id>>

\* The first of the healthy nodes in S with the highest uptime above 0.
Best(ns, S) ==
  {n \in S : /\ ns[n].health = "HEALTHY" /\ ns[n].up > 0
             /\ \A m \in S : ns[m].health = "HEALTHY" =>
                  ns[m].up < ns[n].up \/ (ns[m].up = ns[n].up /\ n <= m)}

\* The old master keeps the role of a master.
ElectIn(ns) ==
  LET B == Best(ns, 1..Len(ns)) IN
  /\ nodes' = [n \in 1..Len(ns) |-> IF n \in B THEN [ns[n] EXCEPT !.role = "MASTER"] ELSE ns[n]]
  /\ master_node_id' = IF B = {} THEN master_node_id ELSE CHOOSE n \in B : TRUE

cluster_elect_master ==
  /\ ElectIn(nodes) /\ call' = "cluster_elect_master" /\ UNCHANGED replica_node_id

FailureWithoutElection(n) ==  \* mistaken cluster_handle_node_failure: no election
  /\ nodes' = [nodes EXCEPT ![n].health = "OFFLINE"]
  /\ call' = "cluster_handle_node_failure"
  /\ UNCHANGED <<master_node_id, replica_node_id>>

cluster_handle_node_failure(n) ==
  /\ LET failed == [nodes EXCEPT ![n].health = "OFFLINE"] IN
     IF n = master_node_id THEN ElectIn(failed)
     ELSE nodes' = failed /\ UNCHANGED master_node_id
  /\ call' = "cluster_handle_node_failure"
  /\ UNCHANGED replica_node_id

cluster_elect_replica ==
  /\ Len(nodes) >= 2
  /\ \E n \in Best(nodes, 1..Len(nodes) \ {master_node_id}) :
       nodes' = [nodes EXCEPT ![n].role = "REPLICA"] /\ replica_node_id' = n
  /\ call' = "cluster_elect_replica"
  /\ UNCHANGED master_node_id

Next ==
  \/ cluster_join \/ cluster_perform_health_check \/ cluster_elect_master \/ cluster_elect_replica
  \/ \E n \in 1..Len(nodes) :
       \/ cluster_node_heartbeat(n) \/ cluster_handle_node_failure(n)
       \/ \E health \in Health : cluster_update_node_status(n, health)

Spec == Init /\ [][Next]_vars

-----------------------------------------------------------------------------

\* The node that master_node_id names has the role of a master, through every
\* order of joins, failures and elections of either kind.
MasterHasRole == master_node_id # 0 => nodes[master_node_id].role = "MASTER"

\* A master that takes over by an election or after a failure is healthy, and no
\* healthy node has been up for longer.
MasterIsBest ==
  [][(master_node_id' # master_node_id /\ call' # "cluster_join") =>
       /\ nodes'[master_node_id'].health = "HEALTHY"
       /\ \A n \in 1..Len(nodes) : nodes'[n].health = "HEALTHY" => nodes'[n].up <= nodes'[master_node_id'].up]_vars

\* When the failure of the master is handled, it stays the master only if no
\* node is healthy and has beaten at least once.
FailoverFindsMaster ==
  [][(/\ call' = "cluster_handle_node_failure" /\ master_node_id \in 1..Len(nodes)
      /\ nodes[master_node_id].health # "OFFLINE" /\ nodes'[master_node_id].health = "OFFLINE"
      /\ master_node_id' = master_node_id) =>
       \A n \in 1..Len(nodes) : nodes'[n].health = "HEALTHY" => nodes'[n].up = 0]_vars

\* The three together: how the cluster gets and keeps a master.
FailoverSound == FailoverFindsMaster /\ MasterIsBest /\ []MasterHasRole

\* cluster_elect_master says that it finds the "healthiest node with highest
\* uptime": after it ran, a healthy node is the master whenever there is one.
ElectsHealthiest ==
  (call = "cluster_elect_master" /\ \E n \in 1..Len(nodes) : nodes[n].health = "HEALTHY") =>
     nodes[master_node_id].health = "HEALTHY"
=============================================================================
