--------------------------- MODULE ClusterServices ---------------------------
(***************************************************************************)
(* Who serves and who leads: the balancers of LoadBalancer beside the       *)
(* cluster of ClusterElection.  No function of one touches the other.       *)
(***************************************************************************)
EXTENDS LoadBalancer

CONSTANTS
  MaxNodes,     \* MAX_CLUSTER_NODES
  MaxUptime     \* bound on uptime_seconds

\* The table has a size, and uptime_seconds a largest value.
ASSUME ElectionAssumption == MaxNodes \in Nat /\ MaxUptime \in Nat

VARIABLES nodes, master_node_id, replica_node_id, call   \* of the cluster

electionVars == <<nodes, master_node_id, replica_node_id, call>>

Election == INSTANCE ClusterElection

\* When the master fails a healthy node with uptime takes over if there is one;
\* an election picks the longest running healthy node; and the node
\* master_node_id names has the role.
FailoverSound == Election!FailoverSound
=============================================================================
