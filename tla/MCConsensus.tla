---------------------------- MODULE MCConsensus ----------------------------
(*****************************************************************************)
(* The two consensus implementations and the roles of clustering-            *)
(* replication for TLC. The components share no state: no function of one    *)
(* touches another, so their steps interleave freely and each property       *)
(* speaks of one of them. A behaviour therefore exercises one component,     *)
(* and a run has the sum of their states instead of the product.             *)
(*****************************************************************************)
EXTENDS RaftEngine

CONSTANTS
  MaxDistLog,          \* MAX_LOG_ENTRIES of distributed_consensus.c
  MaxSent,             \* bound on the requests of each kind sent
  MaxNodes,            \* MAX_CLUSTER_NODES
  MaxEvents,           \* MAX_CLUSTER_EVENTS
  MaxId,               \* bound on next_node_id
  MaxSessions,         \* MAX_REPLICATION_SESSIONS
  MaxReplicas,         \* MAX_REPLICAS
  MaxReplicationLog,   \* MAX_REPLICATION_LOG
  ReplicaId,           \* ids callers give to replicas, 0 among them
  MaxSessionId,        \* bound on next_session_id
  MaxEntryId           \* bound on next_log_entry_id

ASSUME ConsensusAssumption ==
  /\ MaxTerm # 0 /\ MaxDistLog \in Nat /\ MaxSent \in Nat
  /\ MaxNodes \in Nat /\ MaxEvents \in Nat /\ MaxId \in Nat
  /\ MaxSessions \in Nat /\ MaxReplicas \in Nat /\ MaxReplicationLog \in Nat \ {0}
  /\ MaxSessionId \in Nat /\ MaxEntryId \in Nat

VARIABLES
  subject,   \* the component this behaviour exercises
  dist_state, dist_current_term, dist_voted_for, log, dist_commit_index, asked,
  offered, dist_granted, unmatched,
  nodes, next_id, leader_node_id, roles_current_term, events, by_hand, sessions,
  next_session_id, next_log_entry_id

Dist == INSTANCE DistConsensus WITH
  MaxLog <- MaxDistLog, state <- dist_state, current_term <- dist_current_term,
  voted_for <- dist_voted_for, commit_index <- dist_commit_index, granted <- dist_granted

Roles == INSTANCE ClusterRoles WITH
  MaxLog <- MaxReplicationLog, current_term <- roles_current_term

distVars == <<
  dist_state, dist_current_term, dist_voted_for, log, dist_commit_index, asked,
  offered, dist_granted, unmatched>>

rolesVars == <<
  nodes, next_id, leader_node_id, roles_current_term, events, by_hand, sessions,
  next_session_id, next_log_entry_id>>

all == <<subject, vars, distVars, rolesVars>>

Start ==
  /\ subject \in {"election", "log", "distributed", "roles", "replication"}
  /\ Init /\ Dist!Init /\ Roles!Init

\* One component moves, the others wait in their initial states.
Step ==
  \/ subject = "election" /\ (\E n \in Node : ElectionStep(n)) /\ UNCHANGED <<subject, distVars, rolesVars>>
  \/ subject = "log" /\ (\E n \in Node : LogStep(n)) /\ UNCHANGED <<subject, distVars, rolesVars>>
  \/ subject = "distributed" /\ Dist!Next /\ UNCHANGED <<subject, vars, rolesVars>>
  \/ subject = "roles" /\ Roles!RolesNext /\ UNCHANGED <<subject, vars, distVars>>
  \/ subject = "replication" /\ Roles!ReplicationNext /\ UNCHANGED <<subject, vars, distVars>>

System == Start /\ [][Step]_all

-----------------------------------------------------------------------------

\* Requests that arrive late, twice or out of order take neither the term nor
\* the commit index of a node back, and the commit index never passes the end
\* of the log. Entries are applied only up to an index that was committed, and
\* the applied index never goes back, although consensus_commit_entry may take
\* commit_index back.
NothingRetreats ==
  /\ Dist!CommitNeverRetreats
  /\ Dist!TermsOnlyGrow
  /\ AppliedNeverRetreats
  /\ []Dist!CommitWithinLog
  /\ []AppliedWereCommitted

\* The leader is a member and, unless roles were set by hand, has the role of
\* one; every member has the term of the last election; and the log of events
\* explains the states the members are in. Replicas no call reaches are out of
\* sync until the whole session is declared synced, and the log of a session is
\* not overwritten.
RolesConsistent ==
  /\ Roles!LeaderIsLeading
  /\ Roles!TermsAgree
  /\ Roles!EventsExplain
  /\ Roles!UnreachedOutOfSync
  /\ Roles!LogNotOverwritten

\* Every component stays within its types and the sizes of its tables.
TypesOK == TypeOK /\ Dist!TypeOK /\ Roles!TypeOK
=============================================================================
