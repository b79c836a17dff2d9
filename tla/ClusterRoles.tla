---------------------------- MODULE ClusterRoles ----------------------------
(***************************************************************************)
(* clustering-replication/cluster_manager.c: nodes with a state and a role, *)
(* the leader, the term of the last election and the log of state changes.  *)
(* Heartbeats heal a node without logging it.                               *)
(*                                                                         *)
(* clustering-replication/replication_manager.c: sessions of replicas that  *)
(* are in sync or not, each with a log that is filled once.  The caller     *)
(* gives the ids of replicas, and lookups stop at the first.  Data, lags,   *)
(* rates and how often an entry was applied are left out.                   *)
(***************************************************************************)
EXTENDS Naturals, Sequences

CONSTANTS
  MaxNodes,    \* MAX_CLUSTER_NODES
  MaxEvents,   \* MAX_CLUSTER_EVENTS
  MaxId,       \* bound on next_node_id
  MaxTerm,     \* bound on current_term
  MaxSessions, \* MAX_REPLICATION_SESSIONS
  MaxReplicas, \* MAX_REPLICAS
  MaxLog,      \* MAX_REPLICATION_LOG
  ReplicaId,   \* ids callers give to replicas, 0 among them
  MaxSessionId, MaxEntryId   \* bounds on next_session_id and next_log_entry_id

VARIABLES
  nodes,          \* the table: id, state, role and election_term
  next_id,        \* next_node_id
  leader_node_id, \* 0 for none
  current_term,
  events,         \* node, prev_state and new_state of each event
  by_hand,        \* history: cluster_update_node_role was called
  sessions, next_session_id, next_log_entry_id

clusterVars == <<nodes, next_id, leader_node_id, current_term, events, by_hand>>
replicationVars == <<sessions, next_session_id, next_log_entry_id>>
vars == <<nodes, next_id, leader_node_id, current_term, events, by_hand,
          sessions, next_session_id, next_log_entry_id>>

\* DEAD stands for the states a heartbeat does not heal.
State == {"INITIALIZING", "HEALTHY", "UNREACHABLE", "DEAD"}
Role == {"FOLLOWER", "CANDIDATE", "LEADER"}
ClusterNode == [id : 1..MaxId, state : State, role : Role, term : 1..MaxTerm]
ClusterEvent == [node : 1..MaxId, prev : State, new : State]

\* OUT_OF_SYNC stands for every state but SYNCED, the one replication_check_consistency counts.
ReplicaState == {"SYNCED", "OUT_OF_SYNC"}
\* whole (history): replication_complete_sync was called since the replica was added
ReplicaInfo == [replica_id : ReplicaId, state : ReplicaState, whole : BOOLEAN]
\* The log as an array; 0 is an entry not written yet.
Session ==
  [session_id : 1..MaxSessionId, replicas : Seq(ReplicaInfo), log : [0..(MaxLog - 1) -> 0..MaxEntryId],
   log_size : 0..MaxLog, log_tail : 0..(MaxLog - 1)]

TypeOK ==
  /\ nodes \in Seq(ClusterNode) /\ Len(nodes) <= MaxNodes
  /\ next_id \in 1..(MaxId + 1) /\ leader_node_id \in 0..MaxId /\ current_term \in 1..MaxTerm
  /\ events \in Seq(ClusterEvent) /\ Len(events) <= MaxEvents /\ by_hand \in BOOLEAN
  /\ sessions \in Seq(Session) /\ Len(sessions) <= MaxSessions
  /\ \A s \in DOMAIN sessions : Len(sessions[s].replicas) <= MaxReplicas
  /\ next_session_id \in 1..(MaxSessionId + 1) /\ next_log_entry_id \in 1..(MaxEntryId + 1)

Init ==
  /\ nodes = << >> /\ next_id = 1 /\ leader_node_id = 0 /\ current_term = 1
  /\ events = << >> /\ by_hand = FALSE
  /\ sessions = << >> /\ next_session_id = 1 /\ next_log_entry_id = 1

\* s after the entries behind i moved up over it.
MovedUp(s, i) == [j \in 1..(Len(s) - 1) |-> IF j < i THEN s[j] ELSE s[j + 1]]

Find(id) == {i \in 1..Len(nodes) : nodes[i].id = id}

cluster_add_node ==
  /\ Len(nodes) < MaxNodes /\ next_id <= MaxId
  /\ nodes' = Append(nodes, [id |-> next_id, state |-> "INITIALIZING", role |-> "FOLLOWER", term |-> current_term])
  /\ next_id' = next_id + 1
  /\ UNCHANGED <<leader_node_id, current_term, events, by_hand>>

cluster_remove_node(id) ==
  \E i \in Find(id) :
    /\ nodes' = MovedUp(nodes, i)
    /\ leader_node_id' = IF leader_node_id = id THEN 0 ELSE leader_node_id
    /\ UNCHANGED <<next_id, current_term, events, by_hand>>

\* A full log drops the event.
cluster_update_node_state(id, state) ==
  \E i \in Find(id) :
    /\ nodes' = [nodes EXCEPT ![i].state = state]
    /\ events' = IF Len(events) >= MaxEvents THEN events
                 ELSE Append(events, [node |-> id, prev |-> nodes[i].state, new |-> state])
    /\ UNCHANGED <<next_id, leader_node_id, current_term, by_hand>>

cluster_update_node_role(id, role) ==
  \E i \in Find(id) :
    /\ nodes' = [nodes EXCEPT ![i].role = role] /\ by_hand' = TRUE
    /\ UNCHANGED <<next_id, leader_node_id, current_term, events>>

cluster_node_heartbeat(id) ==
  \E i \in Find(id) :
    /\ nodes[i].state = "UNREACHABLE"
    /\ nodes' = [nodes EXCEPT ![i].state = "HEALTHY"]
    /\ UNCHANGED <<next_id, leader_node_id, current_term, events, by_hand>>

cluster_trigger_election ==
  /\ current_term < MaxTerm /\ current_term' = current_term + 1
  /\ nodes' = [i \in 1..Len(nodes) |->
       [nodes[i] EXCEPT !.term = current_term + 1, !.role = IF @ = "LEADER" THEN @ ELSE "CANDIDATE"]]
  /\ UNCHANGED <<next_id, leader_node_id, events, by_hand>>

\* The first healthy node; the old leader keeps its role.
cluster_elect_leader ==
  \E i \in 1..Len(nodes) :
    /\ nodes[i].state = "HEALTHY" /\ \A j \in 1..(i - 1) : nodes[j].state # "HEALTHY"
    /\ nodes' = [nodes EXCEPT ![i].role = "LEADER"] /\ leader_node_id' = nodes[i].id
    /\ UNCHANGED <<next_id, current_term, events, by_hand>>

\* With(i) is the table after node i was promoted and the old leader demoted.
WithOldLast(i) ==            \* mistaken With: demotes after promoting
  [j \in 1..Len(nodes) |->
     [nodes[j] EXCEPT !.role = IF nodes[j].id = leader_node_id THEN "FOLLOWER" ELSE IF j = i THEN "LEADER" ELSE @]]

With(i) ==
  [j \in 1..Len(nodes) |->
     [nodes[j] EXCEPT !.role = IF j = i THEN "LEADER" ELSE IF nodes[j].id = leader_node_id THEN "FOLLOWER" ELSE @]]

cluster_promote_node_to_leader(id) ==
  \E i \in Find(id) :
    /\ nodes' = With(i) /\ leader_node_id' = id
    /\ UNCHANGED <<next_id, current_term, events, by_hand>>

cluster_demote_leader ==
  \E i \in Find(leader_node_id) :
    /\ nodes' = [nodes EXCEPT ![i].role = "FOLLOWER"] /\ leader_node_id' = 0
    /\ UNCHANGED <<next_id, current_term, events, by_hand>>

RolesNext ==
  /\ \/ cluster_add_node \/ cluster_trigger_election \/ cluster_elect_leader \/ cluster_demote_leader
     \/ \E id \in 1..MaxId :
          \/ cluster_remove_node(id) \/ cluster_node_heartbeat(id) \/ cluster_promote_node_to_leader(id)
          \/ \E state \in State : cluster_update_node_state(id, state)
          \/ \E role \in Role : cluster_update_node_role(id, role)
  /\ UNCHANGED replicationVars

-----------------------------------------------------------------------------
(* Replication sessions *)

replication_create_session ==
  /\ Len(sessions) < MaxSessions /\ next_session_id <= MaxSessionId
  /\ sessions' = Append(sessions,
       [session_id |-> next_session_id, replicas |-> << >>, log |-> [e \in 0..(MaxLog - 1) |-> 0],
        log_size |-> 0, log_tail |-> 0])
  /\ next_session_id' = next_session_id + 1 /\ UNCHANGED next_log_entry_id

replication_destroy_session(s) ==
  sessions' = MovedUp(sessions, s) /\ UNCHANGED <<next_session_id, next_log_entry_id>>

replication_add_replica(s, id) ==
  /\ Len(sessions[s].replicas) < MaxReplicas
  /\ sessions' = [sessions EXCEPT ![s].replicas =
       Append(@, [replica_id |-> id, state |-> "OUT_OF_SYNC", whole |-> FALSE])]
  /\ UNCHANGED <<next_session_id, next_log_entry_id>>

\* No call finds id 0, nor a replica behind another of its id.
Reached(s, id) ==
  {j \in DOMAIN sessions[s].replicas :
     /\ sessions[s].replicas[j].replica_id = id /\ id # 0
     /\ \A k \in 1..(j - 1) : sessions[s].replicas[k].replica_id # id}

replication_remove_replica(s, id) ==
  /\ \E j \in Reached(s, id) : sessions' = [sessions EXCEPT ![s].replicas = MovedUp(@, j)]
  /\ UNCHANGED <<next_session_id, next_log_entry_id>>

replication_update_replica_state(s, id, state) ==
  /\ Reached(s, id) # {}
  /\ sessions' = [sessions EXCEPT ![s].replicas =
       [j \in DOMAIN @ |-> IF j \in Reached(s, id) THEN [@[j] EXCEPT !.state = state] ELSE @[j]]]
  /\ UNCHANGED <<next_session_id, next_log_entry_id>>

replication_sync_replica(s, id) == replication_update_replica_state(s, id, "SYNCED")
replication_detect_out_of_sync(s, id) == replication_update_replica_state(s, id, "OUT_OF_SYNC")

replication_complete_sync(s) ==
  /\ sessions' = [sessions EXCEPT ![s].replicas =
       [j \in DOMAIN @ |-> [@[j] EXCEPT !.state = "SYNCED", !.whole = TRUE]]]
  /\ UNCHANGED <<next_session_id, next_log_entry_id>>

\* The tail goes round, but an entry never gives its place back.
HasRoom(s) == sessions[s].log_size < MaxLog

replication_log_entry_add(s) ==
  /\ HasRoom(s) /\ next_log_entry_id <= MaxEntryId
  /\ sessions' = [sessions EXCEPT
       ![s].log[sessions[s].log_tail] = next_log_entry_id,
       ![s].log_tail = (@ + 1) % MaxLog, ![s].log_size = @ + 1]
  /\ next_log_entry_id' = next_log_entry_id + 1 /\ UNCHANGED next_session_id

ReplicationNext ==
  /\ \/ replication_create_session
     \/ \E s \in DOMAIN sessions :
          \/ replication_destroy_session(s) \/ replication_complete_sync(s) \/ replication_log_entry_add(s)
          \/ \E id \in ReplicaId :
               \/ replication_add_replica(s, id) \/ replication_remove_replica(s, id)
               \/ replication_sync_replica(s, id) \/ replication_detect_out_of_sync(s, id)
               \/ \E state \in ReplicaState : replication_update_replica_state(s, id, state)
  /\ UNCHANGED clusterVars

RolesSpec == Init /\ [][RolesNext]_vars
ReplicationSpec == Init /\ [][ReplicationNext]_vars

-----------------------------------------------------------------------------

\* The leader is a node of the table, and unless roles were set by hand it has
\* the role of one, through removals, elections, promotions and demotions.
LeaderIsLeading ==
  leader_node_id # 0 =>
    \E i \in Find(leader_node_id) : by_hand \/ nodes[i].role = "LEADER"

\* Every node of the table has the term of the last election, nodes that joined
\* after it included.
TermsAgree == \A i \in 1..Len(nodes) : nodes[i].term = current_term

\* From one state a node reaches another without an event only by a heartbeat.
Unlogged(s, t) == s = t \/ (s = "UNREACHABLE" /\ t = "HEALTHY")

\* The log explains the states: each event of a node starts where the one
\* before it ended, and until the log is full the last one ends in the state the
\* node is in, except for what a heartbeat heals.
EventsExplain ==
  \A e \in 1..Len(events) :
    LET later == {f \in (e + 1)..Len(events) : events[f].node = events[e].node} IN
    /\ \A f \in later : (\A g \in later : f <= g) => Unlogged(events[e].new, events[f].prev)
    /\ (later = {} /\ Len(events) < MaxEvents) =>
         \A i \in Find(events[e].node) : Unlogged(events[e].new, nodes[i].state)

\* A replica no call reaches, because its id is 0 or another of its id comes first,
\* is out of sync until replication_complete_sync covers the whole session; so is
\* the session for replication_check_consistency.
UnreachedOutOfSync ==
  \A s \in DOMAIN sessions : LET replicas == sessions[s].replicas IN
    \A j \in DOMAIN replicas :
      /\ replicas[j].replica_id = 0 \/ \E k \in 1..(j - 1) : replicas[k].replica_id = replicas[j].replica_id
      /\ ~replicas[j].whole
      => replicas[j].state = "OUT_OF_SYNC"

\* Entries of a session's log stay where they were written, and the places up to
\* log_size, which replication_apply_log_entry looks at, hold ascending ids:
\* the tail that has gone round overwrites nothing.
LogNotOverwritten ==
  \A s \in DOMAIN sessions :
    \A e, f \in 0..(sessions[s].log_size - 1) :
      /\ sessions[s].log[e] # 0
      /\ e < f => sessions[s].log[e] < sessions[s].log[f]

=============================================================================
