----------------------------- MODULE LoadBalancer -----------------------------
(***************************************************************************)
(* load-balancing/load_balancer.c: one pool of backend servers, its         *)
(* selection algorithms, and membership and health that change between      *)
(* requests.  active_connections and total_requests of a server always go   *)
(* up together, and nothing closes a connection, so one number stands for   *)
(* both.  Counters that only the metrics read are left out.                 *)
(*                                                                         *)
(* services/load_balancer.c: one balancer whose calls name servers by       *)
(* place while it hands out ids, and the table of client connections with   *)
(* their session data.  A connection never learns its server, so closing    *)
(* one changes no server, and the two are parts of their own.               *)
(*                                                                         *)
(* load-balancing/traffic_shaper.c: one policy with rules that classify     *)
(* packets, first match first, and limiters whose tokens are spent and      *)
(* never refilled.                                                          *)
(***************************************************************************)
EXTENDS Integers, Sequences

CONSTANTS
  MaxBackendServers,   \* MAX_BACKEND_SERVERS
  MaxServerId,         \* bound on next_server_id
  MaxRequests,         \* bound on the requests of one run
  Weights,             \* the weights servers are added with, 0 included
  MaxConnections,      \* MAX_CONNECTIONS_PER_SERVER
  MaxClients,          \* slots of g_connections, 4096 in the code
  ConnectionId, SessionData,
  Flow,                \* pairs of source and destination address
  Class,               \* traffic classes
  BestEffort,          \* TRAFFIC_CLASS_BEST_EFFORT
  MaxRules,            \* MAX_TRAFFIC_RULES
  MaxLimiters,         \* MAX_RATE_LIMITERS
  MaxBurst,            \* largest burst_bytes and packet size
  MaxRuleId            \* bound on next_rule_id

\* The tables have sizes, the counters bounds, and weights are numbers.
ASSUME BalancerAssumption ==
  /\ MaxBackendServers \in Nat /\ MaxServerId \in Nat /\ MaxRequests \in Nat /\ Weights \subseteq Nat
  /\ MaxConnections \in Nat /\ MaxClients \in Nat /\ MaxRules \in Nat /\ MaxLimiters \in Nat
  /\ MaxBurst \in Nat /\ MaxRuleId \in Nat

VARIABLES
  servers, algorithm, current_server_index, next_server_id,
  routed,      \* requests a server was selected for, the bound's counter
  share,       \* history: requests of each server since membership last changed
  backends, lb_algorithm, current_server_idx,
  divided,     \* a server was asked for where there is none: division by zero
  removed,     \* history: a server was removed, ids are no places any more
  slots, connection_count,
  stored,      \* history: what each open connection stored last
  rules,       \* rule_id, addresses and assigned_class, in order
  limiters,    \* class, burst, tokens and bytes_processed, in order
  next_rule_id,
  passed       \* history: bytes of each class a limiter let through

poolVars == <<servers, algorithm, current_server_index, next_server_id, routed, share>>
serviceVars == <<backends, lb_algorithm, current_server_idx, divided, removed>>
sessionVars == <<slots, connection_count, stored>>
shaperVars == <<rules, limiters, next_rule_id, passed>>
vars == <<poolVars, serviceVars, sessionVars, shaperVars>>

State == {"HEALTHY", "DEGRADED", "UNHEALTHY", "DRAINING"}
Algorithm == {"ROUND_ROBIN", "LEAST_CONN", "WEIGHTED", "RANDOM"}

\* hot: the last metrics are above what load_balancer_detect_unhealthy_servers
\* allows.  steady (history): the server has been healthy since it was added.
BackendServer ==
  [server_id : 1..MaxServerId, state : State, weight : (Weights \cup {1}) \ {0}, connections : 0..MaxRequests,
   hot : BOOLEAN, steady : BOOLEAN]

ServiceAlgorithm == {"ROUND_ROBIN", "LEAST_CONNECTIONS", "WEIGHTED_ROUND_ROBIN", "IP_HASH", "LEAST_RESPONSE_TIME"}
ServerState == {"ACTIVE", "DRAINING", "DOWN"}
\* steady, share (histories): active since it was added; requests since a server was added
ServiceServer ==
  [server_id : 1..MaxBackendServers, state : ServerState, current_connections : 0..MaxRequests,
   steady : BOOLEAN, share : 0..MaxRequests]

Nothing == "nothing"
ClientConnection == [connection_id : ConnectionId \union {Nothing}, session_data : SessionData \union {Nothing}]

TrafficRule == [id : 1..MaxRuleId, flow : Flow, class : Class]
RateLimiter == [class : Class, burst : 0..MaxBurst, tokens : 0..MaxBurst, bytes : 0..MaxBurst]

TypeOK ==
  /\ servers \in Seq(BackendServer) /\ Len(servers) <= MaxBackendServers
  /\ algorithm \in Algorithm
  /\ current_server_index \in 0..MaxRequests /\ next_server_id \in 1..(MaxServerId + 1)
  /\ routed \in 0..MaxRequests
  /\ share \in Seq(0..MaxRequests) /\ Len(share) = Len(servers)
  /\ backends \in Seq(ServiceServer) /\ Len(backends) <= MaxBackendServers
  /\ lb_algorithm \in ServiceAlgorithm \union {Nothing} /\ current_server_idx \in 0..MaxRequests
  /\ divided \in BOOLEAN /\ removed \in BOOLEAN
  /\ slots \in [1..MaxClients -> ClientConnection] /\ connection_count \in 0..MaxClients
  /\ stored \in [ConnectionId -> SessionData \union {Nothing}]
  /\ rules \in Seq(TrafficRule) /\ Len(rules) <= MaxRules
  /\ limiters \in Seq(RateLimiter) /\ Len(limiters) <= MaxLimiters
  /\ next_rule_id \in 1..(MaxRuleId + 1) /\ passed \in [Class -> Nat]

NoTraffic == rules = << >> /\ limiters = << >> /\ next_rule_id = 1 /\ passed = [c \in Class |-> 0]

Init ==
  /\ algorithm \in Algorithm
  /\ servers = <<>> /\ current_server_index = 0 /\ next_server_id = 1
  /\ routed = 0 /\ share = <<>>
  /\ backends = <<>> /\ lb_algorithm = Nothing /\ current_server_idx = 0 /\ divided = FALSE /\ removed = FALSE
  /\ slots = [c \in 1..MaxClients |-> [connection_id |-> Nothing, session_data |-> Nothing]]
  /\ connection_count = 0 /\ stored = [id \in ConnectionId |-> Nothing]
  /\ NoTraffic

\* What is behind place i moves up by one, as the code's loops and memmove do.
Without(list, i) == [j \in 1..(Len(list) - 1) |-> IF j < i THEN list[j] ELSE list[j + 1]]

NoShares(n) == [i \in 1..n |-> 0]

Added(weight) ==
  [server_id |-> next_server_id, state |-> "HEALTHY", weight |-> IF weight > 0 THEN weight ELSE 1,
   connections |-> 0, hot |-> FALSE, steady |-> TRUE]

load_balancer_add_server(weight) ==
  /\ Len(servers) < MaxBackendServers /\ next_server_id <= MaxServerId
  /\ servers' = Append(servers, Added(weight))
  /\ next_server_id' = next_server_id + 1 /\ share' = NoShares(Len(servers) + 1)
  /\ UNCHANGED <<algorithm, current_server_index, routed>>

load_balancer_remove_server(i) ==
  /\ servers' = Without(servers, i) /\ share' = NoShares(Len(servers) - 1)
  /\ UNCHANGED <<algorithm, current_server_index, next_server_id, routed>>

Healthy == {i \in DOMAIN servers : servers[i].state = "HEALTHY"}
TotalWeight ==
  LET sum[n \in 0..Len(servers)] ==
        IF n = 0 THEN 0 ELSE sum[n - 1] + (IF n \in Healthy THEN servers[n].weight ELSE 0)
  IN  sum[Len(servers)]

Fewest ==               \* the first of the healthy servers with the fewest connections
  {i \in Healthy : \A j \in Healthy :
     \/ servers[i].connections < servers[j].connections
     \/ servers[i].connections = servers[j].connections /\ i <= j}

Weighted == IF TotalWeight > 0 THEN {(current_server_index % TotalWeight) + 1} ELSE {}

SelectedShort ==        \* mistaken Selected: the last server is left out
  IF algorithm \in {"ROUND_ROBIN", "RANDOM"} THEN {(current_server_index % (IF Len(servers) > 1 THEN Len(servers) - 1 ELSE 1)) + 1}
  ELSE IF algorithm = "LEAST_CONN" THEN Fewest ELSE Weighted

\* The index load_balancer_select_server arrives at, if any: for WEIGHTED it may
\* lie behind the last server.
Selected ==
  IF algorithm \in {"ROUND_ROBIN", "RANDOM"} THEN {(current_server_index % Len(servers)) + 1}
  ELSE IF algorithm = "LEAST_CONN" THEN Fewest ELSE Weighted

\* load_balancer_route_request, or load_balancer_select_server called on its own
load_balancer_route_request ==
  /\ servers # <<>> /\ routed < MaxRequests /\ current_server_index < MaxRequests
  /\ LET chosen == Selected \cap DOMAIN servers
     IN /\ servers' = [i \in DOMAIN servers |->
                         IF i \in chosen THEN [servers[i] EXCEPT !.connections = @ + 1] ELSE servers[i]]
        /\ share' = [i \in DOMAIN share |-> IF i \in chosen THEN share[i] + 1 ELSE share[i]]
        /\ routed' = IF chosen = {} THEN routed ELSE routed + 1
  /\ current_server_index' =
       IF algorithm = "LEAST_CONN" \/ Selected = {} THEN current_server_index ELSE current_server_index + 1
  /\ UNCHANGED <<algorithm, next_server_id>>

Set(i, state) ==
  /\ servers' = [servers EXCEPT ![i].state = state, ![i].steady = @ /\ state = "HEALTHY"]
  /\ UNCHANGED <<algorithm, current_server_index, next_server_id, routed, share>>

load_balancer_update_server_state(i, state) == Set(i, state)
load_balancer_drain_server(i) == Set(i, "DRAINING")

load_balancer_update_server_metrics(i, hot) ==
  /\ servers' = [servers EXCEPT ![i].hot = hot]
  /\ UNCHANGED <<algorithm, current_server_index, next_server_id, routed, share>>

load_balancer_detect_unhealthy_servers ==
  /\ servers' = [i \in DOMAIN servers |->
                   IF servers[i].hot /\ servers[i].state = "HEALTHY"
                   THEN [servers[i] EXCEPT !.state = "DEGRADED", !.steady = FALSE] ELSE servers[i]]
  /\ UNCHANGED <<algorithm, current_server_index, next_server_id, routed, share>>

PoolNext ==
  /\ \/ \E weight \in Weights : load_balancer_add_server(weight)
     \/ \E i \in DOMAIN servers :
          \/ load_balancer_remove_server(i)
          \/ \E state \in State : load_balancer_update_server_state(i, state)
          \/ load_balancer_drain_server(i)
          \/ \E hot \in BOOLEAN : load_balancer_update_server_metrics(i, hot)
     \/ load_balancer_route_request
     \/ load_balancer_detect_unhealthy_servers
  /\ UNCHANGED <<serviceVars, sessionVars, shaperVars>>

-----------------------------------------------------------------------------
(* The balancer of services *)

lb_create(chosen) ==
  /\ lb_algorithm = Nothing /\ lb_algorithm' = chosen
  /\ UNCHANGED <<backends, current_server_idx, divided, removed>>

Unshared(list) == [i \in DOMAIN list |-> [list[i] EXCEPT !.share = 0]]

lb_add_backend_server ==
  /\ lb_algorithm # Nothing /\ Len(backends) < MaxBackendServers
  /\ backends' = Append(Unshared(backends),
       [server_id |-> Len(backends) + 1, state |-> "ACTIVE", current_connections |-> 0, steady |-> TRUE, share |-> 0])
  /\ UNCHANGED <<lb_algorithm, current_server_idx, divided, removed>>

\* The servers behind it move and keep their ids.
lb_remove_backend_server(i) ==
  /\ backends' = Without(backends, i) /\ removed' = TRUE
  /\ UNCHANGED <<lb_algorithm, current_server_idx, divided>>

SetState(i, state) ==
  /\ backends' = [backends EXCEPT ![i].state = state, ![i].steady = @ /\ state = "ACTIVE"]
  /\ UNCHANGED <<lb_algorithm, current_server_idx, divided, removed>>

lb_mark_server_draining(i) == SetState(i, "DRAINING")
lb_mark_server_down(i) == SetState(i, "DOWN")
lb_restore_server(i) == SetState(i, "ACTIVE")

\* A server with room for connections is active again, draining or down though it was.
Checked(places) ==
  [i \in DOMAIN backends |->
     IF i \in places /\ backends[i].current_connections < MaxConnections
     THEN [backends[i] EXCEPT !.state = "ACTIVE"] ELSE backends[i]]

Ids == {backends[i].server_id : i \in DOMAIN backends}

lb_perform_health_check(i) ==
  backends' = Checked({i}) /\ UNCHANGED <<lb_algorithm, current_server_idx, divided, removed>>

lb_health_check_all_servers ==
  backends' = Checked(Ids) /\ UNCHANGED <<lb_algorithm, current_server_idx, divided, removed>>

ActiveServers == {i \in DOMAIN backends : backends[i].state = "ACTIVE"}
Least ==
  {i \in ActiveServers : \A j \in ActiveServers :
     \/ backends[i].current_connections < backends[j].current_connections
     \/ backends[i].current_connections = backends[j].current_connections /\ i <= j}

Turn == (current_server_idx % Len(backends)) + 1
\* The ids that may be selected: addresses hash to any place, and any active
\* server may have answered fastest.
SelectedIds ==
  {id \in 1..MaxBackendServers :
     \/ lb_algorithm = "ROUND_ROBIN" /\ id = backends[Turn].server_id
     \/ lb_algorithm = "LEAST_CONNECTIONS" /\ \E i \in Least : id = backends[i].server_id
     \/ lb_algorithm = "IP_HASH" /\ id \in DOMAIN backends
     \/ lb_algorithm = "LEAST_RESPONSE_TIME" /\ \E i \in ActiveServers : id = backends[i].server_id
     \/ lb_algorithm = "WEIGHTED_ROUND_ROBIN" /\ id = backends[1].server_id}

\* lb_route_request, or lb_select_backend_server called on its own: the request is
\* counted at the place the id names, if there is one.
lb_route_request ==
  /\ lb_algorithm # Nothing /\ current_server_idx < MaxRequests
  /\ current_server_idx' = IF lb_algorithm = "ROUND_ROBIN" THEN current_server_idx + 1 ELSE current_server_idx
  /\ divided' = (backends = <<>> /\ lb_algorithm \in {"ROUND_ROBIN", "IP_HASH"})
  /\ IF backends = <<>> THEN UNCHANGED backends
     ELSE \E id \in SelectedIds :
            backends' = [i \in DOMAIN backends |->
              IF i # id THEN backends[i]
              ELSE [backends[i] EXCEPT !.current_connections = @ + 1, !.share = @ + 1]]
  /\ \A i \in DOMAIN backends : backends[i].current_connections < MaxRequests
  /\ UNCHANGED <<lb_algorithm, removed>>

BalancerNext ==
  /\ ~divided                    \* what the program does after that is undefined
  /\ \/ \E chosen \in ServiceAlgorithm : lb_create(chosen)
     \/ lb_add_backend_server \/ lb_health_check_all_servers \/ lb_route_request
     \/ \E i \in DOMAIN backends :
          \/ lb_remove_backend_server(i) \/ lb_mark_server_draining(i) \/ lb_mark_server_down(i)
          \/ lb_restore_server(i) \/ lb_perform_health_check(i)
  /\ UNCHANGED <<poolVars, sessionVars, shaperVars>>

-----------------------------------------------------------------------------
(* Client connections and their session data *)

\* The slot keeps the session data of the connection that had it before.
lb_handle_client_connection(id) ==
  /\ connection_count < MaxClients
  /\ slots' = [slots EXCEPT ![connection_count + 1].connection_id = id]
  /\ connection_count' = connection_count + 1 /\ UNCHANGED stored

FirstOf(id) ==
  {c \in 1..connection_count : slots[c].connection_id = id /\ \A d \in 1..(c - 1) : slots[d].connection_id # id}

Moved(c) == [d \in DOMAIN slots |-> IF d \in c..(connection_count - 1) THEN slots[d + 1] ELSE slots[d]]

lb_close_client_connection(id) ==
  /\ \E c \in FirstOf(id) : slots' = Moved(c) /\ connection_count' = connection_count - 1
  /\ stored' = [stored EXCEPT ![id] = Nothing]

lb_store_session_data(id, data) ==
  /\ \E c \in FirstOf(id) : slots' = [slots EXCEPT ![c].session_data = data]
  /\ stored' = [stored EXCEPT ![id] = data] /\ UNCHANGED connection_count

SessionsNext ==
  /\ \E id \in ConnectionId :
       \/ lb_handle_client_connection(id) \/ lb_close_client_connection(id)
       \/ \E data \in SessionData : lb_store_session_data(id, data)
  /\ UNCHANGED <<poolVars, serviceVars, shaperVars>>

-----------------------------------------------------------------------------
(* The traffic shaper *)

traffic_rule_add(flow, class) ==
  /\ Len(rules) < MaxRules /\ next_rule_id <= MaxRuleId
  /\ rules' = Append(rules, [id |-> next_rule_id, flow |-> flow, class |-> class])
  /\ next_rule_id' = next_rule_id + 1
  /\ UNCHANGED <<limiters, passed>>

traffic_rule_remove(id) ==
  \E i \in 1..Len(rules) :
    /\ rules[i].id = id /\ rules' = Without(rules, i)
    /\ UNCHANGED <<limiters, next_rule_id, passed>>

traffic_rate_limiter_create(class, burst) ==
  /\ Len(limiters) < MaxLimiters
  /\ limiters' = Append(limiters, [class |-> class, burst |-> burst, tokens |-> burst, bytes |-> 0])
  /\ UNCHANGED <<rules, next_rule_id, passed>>

LimiterFor(class, size) ==     \* the first of the class, whatever its tokens
  {j \in 1..Len(limiters) : limiters[j].class = class /\ \A k \in 1..(j - 1) : limiters[k].class # class}

\* A packet without enough tokens is dropped, one without a limiter goes unshaped;
\* neither changes the limiters.
traffic_shape_packet(class, size) ==
  \E j \in LimiterFor(class, size) :
    /\ limiters[j].tokens >= size
    /\ limiters' = [limiters EXCEPT ![j].tokens = @ - size, ![j].bytes = @ + size]
    /\ passed' = [passed EXCEPT ![class] = @ + size]
    /\ UNCHANGED <<rules, next_rule_id>>

ShaperNext ==
  /\ \/ \E class \in Class :
          \/ \E flow \in Flow : traffic_rule_add(flow, class)
          \/ \E burst \in 1..MaxBurst : traffic_rate_limiter_create(class, burst)
          \/ \E size \in 1..MaxBurst : traffic_shape_packet(class, size)
     \/ \E id \in 1..MaxRuleId : traffic_rule_remove(id)
  /\ UNCHANGED <<poolVars, serviceVars, sessionVars>>

\* The rule that decides the class of a packet of the flow, if any.
Deciding(flow) ==
  {i \in 1..Len(rules) : rules[i].flow = flow /\ \A k \in 1..(i - 1) : rules[k].flow # flow}

traffic_classify_packet(flow) ==
  IF Deciding(flow) = {} THEN BestEffort
  ELSE rules[CHOOSE i \in Deciding(flow) : TRUE].class

\* The four parts share nothing, and their calls interleave.
Next == PoolNext \/ BalancerNext \/ SessionsNext \/ ShaperNext

Spec == Init /\ [][Next]_vars

-----------------------------------------------------------------------------

\* ROUND_ROBIN, and RANDOM, which selects the same way, share requests out evenly
\* from any value of current_server_index on: since membership last changed no
\* server got two requests more than another.
RoundRobinFair ==
  algorithm \in {"ROUND_ROBIN", "RANDOM"} =>
    \A i, j \in DOMAIN servers : share[i] <= share[j] + 1

\* LEAST_CONN never overloads a server that was added later: it is at most one
\* connection ahead of every older server that has stayed healthy, whatever
\* servers came, went, drained or recovered.
LatecomerNotSwamped ==
  algorithm = "LEAST_CONN" =>
    \A i, j \in DOMAIN servers :
      (i > j /\ servers[j].steady) => servers[i].connections <= servers[j].connections + 1

\* The balancer of services shares requests as its algorithm says as long as no
\* server was removed, after which ids name other places or none: in turn, no server
\* gets two more than another; by least connections, a server is at most one
\* connection ahead of an older one that stayed active (lb_select_backend_server).
ServiceSharesFair ==
  ~removed => \A i, j \in DOMAIN backends :
    /\ lb_algorithm = "ROUND_ROBIN" => backends[i].share <= backends[j].share + 1
    /\ (lb_algorithm = "LEAST_CONNECTIONS" /\ i > j /\ backends[j].steady) =>
         backends[i].current_connections <= backends[j].current_connections + 1

\* A connection that stored session data gets that back, whatever connections are
\* opened and closed and moved in the table meanwhile; one that stored nothing may
\* see what an earlier one left (lb_handle_client_connection).
SessionsKept ==
  \A id \in ConnectionId : stored[id] # Nothing => \E c \in FirstOf(id) : slots[c].session_data = stored[id]

\* The tokens of a limiter and the bytes it let through make up its burst.
TokensConserved == \A j \in 1..Len(limiters) : limiters[j].tokens + limiters[j].bytes = limiters[j].burst

\* Of a class no more passes a limiter than the burst of its first limiter, how
\* many others were created for it notwithstanding.
FirstBurstBounds ==
  \A c \in Class : passed[c] <= (IF LimiterFor(c, 0) = {} THEN 0
                                 ELSE limiters[CHOOSE j \in LimiterFor(c, 0) : TRUE].burst)

\* What the two balancers and the shaper promise about shares: the six above.
SharesFair ==
  /\ RoundRobinFair /\ LatecomerNotSwamped /\ ServiceSharesFair
  /\ SessionsKept /\ TokensConserved /\ FirstBurstBounds
=============================================================================
