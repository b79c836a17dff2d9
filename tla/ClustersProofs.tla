--------------------------- MODULE ClustersProofs ---------------------------
(***************************************************************************)
(* What the balancers of LoadBalancer share out, and the master that         *)
(* ClusterElection elects, for tables of every size.                        *)
(*                                                                         *)
(* Balancers: shares are fair because they are in turn, a relation between  *)
(* the place whose turn it is and the counts of all servers (InTurn); that  *)
(* nobody is two ahead is not inductive by itself.  Elections compare all   *)
(* nodes, so the proofs need that the comparison has a winner: a set of     *)
(* numbers has a least one, taken twice, of the uptimes from above and of   *)
(* the places in the table.                                                 *)
(***************************************************************************)
EXTENDS ClusterServices, WellFoundedInduction, TLAPS

\* In turn from the place behind p on, around the table, place i comes before j.
Before(p, i, j) == IF i > p THEN j <= p \/ i < j ELSE j <= p /\ i < j

\* Taken in turn from behind p on, the counts never fall and differ by one at most.
InTurn(p, count, n) ==
  \A i, j \in 1..n : Before(p, i, j) => count[i] <= count[j] /\ count[j] <= count[i] + 1

\* The place whose turn it is moves on by one and comes around at the end.
LEMMA NextTurn ==
  ASSUME NEW c \in Nat, NEW n \in Nat, n > 0
  PROVE  /\ c % n \in 0..(n - 1)
         /\ (c + 1) % n = IF c % n = n - 1 THEN 0 ELSE (c % n) + 1
<1> DEFINE d == c \div n
           r == c % n
<1>1. d \in Nat /\ r \in 0..(n - 1) /\ c = n * d + r OBVIOUS
<1> HIDE DEF d, r
<1>2. \A e \in Nat, k \in 0..(n - 1) : (n * e + k) % n = k OBVIOUS
<1>3. CASE r = n - 1
  <2>1. c + 1 = n * (d + 1) + 0 BY <1>1, <1>3
  <2>2. (n * (d + 1) + 0) % n = 0 BY <1>1, <1>2
  <2> QED BY <1>1, <1>3, <2>1, <2>2 DEF r
<1>4. CASE r # n - 1
  <2>1. c + 1 = n * d + (r + 1) /\ r + 1 \in 0..(n - 1) BY <1>1, <1>4
  <2>2. (n * d + (r + 1)) % n = r + 1 BY <1>1, <1>2, <2>1
  <2> QED BY <1>1, <1>4, <2>1, <2>2 DEF r
<1> QED BY <1>3, <1>4

\* Whoever comes first in turn and gets a request comes last after it.
LEMMA TurnTaken ==
  ASSUME NEW n \in Nat, n > 0, NEW p \in 0..(n - 1), NEW q \in 0..(n - 1), q = (IF p = n - 1 THEN 0 ELSE p + 1),
         NEW old, NEW new, \A i \in 1..n : old[i] \in Nat, InTurn(p, old, n),
         \A i \in 1..n : new[i] = IF i = p + 1 THEN old[i] + 1 ELSE old[i]
  PROVE  InTurn(q, new, n)
<1> SUFFICES ASSUME NEW i \in 1..n, NEW j \in 1..n, Before(q, i, j)
             PROVE  new[i] <= new[j] /\ new[j] <= new[i] + 1
  BY DEF InTurn
<1>1. i # j BY DEF Before
<1>2. i # p + 1 BY DEF Before
<1>3. old[i] \in Nat /\ old[j] \in Nat /\ new[i] = old[i] BY <1>2
<1>4. CASE j = p + 1
  <2>1. Before(p, j, i) BY <1>2, <1>4 DEF Before
  <2>2. old[j] <= old[i] /\ old[i] <= old[j] + 1 BY <2>1 DEF InTurn
  <2>3. new[j] = old[j] + 1 BY <1>4
  <2> QED BY <1>3, <2>2, <2>3
<1>5. CASE j # p + 1
  <2>1. Before(p, i, j) BY <1>2, <1>5 DEF Before
  <2>2. new[j] = old[j] BY <1>5
  <2> QED BY <1>3, <2>1, <2>2 DEF InTurn
<1> QED BY <1>4, <1>5

\* Counts in turn are fair.
LEMMA InTurnIsFair ==
  ASSUME NEW n \in Nat, NEW p \in Nat, NEW count, \A i \in 1..n : count[i] \in Nat, InTurn(p, count, n)
  PROVE  \A i, j \in 1..n : count[i] <= count[j] + 1
<1> SUFFICES ASSUME NEW i \in 1..n, NEW j \in 1..n PROVE count[i] <= count[j] + 1 OBVIOUS
<1>1. i = j \/ Before(p, i, j) \/ Before(p, j, i) BY DEF Before
<1>2. count[i] \in Nat /\ count[j] \in Nat OBVIOUS
<1> QED BY <1>1, <1>2 DEF InTurn

\* A list of length n is a function on its places.
LEMMA Lists ==
  ASSUME NEW S, NEW n \in Nat
  PROVE  /\ \A list \in [1..n -> S] : list \in Seq(S) /\ Len(list) = n
         /\ \A list \in Seq(S) : \A i \in 1..Len(list) : list[i] \in S
  OBVIOUS

\* Taking one place out of a list.
LEMMA WithoutIs ==
  ASSUME NEW S, NEW list \in Seq(S), NEW i \in 1..Len(list)
  PROVE  /\ Without(list, i) \in Seq(S) /\ Len(Without(list, i)) = Len(list) - 1
         /\ \A k \in 1..(Len(list) - 1) : Without(list, i)[k] = IF k < i THEN list[k] ELSE list[k + 1]
<1> DEFINE new == Without(list, i)
           N == Len(list) - 1
<1>1. N \in Nat /\ i \in Nat OBVIOUS
<1>2. \A k \in 1..N : (IF k < i THEN list[k] ELSE list[k + 1]) \in S BY <1>1
<1>3. new \in [1..N -> S] BY <1>2 DEF Without
<1>4. new \in Seq(S) /\ Len(new) = N BY <1>1, <1>3
<1>5. \A k \in 1..N : new[k] = IF k < i THEN list[k] ELSE list[k + 1] BY DEF Without
<1> QED BY <1>4, <1>5

-----------------------------------------------------------------------------
(* The pool. *)

PoolTypes ==
  /\ servers \in Seq(BackendServer) /\ Len(servers) <= MaxBackendServers
  /\ algorithm \in Algorithm
  /\ current_server_index \in 0..MaxRequests /\ next_server_id \in 1..(MaxServerId + 1)
  /\ routed \in 0..MaxRequests
  /\ share \in Seq(0..MaxRequests) /\ Len(share) = Len(servers)

Latecomers(list) ==
  \A i, j \in 1..Len(list) : (i > j /\ list[j].steady) => list[i].connections <= list[j].connections + 1

\* No server has more connections or a larger share than requests were routed, and
\* one that is steady is healthy, so that LEAST_CONN compares with it.  Shares are
\* in turn from current_server_index on.
PoolInv ==
  /\ PoolTypes
  /\ \A i \in 1..Len(servers) :
       /\ servers[i].connections <= routed /\ share[i] <= routed
       /\ servers[i].steady => servers[i].state = "HEALTHY"
  /\ algorithm \in {"ROUND_ROBIN", "RANDOM"} => InTurn(current_server_index % Len(servers), share, Len(servers))
  /\ algorithm = "LEAST_CONN" => Latecomers(servers)

\* A server has the types of its fields.
LEMMA Servers ==
  ASSUME PoolTypes
  PROVE  /\ Len(servers) \in Nat /\ DOMAIN servers = 1..Len(servers) /\ DOMAIN share = 1..Len(servers)
         /\ routed \in Nat /\ routed <= MaxRequests /\ current_server_index \in Nat
         /\ \A i \in 1..Len(servers) :
              /\ servers[i] \in BackendServer /\ share[i] \in Nat /\ servers[i].connections \in Nat
              /\ servers[i].steady \in BOOLEAN
<1>1. \A i \in 1..Len(servers) : servers[i] \in BackendServer BY DEF PoolTypes
<1>2. \A s \in BackendServer : s.connections \in Nat /\ s.steady \in BOOLEAN BY BalancerAssumption DEF BackendServer
<1>3. \A i \in 1..Len(servers) : share[i] \in 0..MaxRequests
  <2>1. share \in Seq(0..MaxRequests) /\ Len(share) = Len(servers) BY DEF PoolTypes
  <2>2. \A i \in 1..Len(share) : share[i] \in 0..MaxRequests BY Zenon, <2>1, Lists
  <2> QED BY <2>1, <2>2
<1> QED BY <1>1, <1>2, <1>3, BalancerAssumption DEF PoolTypes

\* Shares that start again are in turn from every place.
LEMMA SharesRestart ==
  ASSUME NEW n \in Nat, NEW p
  PROVE  /\ \A S : 0 \in S => NoShares(n) \in Seq(S)
         /\ Len(NoShares(n)) = n /\ \A i \in 1..n : NoShares(n)[i] = 0
         /\ InTurn(p, NoShares(n), n)
<1>1. \A S : 0 \in S => NoShares(n) \in [1..n -> S] BY DEF NoShares
<1>2. \A S : 0 \in S => NoShares(n) \in Seq(S) BY <1>1
<1>3. \A i \in 1..n : NoShares(n)[i] = 0 BY DEF NoShares
<1>4. Len(NoShares(n)) = n BY DEF NoShares
<1> QED BY <1>2, <1>3, <1>4 DEF InTurn

\* A new server starts all shares again and is behind the others.
LEMMA AddKeeps ==
  ASSUME PoolInv, NEW weight \in Weights, load_balancer_add_server(weight)
  PROVE  PoolInv'
<1> DEFINE new == Added(weight)
           L == Len(servers)
<1>1. /\ L \in Nat /\ L < MaxBackendServers /\ next_server_id <= MaxServerId /\ servers' = Append(servers, new)
      /\ next_server_id' = next_server_id + 1 /\ share' = NoShares(L + 1)
      /\ UNCHANGED <<algorithm, current_server_index, routed>>
  BY Servers DEF load_balancer_add_server, PoolInv
<1>2. new \in BackendServer /\ new.connections = 0 /\ new.state = "HEALTHY"
  <2>1. next_server_id \in 1..MaxServerId BY <1>1, BalancerAssumption DEF PoolInv, PoolTypes
  <2>2. (IF weight > 0 THEN weight ELSE 1) \in (Weights \cup {1}) \ {0} BY BalancerAssumption
  <2>3. 0 \in 0..MaxRequests BY BalancerAssumption
  <2> QED BY <2>1, <2>2, <2>3 DEF Added, BackendServer, State
<1> HIDE DEF new
<1>3. /\ servers' \in Seq(BackendServer) /\ Len(servers') = L + 1
      /\ \A i \in 1..(L + 1) : servers'[i] = IF i = L + 1 THEN new ELSE servers[i]
  BY <1>1, <1>2 DEF PoolInv, PoolTypes
<1>4. share' \in Seq(0..MaxRequests) /\ Len(share') = L + 1 /\ \A i \in 1..(L + 1) : share'[i] = 0
  <2>1. 0 \in 0..MaxRequests BY BalancerAssumption
  <2>2. L + 1 \in Nat BY <1>1
  <2>3. NoShares(L + 1) \in Seq(0..MaxRequests) BY Zenon, <2>1, <2>2, SharesRestart
  <2> QED BY <1>1, <2>2, <2>3, SharesRestart
<1>5. PoolTypes'
  BY <1>1, <1>3, <1>4, BalancerAssumption DEF PoolInv, PoolTypes
<1>6. \A i \in 1..(L + 1) : i # L + 1 => i \in 1..L BY <1>1
<1>7. ASSUME NEW i \in 1..Len(servers')
      PROVE  /\ servers'[i].connections <= routed' /\ share'[i] <= routed'
             /\ servers'[i].steady => servers'[i].state = "HEALTHY"
  <2>1. routed \in Nat BY Servers DEF PoolInv
  <2> QED BY <1>1, <1>2, <1>3, <1>4, <1>6, <2>1 DEF PoolInv
<1>8. InTurn(current_server_index' % Len(servers'), share', Len(servers')) BY <1>1, <1>3, SharesRestart
<1>9. ASSUME Latecomers(servers) PROVE Latecomers(servers')
  <2> SUFFICES ASSUME NEW i \in 1..(L + 1), NEW j \in 1..(L + 1), i > j, servers'[j].steady
               PROVE  servers'[i].connections <= servers'[j].connections + 1
    BY <1>3 DEF Latecomers
  <2>1. j \in 1..L /\ servers'[j] = servers[j] /\ servers[j].connections \in Nat BY <1>1, <1>3, Servers DEF PoolInv
  <2>2. CASE i = L + 1 BY <1>2, <1>3, <2>1, <2>2
  <2>3. CASE i # L + 1
    <3>1. i \in 1..L /\ servers'[i] = servers[i] BY <1>3, <1>6, <2>3
    <3> QED BY <1>9, <2>1, <3>1 DEF Latecomers
  <2> QED BY <2>2, <2>3
<1> QED BY <1>1, <1>5, <1>7, <1>8, <1>9 DEF PoolInv

\* With a server gone all shares start again and the others keep their order.
LEMMA RemoveKeeps ==
  ASSUME PoolInv, NEW r \in DOMAIN servers, load_balancer_remove_server(r)
  PROVE  PoolInv'
<1> DEFINE L == Len(servers)
           old(k) == IF k < r THEN k ELSE k + 1
<1>1. /\ L \in Nat /\ r \in 1..L /\ servers' = Without(servers, r) /\ share' = NoShares(L - 1)
      /\ UNCHANGED <<algorithm, current_server_index, next_server_id, routed>> /\ servers \in Seq(BackendServer)
  BY Servers DEF load_balancer_remove_server, PoolInv, PoolTypes
<1>2. L - 1 \in Nat BY <1>1
<1>3. /\ servers' \in Seq(BackendServer) /\ Len(servers') = L - 1
      /\ \A k \in 1..(L - 1) : servers'[k] = IF k < r THEN servers[k] ELSE servers[k + 1]
  BY <1>1, WithoutIs
<1>4. \A k \in 1..(L - 1) : old(k) \in 1..L /\ servers'[k] = servers[old(k)] BY <1>1, <1>3
<1>5. \A i, j \in 1..(L - 1) : i > j => old(i) > old(j) BY <1>1
<1> HIDE DEF old
<1>6. share' \in Seq(0..MaxRequests) /\ Len(share') = L - 1 /\ \A i \in 1..(L - 1) : share'[i] = 0
  <2>1. 0 \in 0..MaxRequests BY BalancerAssumption
  <2> QED BY Zenon, <1>1, <1>2, <2>1, SharesRestart
<1>7. PoolTypes'
  BY <1>1, <1>3, <1>6, BalancerAssumption DEF PoolInv, PoolTypes
<1>8. ASSUME NEW i \in 1..Len(servers')
      PROVE  /\ servers'[i].connections <= routed' /\ share'[i] <= routed'
             /\ servers'[i].steady => servers'[i].state = "HEALTHY"
  <2>1. routed \in Nat BY Servers DEF PoolInv
  <2>2. i \in 1..(L - 1) BY <1>3
  <2>3. /\ servers[old(i)].connections <= routed
        /\ servers[old(i)].steady => servers[old(i)].state = "HEALTHY"
    BY <1>4, <2>2 DEF PoolInv
  <2>4. servers'[i] = servers[old(i)] /\ share'[i] = 0 BY <1>4, <1>6, <2>2
  <2> QED BY <1>1, <2>1, <2>3, <2>4
<1>9. InTurn(current_server_index' % Len(servers'), share', Len(servers')) BY <1>1, <1>2, <1>3, SharesRestart
<1>10. Latecomers(servers) => Latecomers(servers') BY Zenon, <1>3, <1>4, <1>5 DEF Latecomers
<1> QED BY <1>1, <1>7, <1>8, <1>9, <1>10 DEF PoolInv

\* A change of states and metrics: nobody's connections change, and nobody becomes
\* steady.
LEMMA HealthKeeps ==
  ASSUME PoolInv, UNCHANGED <<algorithm, current_server_index, next_server_id, routed, share>>,
         servers' \in [1..Len(servers) -> BackendServer],
         \A i \in 1..Len(servers) : /\ servers'[i].connections = servers[i].connections
                                    /\ servers'[i].steady => servers[i].steady /\ servers'[i].state = "HEALTHY"
  PROVE  PoolInv'
<1>1. Len(servers) \in Nat BY Servers DEF PoolInv
<1>2. servers' \in Seq(BackendServer) /\ Len(servers') = Len(servers) BY <1>1
<1>3. PoolTypes' BY <1>2 DEF PoolInv, PoolTypes
<1>4. Latecomers(servers) => Latecomers(servers') BY <1>2 DEF Latecomers
<1> QED BY <1>2, <1>3, <1>4 DEF PoolInv

\* Health checks, drains, and new metrics change neither connections nor shares.
LEMMA StatesKeep ==
  ASSUME PoolInv,
         \/ \E i \in DOMAIN servers :
              \/ \E state \in State : load_balancer_update_server_state(i, state)
              \/ load_balancer_drain_server(i)
              \/ \E hot \in BOOLEAN : load_balancer_update_server_metrics(i, hot)
         \/ load_balancer_detect_unhealthy_servers
  PROVE  PoolInv'
<1> DEFINE L == Len(servers)
<1>1. /\ L \in Nat /\ DOMAIN servers = 1..L /\ servers \in [1..L -> BackendServer]
      /\ \A i \in 1..L : servers[i] \in BackendServer /\ (servers[i].steady => servers[i].state = "HEALTHY")
  BY Servers DEF PoolInv, PoolTypes
<1>2. \A s \in BackendServer, state \in State :
        LET t == [s EXCEPT !.state = state, !.steady = @ /\ state = "HEALTHY"]
        IN  /\ t \in BackendServer /\ t.connections = s.connections /\ (t.steady => s.steady /\ t.state = "HEALTHY")
  BY Zenon DEF BackendServer
<1>3. \A s \in BackendServer, hot \in BOOLEAN :
        LET t == [s EXCEPT !.hot = hot]
        IN  /\ t \in BackendServer /\ t.connections = s.connections /\ t.steady = s.steady /\ t.state = s.state
  BY DEF BackendServer
<1>4. \A s \in BackendServer :
        LET t == [s EXCEPT !.state = "DEGRADED", !.steady = FALSE]
        IN  /\ t \in BackendServer /\ t.connections = s.connections /\ ~t.steady
  BY Zenon DEF BackendServer, State
<1>5. ASSUME NEW i \in 1..L, NEW state \in State, Set(i, state) PROVE PoolInv'
  <2> DEFINE t == [servers[i] EXCEPT !.state = state, !.steady = @ /\ state = "HEALTHY"]
  <2>1. t \in BackendServer /\ t.connections = servers[i].connections /\ (t.steady => servers[i].steady /\ t.state = "HEALTHY")
    BY Zenon, <1>1, <1>2
  <2>2. servers' = [servers EXCEPT ![i] = t] /\ UNCHANGED <<algorithm, current_server_index, next_server_id, routed, share>>
    BY Zenon, <1>1, <1>5 DEF Set
  <2> HIDE DEF t
  <2>3. servers' \in [1..L -> BackendServer] BY <1>1, <2>1, <2>2
  <2>4. \A k \in 1..L : servers'[k] = IF k = i THEN t ELSE servers[k] BY <1>1, <2>2
  <2> QED BY <1>1, <2>1, <2>2, <2>3, <2>4, HealthKeeps
<1>6. ASSUME NEW i \in 1..L, NEW hot \in BOOLEAN, load_balancer_update_server_metrics(i, hot) PROVE PoolInv'
  <2> DEFINE t == [servers[i] EXCEPT !.hot = hot]
  <2>1. t \in BackendServer /\ t.connections = servers[i].connections /\ t.steady = servers[i].steady /\ t.state = servers[i].state
    BY <1>1, <1>3
  <2>2. servers' = [servers EXCEPT ![i] = t] /\ UNCHANGED <<algorithm, current_server_index, next_server_id, routed, share>>
    BY <1>6 DEF load_balancer_update_server_metrics
  <2> HIDE DEF t
  <2>3. servers' \in [1..L -> BackendServer] BY <1>1, <2>1, <2>2
  <2>4. \A k \in 1..L : servers'[k] = IF k = i THEN t ELSE servers[k] BY <1>1, <2>2
  <2> QED BY <1>1, <2>1, <2>2, <2>3, <2>4, HealthKeeps
<1>7. ASSUME load_balancer_detect_unhealthy_servers PROVE PoolInv'
  <2> DEFINE t(i) == [servers[i] EXCEPT !.state = "DEGRADED", !.steady = FALSE]
             bad(i) == servers[i].hot /\ servers[i].state = "HEALTHY"
  <2>1. \A i \in 1..L : t(i) \in BackendServer /\ t(i).connections = servers[i].connections /\ ~t(i).steady BY Zenon, <1>1, <1>4
  <2>2. /\ servers' = [i \in 1..L |-> IF bad(i) THEN t(i) ELSE servers[i]]
        /\ UNCHANGED <<algorithm, current_server_index, next_server_id, routed, share>>
    BY Zenon, <1>1, <1>7 DEF load_balancer_detect_unhealthy_servers
  <2> HIDE DEF t, bad
  <2>3. servers' \in [1..L -> BackendServer] BY <1>1, <2>1, <2>2
  <2>4. \A k \in 1..L : servers'[k] = IF bad(k) THEN t(k) ELSE servers[k] BY <2>2
  <2> QED BY <1>1, <2>1, <2>2, <2>3, <2>4, HealthKeeps
<1>8. "DRAINING" \in State BY DEF State
<1> QED BY <1>1, <1>5, <1>6, <1>7, <1>8 DEF load_balancer_update_server_state, load_balancer_drain_server

\* A request goes to the server whose turn it is, or to the first of the healthy
\* ones with the fewest connections.
LEMMA RouteKeeps ==
  ASSUME PoolInv, load_balancer_route_request
  PROVE  PoolInv'
<1> DEFINE L == Len(servers)
           chosen == Selected \cap DOMAIN servers
           more(i) == [servers[i] EXCEPT !.connections = servers[i].connections + 1]
<1>1. /\ L \in Nat /\ DOMAIN servers = 1..L /\ DOMAIN share = 1..L /\ routed \in Nat /\ routed < MaxRequests
      /\ current_server_index \in Nat /\ current_server_index < MaxRequests /\ L > 0
      /\ \A i \in 1..L : servers[i] \in BackendServer /\ share[i] \in Nat /\ servers[i].connections \in Nat
      /\ \A i \in 1..L : servers[i].connections <= routed /\ share[i] <= routed
      /\ \A i \in 1..L : servers[i].steady => servers[i].state = "HEALTHY"
  <2>1. servers # << >> /\ routed < MaxRequests /\ current_server_index < MaxRequests BY DEF load_balancer_route_request
  <2>2. L \in Nat /\ (L = 0 => servers = << >>) BY DEF PoolInv, PoolTypes
  <2> QED BY <2>1, <2>2, Servers DEF PoolInv
<1>2. /\ servers' = [i \in 1..L |-> IF i \in chosen THEN more(i) ELSE servers[i]]
      /\ share' = [i \in 1..L |-> IF i \in chosen THEN share[i] + 1 ELSE share[i]]
      /\ routed' = IF chosen = {} THEN routed ELSE routed + 1
      /\ current_server_index' = IF algorithm = "LEAST_CONN" \/ Selected = {} THEN current_server_index ELSE current_server_index + 1
      /\ UNCHANGED <<algorithm, next_server_id>>
  BY <1>1 DEF load_balancer_route_request
<1>3. \A i \in 1..L : more(i).connections = servers[i].connections + 1 /\ more(i).steady = servers[i].steady /\ more(i).state = servers[i].state
  BY <1>1 DEF BackendServer
<1>4. \A i \in 1..L : more(i) \in BackendServer
  <2> SUFFICES ASSUME NEW i \in 1..L PROVE more(i) \in BackendServer OBVIOUS
  <2>1. servers[i] \in BackendServer /\ servers[i].connections + 1 \in 0..MaxRequests BY <1>1, BalancerAssumption
  <2> QED BY <2>1 DEF BackendServer
<1>5. chosen \subseteq 1..L BY <1>1
<1> HIDE DEF more, chosen
<1>6. \A i \in 1..L : /\ servers'[i] = IF i \in chosen THEN more(i) ELSE servers[i]
                      /\ share'[i] = IF i \in chosen THEN share[i] + 1 ELSE share[i]
  BY <1>2
<1>7. servers' \in [1..L -> BackendServer] BY <1>1, <1>2, <1>4
<1>8. servers' \in Seq(BackendServer) /\ Len(servers') = L BY <1>1, <1>7
<1>9. share' \in Seq(0..MaxRequests) /\ Len(share') = L
  <2>1. \A i \in 1..L : share'[i] \in 0..MaxRequests BY <1>1, <1>6, BalancerAssumption
  <2>2. share' \in [1..L -> 0..MaxRequests] BY <1>2, <2>1
  <2> QED BY Zenon, <1>1, <2>2, Lists
<1>10. PoolTypes'
  <2>1. routed' \in 0..MaxRequests /\ current_server_index' \in 0..MaxRequests BY <1>1, <1>2, BalancerAssumption
  <2> QED BY <1>2, <1>8, <1>9, <2>1 DEF PoolInv, PoolTypes
<1>11. ASSUME NEW i \in 1..L
       PROVE  /\ servers'[i].connections <= routed' /\ share'[i] <= routed'
              /\ servers'[i].steady => servers'[i].state = "HEALTHY"
  <2>1. CASE i \in chosen
    <3>1. routed' = routed + 1 BY <1>2, <2>1
    <3> QED BY <1>1, <1>3, <1>6, <2>1, <3>1
  <2>2. CASE i \notin chosen
    <3>1. routed' \in Nat /\ routed <= routed' BY <1>1, <1>2
    <3> QED BY <1>1, <1>6, <2>2, <3>1
  <2> QED BY <2>1, <2>2
<1>12. ASSUME algorithm \in {"ROUND_ROBIN", "RANDOM"} PROVE InTurn(current_server_index' % L, share', L)
  <2> DEFINE p == current_server_index % L
             q == current_server_index' % L
  <2>1. L \in Nat /\ L > 0 /\ p \in 0..(L - 1) BY <1>1, NextTurn
  <2>2. (current_server_index + 1) % L = IF p = L - 1 THEN 0 ELSE p + 1 BY Zenon, <1>1, NextTurn
  <2>3. Selected = {p + 1} /\ algorithm # "LEAST_CONN" BY <1>12 DEF Selected
  <2>4. q = IF p = L - 1 THEN 0 ELSE p + 1 BY <1>2, <2>2, <2>3
  <2>5. InTurn(p, share, L) BY <1>12 DEF PoolInv
  <2> HIDE DEF p, q
  <2>6. p + 1 \in 1..L /\ q \in 0..(L - 1) BY <2>1, <2>4
  <2>7. chosen = {p + 1} BY <1>1, <2>3, <2>6 DEF chosen
  <2>8. \A i \in 1..L : share'[i] = IF i = p + 1 THEN share[i] + 1 ELSE share[i] BY <1>6, <2>7
  <2>9. \A i \in 1..L : share[i] \in Nat BY <1>1
  <2>10. InTurn(q, share', L) BY Zenon, <2>1, <2>4, <2>5, <2>6, <2>8, <2>9, TurnTaken
  <2> QED BY <2>10 DEF q
<1>13. ASSUME algorithm = "LEAST_CONN" PROVE Latecomers(servers')
  <2> SUFFICES ASSUME NEW i \in 1..L, NEW j \in 1..L, i > j, servers'[j].steady
               PROVE  servers'[i].connections <= servers'[j].connections + 1
    BY <1>8 DEF Latecomers
  <2>1. servers[j].steady /\ servers[j].state = "HEALTHY" BY <1>1, <1>3, <1>6
  <2>2. servers[i].connections <= servers[j].connections + 1 BY <1>13, <2>1 DEF PoolInv, Latecomers
  <2>3. servers'[j].connections \in Nat /\ servers'[j].connections >= servers[j].connections
    <3>1. servers'[j].connections = servers[j].connections \/ servers'[j].connections = servers[j].connections + 1
      BY <1>3, <1>6
    <3> QED BY <1>1, <3>1
  <2>4. CASE i \notin chosen
    <3>1. servers'[i] = servers[i] BY <1>6, <2>4
    <3> QED BY <1>1, <2>2, <2>3, <3>1
  <2>5. CASE i \in chosen
    <3>1. i \in Fewest BY <1>13, <2>5 DEF chosen, Selected
    <3>2. j \in Healthy BY <1>1, <2>1 DEF Healthy
    <3>3. servers[i].connections < servers[j].connections BY <1>1, <3>1, <3>2 DEF Fewest
    <3>4. servers'[i].connections = servers[i].connections + 1 BY <1>3, <1>6, <2>5
    <3> QED BY <1>1, <2>3, <3>3, <3>4
  <2> QED BY <2>4, <2>5
<1> QED BY <1>2, <1>8, <1>10, <1>11, <1>12, <1>13 DEF PoolInv

\* Every call of the pool keeps its invariant.
LEMMA PoolStep ==
  ASSUME PoolInv, PoolNext
  PROVE  PoolInv'
BY AddKeeps, RemoveKeeps, StatesKeep, RouteKeeps DEF PoolNext

-----------------------------------------------------------------------------
(* The balancer of services. *)

Shares(list) == [i \in 1..Len(list) |-> list[i].share]

Later(list) ==
  \A i, j \in 1..Len(list) :
    (i > j /\ list[j].steady) => list[i].current_connections <= list[j].current_connections + 1

\* As long as no server was removed a server's id is its place, so that the request
\* is counted where the algorithm meant it; a steady server is active; and no
\* share exceeds the connections that bound it.
ServiceTypes ==
  /\ backends \in Seq(ServiceServer) /\ Len(backends) <= MaxBackendServers
  /\ lb_algorithm \in ServiceAlgorithm \union {Nothing} /\ current_server_idx \in 0..MaxRequests
  /\ divided \in BOOLEAN /\ removed \in BOOLEAN

ServiceInv ==
  /\ ServiceTypes
  /\ lb_algorithm = Nothing => Len(backends) = 0
  /\ \A i \in 1..Len(backends) :
       /\ backends[i].share <= backends[i].current_connections
       /\ backends[i].steady => backends[i].state = "ACTIVE"
       /\ ~removed => backends[i].server_id = i
  /\ (~removed /\ lb_algorithm = "ROUND_ROBIN") =>
       InTurn(current_server_idx % Len(backends), Shares(backends), Len(backends))
  /\ (~removed /\ lb_algorithm = "LEAST_CONNECTIONS") => Later(backends)

\* A server has the types of its fields.
LEMMA Backends ==
  ASSUME ServiceTypes
  PROVE  /\ Len(backends) \in Nat /\ DOMAIN backends = 1..Len(backends) /\ backends \in [1..Len(backends) -> ServiceServer]
         /\ \A i \in 1..Len(backends) :
              /\ backends[i] \in ServiceServer /\ backends[i].share \in Nat /\ backends[i].current_connections \in Nat
              /\ backends[i].steady \in BOOLEAN /\ backends[i].server_id \in 1..MaxBackendServers
<1>1. \A i \in 1..Len(backends) : backends[i] \in ServiceServer BY DEF ServiceTypes
<1>2. \A s \in ServiceServer : /\ s.current_connections \in Nat /\ s.share \in Nat /\ s.steady \in BOOLEAN
                               /\ s.server_id \in 1..MaxBackendServers
  BY BalancerAssumption DEF ServiceServer
<1> QED BY <1>1, <1>2 DEF ServiceTypes

\* Servers that change their states and become steady no more keep the invariant.
LEMMA StateChangeKeeps ==
  ASSUME ServiceInv, UNCHANGED <<lb_algorithm, current_server_idx, divided, removed>>,
         backends' \in [1..Len(backends) -> ServiceServer],
         \A i \in 1..Len(backends) :
           /\ backends'[i].server_id = backends[i].server_id /\ backends'[i].share = backends[i].share
           /\ backends'[i].current_connections = backends[i].current_connections
           /\ backends'[i].steady => backends[i].steady /\ backends'[i].state = "ACTIVE"
  PROVE  ServiceInv'
<1>1. Len(backends) \in Nat BY Backends DEF ServiceInv
<1>2. backends' \in Seq(ServiceServer) /\ Len(backends') = Len(backends) BY <1>1, Lists
<1>3. ServiceTypes' BY <1>2 DEF ServiceInv, ServiceTypes
<1>4. Shares(backends') = Shares(backends) BY <1>2 DEF Shares
<1>5. Later(backends) => Later(backends') BY <1>2 DEF Later
<1> QED BY <1>2, <1>3, <1>4, <1>5 DEF ServiceInv

\* The calls that change the state of a server, and the health checks.
LEMMA ServiceStatesKeep ==
  ASSUME ServiceInv,
         \/ lb_health_check_all_servers
         \/ \E i \in DOMAIN backends :
              lb_mark_server_draining(i) \/ lb_mark_server_down(i) \/ lb_restore_server(i) \/ lb_perform_health_check(i)
  PROVE  ServiceInv'
<1> DEFINE L == Len(backends)
<1>1. /\ L \in Nat /\ DOMAIN backends = 1..L /\ backends \in [1..L -> ServiceServer]
      /\ \A i \in 1..L : backends[i] \in ServiceServer /\ (backends[i].steady => backends[i].state = "ACTIVE")
  BY Backends DEF ServiceInv
<1>2. ASSUME NEW i \in 1..L, NEW state \in ServerState, SetState(i, state) PROVE ServiceInv'
  <2> DEFINE t == [backends[i] EXCEPT !.state = state, !.steady = @ /\ state = "ACTIVE"]
  <2>1. /\ t \in ServiceServer /\ t.server_id = backends[i].server_id /\ t.share = backends[i].share
        /\ t.current_connections = backends[i].current_connections
        /\ t.steady => backends[i].steady /\ t.state = "ACTIVE"
    BY Zenon, <1>1 DEF ServiceServer
  <2>2. backends' = [backends EXCEPT ![i] = t] /\ UNCHANGED <<lb_algorithm, current_server_idx, divided, removed>>
    BY Zenon, <1>1, <1>2 DEF SetState
  <2> HIDE DEF t
  <2>3. backends' \in [1..L -> ServiceServer] BY <1>1, <2>1, <2>2
  <2>4. \A k \in 1..L : backends'[k] = IF k = i THEN t ELSE backends[k] BY <1>1, <2>2
  <2> QED BY <1>1, <2>1, <2>2, <2>3, <2>4, StateChangeKeeps
<1>3. ASSUME NEW places, backends' = Checked(places), UNCHANGED <<lb_algorithm, current_server_idx, divided, removed>>
      PROVE  ServiceInv'
  <2> DEFINE t(i) == [backends[i] EXCEPT !.state = "ACTIVE"]
             up(i) == i \in places /\ backends[i].current_connections < MaxConnections
  <2>1. \A i \in 1..L : /\ t(i) \in ServiceServer /\ t(i).server_id = backends[i].server_id /\ t(i).share = backends[i].share
                        /\ t(i).current_connections = backends[i].current_connections
                        /\ t(i).steady = backends[i].steady /\ t(i).state = "ACTIVE"
    BY <1>1 DEF ServiceServer, ServerState
  <2>2. backends' = [i \in 1..L |-> IF up(i) THEN t(i) ELSE backends[i]] BY <1>1, <1>3 DEF Checked
  <2> HIDE DEF t, up
  <2>3. backends' \in [1..L -> ServiceServer] BY <1>1, <2>1, <2>2
  <2>4. \A k \in 1..L : backends'[k] = IF up(k) THEN t(k) ELSE backends[k] BY <2>2
  <2> QED BY <1>1, <1>3, <2>1, <2>3, <2>4, StateChangeKeeps
<1>4. "DRAINING" \in ServerState /\ "DOWN" \in ServerState /\ "ACTIVE" \in ServerState BY DEF ServerState
<1> QED
  BY Zenon, <1>1, <1>2, <1>3, <1>4
  DEF lb_mark_server_draining, lb_mark_server_down, lb_restore_server, lb_perform_health_check, lb_health_check_all_servers

\* A balancer is created without servers.
LEMMA CreateKeeps ==
  ASSUME ServiceInv, NEW chosen \in ServiceAlgorithm, lb_create(chosen)
  PROVE  ServiceInv'
<1>1. /\ Len(backends) = 0 /\ lb_algorithm' = chosen
      /\ UNCHANGED <<backends, current_server_idx, divided, removed>>
  BY DEF lb_create, ServiceInv
<1>2. ServiceTypes' BY <1>1 DEF ServiceInv, ServiceTypes
<1>3. chosen # Nothing BY DEF ServiceAlgorithm, Nothing
<1>4. Len(backends') = 0 BY <1>1
<1>5. \A p : InTurn(p, Shares(backends'), Len(backends')) BY <1>4 DEF InTurn
<1>6. Later(backends') BY <1>4 DEF Later
<1> QED BY <1>1, <1>2, <1>3, <1>4, <1>5, <1>6 DEF ServiceInv

\* The shares of all servers start again with a new one, whose id is its place.
LEMMA AddBackendKeeps ==
  ASSUME ServiceInv, lb_add_backend_server
  PROVE  ServiceInv'
<1> DEFINE L == Len(backends)
           new == [server_id |-> L + 1, state |-> "ACTIVE", current_connections |-> 0, steady |-> TRUE, share |-> 0]
           t(i) == [backends[i] EXCEPT !.share = 0]
           old == Unshared(backends)
<1>1. /\ L \in Nat /\ DOMAIN backends = 1..L /\ L < MaxBackendServers /\ lb_algorithm # Nothing
      /\ \A i \in 1..L : backends[i] \in ServiceServer /\ backends[i].current_connections \in Nat
      /\ backends' = Append(old, new) /\ UNCHANGED <<lb_algorithm, current_server_idx, divided, removed>>
  BY Backends DEF ServiceInv, lb_add_backend_server
<1>2. /\ new \in ServiceServer /\ new.share = 0 /\ new.current_connections = 0 /\ new.state = "ACTIVE" /\ new.server_id = L + 1
  <2>1. 0 \in 0..MaxRequests /\ L + 1 \in 1..MaxBackendServers BY <1>1, BalancerAssumption
  <2> QED BY <2>1 DEF ServiceServer, ServerState
<1>3. \A i \in 1..L : /\ t(i) \in ServiceServer /\ t(i).share = 0 /\ t(i).current_connections = backends[i].current_connections
                      /\ t(i).steady = backends[i].steady /\ t(i).state = backends[i].state /\ t(i).server_id = backends[i].server_id
  <2>1. 0 \in 0..MaxRequests BY BalancerAssumption
  <2> QED BY <1>1, <2>1 DEF ServiceServer
<1>4. old = [i \in 1..L |-> t(i)] BY <1>1 DEF Unshared
<1> HIDE DEF new, t, old
<1>5. old \in [1..L -> ServiceServer] BY <1>3, <1>4
<1>6. old \in Seq(ServiceServer) /\ Len(old) = L BY <1>1, <1>5, Lists
<1>7. /\ backends' \in Seq(ServiceServer) /\ Len(backends') = L + 1
      /\ \A i \in 1..(L + 1) : backends'[i] = IF i = L + 1 THEN new ELSE t(i)
  <2>1. backends' \in Seq(ServiceServer) /\ Len(backends') = L + 1 BY <1>1, <1>2, <1>6
  <2>2. \A i \in 1..(L + 1) : backends'[i] = IF i = L + 1 THEN new ELSE old[i] BY <1>1, <1>6
  <2>3. \A i \in 1..L : old[i] = t(i) BY <1>4
  <2> QED BY <1>1, <2>1, <2>2, <2>3
<1>8. ServiceTypes' BY <1>1, <1>7, BalancerAssumption DEF ServiceInv, ServiceTypes
<1>9. \A i \in 1..(L + 1) : i # L + 1 => i \in 1..L BY <1>1
<1>10. \A i \in 1..(L + 1) : backends'[i].share = 0 BY <1>2, <1>3, <1>7, <1>9
<1>11. ASSUME NEW i \in 1..(L + 1)
       PROVE  /\ backends'[i].share <= backends'[i].current_connections
              /\ backends'[i].steady => backends'[i].state = "ACTIVE"
              /\ ~removed => backends'[i].server_id = i
  <2>1. CASE i = L + 1 BY <1>2, <1>7, <2>1
  <2>2. CASE i # L + 1
    <3>1. i \in 1..L /\ backends'[i] = t(i) BY <1>7, <1>9, <2>2
    <3> QED BY <1>1, <1>3, <1>10, <3>1 DEF ServiceInv
  <2> QED BY <2>1, <2>2
<1>12. \A p : InTurn(p, Shares(backends'), L + 1)
  <2>1. \A i \in 1..(L + 1) : Shares(backends')[i] = 0 BY <1>7, <1>10 DEF Shares
  <2> QED BY <2>1 DEF InTurn
<1>13. ASSUME Later(backends) PROVE Later(backends')
  <2> SUFFICES ASSUME NEW i \in 1..(L + 1), NEW j \in 1..(L + 1), i > j, backends'[j].steady
               PROVE  backends'[i].current_connections <= backends'[j].current_connections + 1
    BY <1>7 DEF Later
  <2>1. j # L + 1 BY <1>1
  <2>2. j \in 1..L /\ backends'[j] = t(j) BY <1>7, <1>9, <2>1
  <2>3. backends'[j].current_connections = backends[j].current_connections /\ backends[j].steady BY <1>3, <2>2
  <2>4. CASE i = L + 1
    <3>1. backends'[i].current_connections = 0 BY <1>2, <1>7, <2>4
    <3> QED BY <1>1, <2>2, <2>3, <3>1
  <2>5. CASE i # L + 1
    <3>1. i \in 1..L /\ backends'[i] = t(i) BY <1>7, <1>9, <2>5
    <3>2. backends'[i].current_connections = backends[i].current_connections BY <1>3, <3>1
    <3> QED BY <1>13, <2>2, <2>3, <3>1, <3>2 DEF Later
  <2> QED BY <2>4, <2>5
<1> QED BY <1>1, <1>7, <1>8, <1>11, <1>12, <1>13 DEF ServiceInv

\* After a removal nothing is promised of shares.
LEMMA RemoveBackendKeeps ==
  ASSUME ServiceInv, NEW r \in DOMAIN backends, lb_remove_backend_server(r)
  PROVE  ServiceInv'
<1> DEFINE L == Len(backends)
<1>1. /\ L \in Nat /\ r \in 1..L /\ backends \in Seq(ServiceServer) /\ backends' = Without(backends, r) /\ removed' = TRUE
      /\ UNCHANGED <<lb_algorithm, current_server_idx, divided>>
  BY Backends DEF ServiceInv, ServiceTypes, lb_remove_backend_server
<1>2. /\ backends' \in Seq(ServiceServer) /\ Len(backends') = L - 1
      /\ \A k \in 1..(L - 1) : backends'[k] = IF k < r THEN backends[k] ELSE backends[k + 1]
  BY Zenon, <1>1, WithoutIs
<1>3. ServiceTypes' BY <1>1, <1>2, BalancerAssumption DEF ServiceInv, ServiceTypes
<1>4. lb_algorithm # Nothing BY <1>1 DEF ServiceInv
<1>5. \A k \in 1..(L - 1) : \E i \in 1..L : backends'[k] = backends[i]
  <2>1. \A k \in 1..(L - 1) : k \in 1..L /\ k + 1 \in 1..L BY <1>1
  <2> QED BY <1>2, <2>1
<1> QED BY <1>1, <1>2, <1>3, <1>4, <1>5 DEF ServiceInv

\* A request is counted at one place at most; as long as no server was removed that
\* is the place whose turn it is, or the first active one with the fewest connections.
LEMMA RouteBackendKeeps ==
  ASSUME ServiceInv, lb_route_request
  PROVE  ServiceInv'
<1> DEFINE L == Len(backends)
           more(i) == [backends[i] EXCEPT !.current_connections = backends[i].current_connections + 1, !.share = backends[i].share + 1]
<1>1. /\ L \in Nat /\ DOMAIN backends = 1..L /\ backends \in [1..L -> ServiceServer]
      /\ \A i \in 1..L : /\ backends[i] \in ServiceServer /\ backends[i].share \in Nat /\ backends[i].current_connections \in Nat
                         /\ backends[i].current_connections < MaxRequests /\ backends[i].share <= backends[i].current_connections
      /\ lb_algorithm # Nothing /\ current_server_idx \in Nat /\ current_server_idx < MaxRequests /\ MaxRequests \in Nat
  <2>1. ServiceTypes /\ MaxRequests \in Nat /\ current_server_idx \in Nat
    BY BalancerAssumption DEF ServiceInv, ServiceTypes
  <2>2. lb_algorithm # Nothing /\ current_server_idx < MaxRequests
    BY Zenon DEF lb_route_request
  <2>3. \A i \in DOMAIN backends : backends[i].current_connections < MaxRequests BY Zenon DEF lb_route_request
  <2>4. \A i \in 1..L : backends[i].share <= backends[i].current_connections BY DEF ServiceInv
  <2> HIDE DEF L
  <2>5. L = Len(backends) BY DEF L
  <2> QED BY Zenon, <2>1, <2>2, <2>3, <2>4, <2>5, Backends
<1>2. /\ current_server_idx' = IF lb_algorithm = "ROUND_ROBIN" THEN current_server_idx + 1 ELSE current_server_idx
      /\ UNCHANGED <<lb_algorithm, removed>> /\ divided' \in BOOLEAN
  BY Zenon DEF lb_route_request
<1>3. current_server_idx' \in 0..MaxRequests BY <1>1, <1>2
<1>4. CASE backends = << >>
  <2>1. backends' = backends /\ L = 0 BY <1>4 DEF lb_route_request
  <2>2. ServiceTypes' BY <1>2, <1>3, <2>1 DEF ServiceInv, ServiceTypes
  <2>3. \A p : InTurn(p, Shares(backends'), Len(backends')) BY <2>1 DEF InTurn
  <2>4. Later(backends') BY <2>1 DEF Later
  <2> QED BY <1>2, <2>1, <2>2, <2>3, <2>4 DEF ServiceInv
<1>5. CASE backends # << >>
  <2>1. PICK id \in SelectedIds :
          backends' = [i \in 1..L |-> IF i # id THEN backends[i] ELSE more(i)]
    BY Zenon, <1>1, <1>5 DEF lb_route_request
  <2>2. \A i \in 1..L : /\ more(i).share = backends[i].share + 1 /\ more(i).server_id = backends[i].server_id
                        /\ more(i).current_connections = backends[i].current_connections + 1
                        /\ more(i).steady = backends[i].steady /\ more(i).state = backends[i].state
    BY <1>1 DEF ServiceServer
  <2>3. ASSUME NEW i \in 1..L PROVE more(i) \in ServiceServer
    <3>1. /\ backends[i] \in ServiceServer /\ backends[i].current_connections + 1 \in 0..MaxRequests
          /\ backends[i].share + 1 \in 0..MaxRequests
      BY <1>1
    <3> QED BY Zenon, <3>1 DEF ServiceServer
  <2> HIDE DEF more
  <2>4. \A i \in 1..L : backends'[i] = IF i # id THEN backends[i] ELSE more(i) BY <2>1
  <2>5. backends' \in [1..L -> ServiceServer] BY <1>1, <2>1, <2>3
  <2>6. backends' \in Seq(ServiceServer) /\ Len(backends') = L BY <1>1, <2>5, Lists
  <2>7. ServiceTypes' BY <1>2, <1>3, <2>6 DEF ServiceInv, ServiceTypes
  <2>8. ASSUME NEW i \in 1..L
        PROVE  /\ backends'[i].share <= backends'[i].current_connections
               /\ backends'[i].steady => backends'[i].state = "ACTIVE"
               /\ ~removed => backends'[i].server_id = i
    <3>1. CASE i # id BY <2>4, <3>1 DEF ServiceInv
    <3>2. CASE i = id
      <4>1. backends'[i] = more(i) BY <2>4, <3>2
      <4> QED BY <1>1, <2>2, <4>1 DEF ServiceInv
    <3> QED BY <3>1, <3>2
  <2>9. L > 0
    <3>1. L = 0 => backends = << >> BY DEF ServiceInv, ServiceTypes
    <3> QED BY <1>1, <1>5, <3>1
  <2>10. ASSUME ~removed, lb_algorithm = "ROUND_ROBIN"
         PROVE  InTurn(current_server_idx' % L, Shares(backends'), L)
    <3> DEFINE p == current_server_idx % L
               q == current_server_idx' % L
    <3>1. p \in 0..(L - 1) BY <1>1, <2>9, NextTurn
    <3>2. (current_server_idx + 1) % L = IF p = L - 1 THEN 0 ELSE p + 1 BY Zenon, <1>1, <2>9, NextTurn
    <3>3. q = IF p = L - 1 THEN 0 ELSE p + 1 BY <1>2, <2>10, <3>2
    <3>4. id = backends[p + 1].server_id BY <2>1, <2>10 DEF SelectedIds, Turn
    <3>5. InTurn(p, Shares(backends), L) BY <2>10 DEF ServiceInv
    <3> HIDE DEF p, q
    <3> HIDE DEF L
    <3>6. p + 1 \in 1..L /\ q \in 0..(L - 1)
      <4>1. L \in Nat BY <1>1
      <4> QED BY <4>1, <3>1, <3>3
    <3> USE DEF L
    <3>7. id = p + 1 BY <2>10, <3>4, <3>6 DEF ServiceInv
    <3>8. \A i \in 1..L : Shares(backends)[i] = backends[i].share /\ Shares(backends')[i] = backends'[i].share
      BY <2>6 DEF Shares
    <3>9. \A i \in 1..L : Shares(backends)[i] \in Nat BY <1>1, <3>8
    <3>10. \A i \in 1..L : Shares(backends')[i] = IF i = p + 1 THEN Shares(backends)[i] + 1 ELSE Shares(backends)[i]
      BY <2>2, <2>4, <3>7, <3>8
    <3>11. InTurn(q, Shares(backends'), L) BY Zenon, <1>1, <2>9, <3>1, <3>3, <3>5, <3>6, <3>9, <3>10, TurnTaken
    <3> QED BY <3>11 DEF q
  <2>11. ASSUME ~removed, lb_algorithm = "LEAST_CONNECTIONS" PROVE Later(backends')
    <3> SUFFICES ASSUME NEW i \in 1..L, NEW j \in 1..L, i > j, backends'[j].steady
                 PROVE  backends'[i].current_connections <= backends'[j].current_connections + 1
      BY <2>6 DEF Later
    <3>1. backends[j].steady BY <2>2, <2>4
    <3>2. backends[j].state = "ACTIVE" BY <3>1 DEF ServiceInv
    <3>3. backends[i].current_connections <= backends[j].current_connections + 1 BY <2>11, <3>1 DEF ServiceInv, Later
    <3>4. \/ backends'[j].current_connections = backends[j].current_connections
          \/ backends'[j].current_connections = backends[j].current_connections + 1
      BY <2>2, <2>4
    <3>5. CASE i # id
      <4>1. backends'[i] = backends[i] BY <2>4, <3>5
      <4> QED BY <1>1, <3>3, <3>4, <4>1
    <3>6. CASE i = id
      <4>1. PICK k \in Least : id = backends[k].server_id BY <2>1, <2>11 DEF SelectedIds
      <4>2. k \in 1..L BY <1>1, <4>1 DEF Least, ActiveServers
      <4>3. k = i BY <2>11, <3>6, <4>1, <4>2 DEF ServiceInv
      <4>4. j \in ActiveServers BY <1>1, <3>2 DEF ActiveServers
      <4>5. backends[i].current_connections < backends[j].current_connections BY <1>1, <4>1, <4>3, <4>4 DEF Least
      <4>6. backends'[i].current_connections = backends[i].current_connections + 1 BY <2>2, <2>4, <3>6
      <4> QED BY <1>1, <3>4, <4>5, <4>6
    <3> QED BY <3>5, <3>6
  <2> QED BY <1>1, <1>2, <2>6, <2>7, <2>8, <2>10, <2>11 DEF ServiceInv
<1> QED BY <1>4, <1>5

\* Every call of the balancer of services keeps its invariant.
LEMMA ServiceStep ==
  ASSUME ServiceInv, BalancerNext
  PROVE  ServiceInv'
BY ServiceStatesKeep, CreateKeeps, AddBackendKeeps, RemoveBackendKeeps, RouteBackendKeeps DEF BalancerNext

-----------------------------------------------------------------------------
(* Client connections. *)

SessionTypes ==
  /\ slots \in [1..MaxClients -> ClientConnection] /\ connection_count \in 0..MaxClients
  /\ stored \in [ConnectionId -> SessionData \union {Nothing}]

\* A new connection gets the slot behind the others.
LEMMA OpenKeeps ==
  ASSUME SessionTypes, SessionsKept, NEW id \in ConnectionId, lb_handle_client_connection(id)
  PROVE  SessionTypes' /\ SessionsKept'
<1> DEFINE n == connection_count
           new == [slots[n + 1] EXCEPT !.connection_id = id]
<1>1. n \in Nat /\ n < MaxClients /\ MaxClients \in Nat /\ n + 1 \in 1..MaxClients
  BY BalancerAssumption DEF lb_handle_client_connection, SessionTypes
<1>2. new \in ClientConnection
  <2>1. slots[n + 1] \in ClientConnection BY <1>1 DEF SessionTypes
  <2> QED BY <2>1 DEF ClientConnection
<1>3. slots' = [slots EXCEPT ![n + 1] = new] /\ connection_count' = n + 1 /\ stored' = stored
  BY DEF lb_handle_client_connection
<1> HIDE DEF new
<1>4. SessionTypes' BY <1>1, <1>2, <1>3 DEF SessionTypes
<1>5. \A d \in 1..n : slots'[d] = slots[d] BY <1>1, <1>3 DEF SessionTypes
<1>6. ASSUME NEW k \in ConnectionId, NEW c \in FirstOf(k) PROVE c \in FirstOf(k)' /\ slots'[c] = slots[c]
  <2>1. c \in 1..n /\ slots[c].connection_id = k /\ \A d \in 1..(c - 1) : slots[d].connection_id # k BY DEF FirstOf
  <2>2. c \in 1..(n + 1) /\ \A d \in 1..(c - 1) : d \in 1..n BY <1>1, <2>1
  <2>3. slots'[c] = slots[c] /\ \A d \in 1..(c - 1) : slots'[d] = slots[d] BY <1>5, <2>1, <2>2
  <2> QED BY <1>3, <2>1, <2>2, <2>3 DEF FirstOf
<1>7. SessionsKept'
  <2> SUFFICES ASSUME NEW k \in ConnectionId, stored'[k] # Nothing
               PROVE  \E c \in FirstOf(k)' : slots'[c].session_data = stored'[k]
    BY DEF SessionsKept
  <2>1. PICK c \in FirstOf(k) : slots[c].session_data = stored[k] BY <1>3 DEF SessionsKept
  <2> QED BY <1>3, <1>6, <2>1
<1> QED BY <1>4, <1>7

\* The slots behind the closed one move down by one, in order.
LEMMA CloseKeeps ==
  ASSUME SessionTypes, SessionsKept, NEW id \in ConnectionId, lb_close_client_connection(id)
  PROVE  SessionTypes' /\ SessionsKept'
<1> DEFINE n == connection_count
<1>1. PICK c \in FirstOf(id) : slots' = Moved(c) /\ connection_count' = n - 1
  BY DEF lb_close_client_connection
<1>2. /\ n \in Nat /\ n <= MaxClients /\ MaxClients \in Nat /\ c \in 1..n /\ slots[c].connection_id = id
      /\ slots \in [1..MaxClients -> ClientConnection] /\ DOMAIN slots = 1..MaxClients
  BY BalancerAssumption DEF FirstOf, SessionTypes
<1>3. stored' = [stored EXCEPT ![id] = Nothing] BY DEF lb_close_client_connection
<1>4. /\ slots' \in [1..MaxClients -> ClientConnection]
      /\ \A d \in 1..MaxClients : slots'[d] = IF d \in c..(n - 1) THEN slots[d + 1] ELSE slots[d]
  <2>1. \A d \in 1..MaxClients : d \in c..(n - 1) => d + 1 \in 1..MaxClients BY <1>2
  <2> QED BY <1>1, <1>2, <2>1 DEF Moved
<1>5. SessionTypes' BY <1>1, <1>2, <1>3, <1>4 DEF SessionTypes
<1>6. ASSUME NEW k \in ConnectionId, k # id, NEW e \in FirstOf(k)
      PROVE  \E f \in FirstOf(k)' : slots'[f] = slots[e]
  <2>1. e \in 1..n /\ slots[e].connection_id = k /\ \A d \in 1..(e - 1) : slots[d].connection_id # k BY DEF FirstOf
  <2>2. e # c BY <1>2, <1>6, <2>1
  <2>3. CASE e < c
    <3>1. e \in 1..(n - 1) /\ e \in 1..MaxClients /\ e \notin c..(n - 1) BY <1>2, <2>1, <2>3
    <3>2. \A d \in 1..(e - 1) : d \in 1..MaxClients /\ d \notin c..(n - 1) BY <1>2, <2>1, <2>3
    <3>3. slots'[e] = slots[e] /\ \A d \in 1..(e - 1) : slots'[d] = slots[d] BY <1>4, <3>1, <3>2
    <3>4. e \in FirstOf(k)' BY <1>1, <2>1, <3>1, <3>3 DEF FirstOf
    <3> QED BY <3>3, <3>4
  <2>4. CASE e > c
    <3> DEFINE f == e - 1
    <3>1. /\ f \in 1..(n - 1) /\ f \in c..(n - 1) /\ f \in 1..MaxClients /\ f + 1 = e
          /\ \A d \in 1..(f - 1) : d \in 1..MaxClients /\ d \in 1..(e - 1) /\ d + 1 \in 1..(e - 1)
      BY <1>2, <2>1, <2>4
    <3> HIDE DEF f
    <3>2. slots'[f] = slots[e] BY <1>4, <3>1
    <3>3. \A d \in 1..(f - 1) : slots'[d] = slots[d + 1] \/ slots'[d] = slots[d] BY <1>4, <3>1
    <3>4. \A d \in 1..(f - 1) : slots'[d].connection_id # k BY <2>1, <3>1, <3>3
    <3>5. f \in FirstOf(k)' BY <1>1, <2>1, <3>1, <3>2, <3>4 DEF FirstOf
    <3> QED BY <3>2, <3>5
  <2> QED BY <1>2, <2>1, <2>2, <2>3, <2>4
<1>7. SessionsKept'
  <2> SUFFICES ASSUME NEW k \in ConnectionId, stored'[k] # Nothing
               PROVE  \E f \in FirstOf(k)' : slots'[f].session_data = stored'[k]
    BY DEF SessionsKept
  <2>1. k # id /\ stored'[k] = stored[k] BY <1>3 DEF SessionTypes
  <2>2. PICK e \in FirstOf(k) : slots[e].session_data = stored[k] BY <2>1 DEF SessionsKept
  <2> QED BY <1>6, <2>1, <2>2
<1> QED BY <1>5, <1>7

\* Data goes to the first slot of the connection, which is where it is looked for.
LEMMA StoreKeeps ==
  ASSUME SessionTypes, SessionsKept, NEW id \in ConnectionId, NEW data \in SessionData,
         lb_store_session_data(id, data)
  PROVE  SessionTypes' /\ SessionsKept'
<1> DEFINE n == connection_count
<1>1. PICK c \in FirstOf(id) : slots' = [slots EXCEPT ![c].session_data = data]
  BY Zenon DEF lb_store_session_data
<1>2. stored' = [stored EXCEPT ![id] = data] /\ connection_count' = n BY DEF lb_store_session_data
<1> DEFINE new == [slots[c] EXCEPT !.session_data = data]
<1>3. n \in Nat /\ n <= MaxClients /\ c \in 1..n /\ c \in 1..MaxClients /\ slots[c].connection_id = id
  BY BalancerAssumption DEF FirstOf, SessionTypes
<1>4. new \in ClientConnection /\ new.session_data = data /\ new.connection_id = id
  <2>1. slots[c] \in ClientConnection BY <1>3 DEF SessionTypes
  <2> QED BY <1>3, <2>1 DEF ClientConnection
<1>5. slots' = [slots EXCEPT ![c] = new] BY <1>1
<1> HIDE DEF new
<1>6. SessionTypes' BY <1>2, <1>3, <1>4, <1>5 DEF SessionTypes
<1>7. \A d \in 1..MaxClients : slots'[d] = IF d = c THEN new ELSE slots[d] BY <1>3, <1>5 DEF SessionTypes
<1>8. \A d \in 1..n : slots'[d].connection_id = slots[d].connection_id /\ (d # c => slots'[d] = slots[d])
  <2>1. \A d \in 1..n : d \in 1..MaxClients BY <1>3, BalancerAssumption
  <2> QED BY <1>3, <1>4, <1>7, <2>1
<1>9. ASSUME NEW k \in ConnectionId, NEW e \in FirstOf(k) PROVE e \in FirstOf(k)'
  <2>1. e \in 1..n /\ slots[e].connection_id = k /\ \A d \in 1..(e - 1) : slots[d].connection_id # k BY DEF FirstOf
  <2>2. \A d \in 1..(e - 1) : d \in 1..n BY <1>3, <2>1
  <2> QED BY <1>2, <1>8, <2>1, <2>2 DEF FirstOf
<1>10. SessionsKept'
  <2> SUFFICES ASSUME NEW k \in ConnectionId, stored'[k] # Nothing
               PROVE  \E e \in FirstOf(k)' : slots'[e].session_data = stored'[k]
    BY DEF SessionsKept
  <2>1. CASE k = id
    <3>1. stored'[k] = data BY <1>2, <2>1 DEF SessionTypes
    <3> QED BY <1>3, <1>4, <1>7, <1>9, <2>1, <3>1
  <2>2. CASE k # id
    <3>1. stored'[k] = stored[k] BY <1>2, <2>2 DEF SessionTypes
    <3>2. PICK e \in FirstOf(k) : slots[e].session_data = stored[k] BY <3>1 DEF SessionsKept
    <3>3. e \in 1..n /\ e # c BY <1>3, <2>2 DEF FirstOf
    <3> QED BY <1>8, <1>9, <3>1, <3>2, <3>3
  <2> QED BY <2>1, <2>2
<1> QED BY <1>6, <1>10

\* Every call of the connection table keeps what connections stored.
LEMMA SessionsStep ==
  ASSUME SessionTypes, SessionsKept, SessionsNext
  PROVE  SessionTypes' /\ SessionsKept'
BY OpenKeeps, CloseKeeps, StoreKeeps DEF SessionsNext

-----------------------------------------------------------------------------
(* The traffic shaper. *)

\* What passed of a class is what its first limiter counted, and nothing passed
\* before it has one.
FirstCounts ==
  \A c \in Class :
    /\ LimiterFor(c, 0) = {} => passed[c] = 0
    /\ \A j \in LimiterFor(c, 0) : passed[c] = limiters[j].bytes

ShaperTypes ==
  /\ rules \in Seq(TrafficRule) /\ Len(rules) <= MaxRules
  /\ limiters \in Seq(RateLimiter) /\ Len(limiters) <= MaxLimiters
  /\ next_rule_id \in 1..(MaxRuleId + 1) /\ passed \in [Class -> Nat]

ShaperInv == ShaperTypes /\ TokensConserved /\ FirstCounts

\* Rules have no part in what the limiters count.
LEMMA RulesKeep ==
  ASSUME ShaperInv,
         \/ \E flow \in Flow, class \in Class : traffic_rule_add(flow, class)
         \/ \E id \in 1..MaxRuleId : traffic_rule_remove(id)
  PROVE  ShaperInv'
<1>1. ASSUME NEW flow \in Flow, NEW class \in Class, traffic_rule_add(flow, class) PROVE ShaperInv'
  <2> DEFINE new == [id |-> next_rule_id, flow |-> flow, class |-> class]
  <2>1. new \in TrafficRule BY <1>1, BalancerAssumption DEF traffic_rule_add, ShaperInv, ShaperTypes, TrafficRule
  <2>2. rules' = Append(rules, new) /\ UNCHANGED <<limiters, passed>> /\ Len(rules) < MaxRules
    BY <1>1 DEF traffic_rule_add
  <2> HIDE DEF new
  <2>3. rules' \in Seq(TrafficRule) /\ Len(rules') <= MaxRules
    BY <2>1, <2>2, BalancerAssumption DEF ShaperInv, ShaperTypes
  <2>4. next_rule_id' \in 1..(MaxRuleId + 1)
    BY <1>1, BalancerAssumption DEF traffic_rule_add, ShaperInv, ShaperTypes
  <2> QED BY <2>2, <2>3, <2>4 DEF ShaperInv, ShaperTypes, TokensConserved, FirstCounts, LimiterFor
<1>2. ASSUME NEW id \in 1..MaxRuleId, traffic_rule_remove(id) PROVE ShaperInv'
  <2>1. PICK i \in 1..Len(rules) : rules' = Without(rules, i) /\ UNCHANGED <<limiters, next_rule_id, passed>>
    BY <1>2 DEF traffic_rule_remove
  <2>2. rules' \in Seq(TrafficRule) /\ Len(rules') = Len(rules) - 1 BY <2>1, WithoutIs DEF ShaperInv, ShaperTypes
  <2>3. Len(rules') <= MaxRules BY <2>2, BalancerAssumption DEF ShaperInv, ShaperTypes
  <2> QED BY <2>1, <2>2, <2>3 DEF ShaperInv, ShaperTypes, TokensConserved, FirstCounts, LimiterFor
<1> QED BY <1>1, <1>2

\* A limiter has the types of its fields.
LEMMA Limiters ==
  ASSUME ShaperInv
  PROVE  /\ Len(limiters) \in Nat /\ limiters \in [1..Len(limiters) -> RateLimiter] /\ passed \in [Class -> Nat]
         /\ \A j \in 1..Len(limiters) :
              /\ limiters[j] \in RateLimiter /\ limiters[j].burst \in 0..MaxBurst /\ limiters[j].tokens \in Nat
              /\ limiters[j].bytes \in Nat /\ limiters[j].tokens + limiters[j].bytes = limiters[j].burst
<1>1. \A j \in 1..Len(limiters) : limiters[j] \in RateLimiter BY DEF ShaperInv, ShaperTypes
<1>2. \A r \in RateLimiter : r.burst \in 0..MaxBurst /\ r.tokens \in Nat /\ r.bytes \in Nat
  BY BalancerAssumption DEF RateLimiter
<1> QED BY <1>1, <1>2 DEF ShaperInv, ShaperTypes, TokensConserved

\* A new limiter counts for its class only if the class had none.
LEMMA LimiterKeeps ==
  ASSUME ShaperInv, NEW class \in Class, NEW burst \in 1..MaxBurst,
         traffic_rate_limiter_create(class, burst)
  PROVE  ShaperInv'
<1> DEFINE L == Len(limiters)
           new == [class |-> class, burst |-> burst, tokens |-> burst, bytes |-> 0]
<1>1. /\ L \in Nat /\ L < MaxLimiters /\ limiters' = Append(limiters, new) /\ UNCHANGED <<rules, next_rule_id, passed>>
  BY Limiters DEF traffic_rate_limiter_create
<1>2. new \in RateLimiter /\ new.bytes = 0 /\ new.tokens + new.bytes = new.burst /\ new.class = class
  BY BalancerAssumption DEF RateLimiter
<1> HIDE DEF new
<1>3. /\ limiters' \in Seq(RateLimiter) /\ Len(limiters') = L + 1 /\ limiters'[L + 1] = new
      /\ \A j \in 1..L : limiters'[j] = limiters[j]
  BY <1>1, <1>2 DEF ShaperInv, ShaperTypes
<1>4. \A j \in 1..(L + 1) : j = L + 1 \/ j \in 1..L BY <1>1
<1>5. ShaperTypes' BY <1>1, <1>3, BalancerAssumption DEF ShaperInv, ShaperTypes
<1>6. TokensConserved' BY <1>2, <1>3, <1>4 DEF ShaperInv, TokensConserved
<1>7. ASSUME NEW c \in Class
      PROVE  /\ LimiterFor(c, 0)' = {} => passed[c] = 0
             /\ \A j \in LimiterFor(c, 0)' : passed[c] = limiters'[j].bytes
  <2>1. ASSUME NEW j \in LimiterFor(c, 0) PROVE j \in LimiterFor(c, 0)'
    <3>1. j \in 1..L /\ limiters[j].class = c /\ \A k \in 1..(j - 1) : limiters[k].class # c BY DEF LimiterFor
    <3>2. j \in 1..(L + 1) /\ \A k \in 1..(j - 1) : k \in 1..L BY <1>1, <3>1
    <3> QED BY <1>3, <3>1, <3>2 DEF LimiterFor
  <2>2. ASSUME NEW j \in LimiterFor(c, 0)' PROVE passed[c] = limiters'[j].bytes
    <3>1. j \in 1..(L + 1) /\ limiters'[j].class = c /\ \A k \in 1..(j - 1) : limiters'[k].class # c
      BY <1>3 DEF LimiterFor
    <3>2. CASE j = L + 1
      <4>1. \A k \in 1..L : limiters[k].class # c BY <1>1, <1>3, <3>1, <3>2
      <4>2. LimiterFor(c, 0) = {} BY <4>1 DEF LimiterFor
      <4> QED BY <1>2, <1>3, <3>2, <4>2 DEF ShaperInv, FirstCounts
    <3>3. CASE j \in 1..L
      <4>1. \A k \in 1..(j - 1) : k \in 1..L BY <1>1, <3>3
      <4>2. j \in LimiterFor(c, 0) BY <1>3, <3>1, <3>3, <4>1 DEF LimiterFor
      <4> QED BY <1>3, <3>3, <4>2 DEF ShaperInv, FirstCounts
    <3> QED BY <1>4, <3>1, <3>2, <3>3
  <2> QED BY <2>1, <2>2 DEF ShaperInv, FirstCounts
<1>8. FirstCounts' BY Zenon, <1>1, <1>7 DEF FirstCounts
<1> QED BY <1>5, <1>6, <1>8 DEF ShaperInv

\* A packet spends tokens of the first limiter of its class and is counted there.
LEMMA ShapeKeeps ==
  ASSUME ShaperInv, NEW class \in Class, NEW size \in 1..MaxBurst, traffic_shape_packet(class, size)
  PROVE  ShaperInv'
<1> DEFINE L == Len(limiters)
<1>1. PICK j \in LimiterFor(class, size) :
        /\ limiters[j].tokens >= size /\ limiters' = [limiters EXCEPT ![j].tokens = @ - size, ![j].bytes = @ + size]
        /\ passed' = [passed EXCEPT ![class] = @ + size] /\ UNCHANGED <<rules, next_rule_id>>
  BY Zenon DEF traffic_shape_packet
<1> DEFINE new == [limiters[j] EXCEPT !.tokens = limiters[j].tokens - size, !.bytes = limiters[j].bytes + size]
<1>2. /\ L \in Nat /\ limiters \in [1..L -> RateLimiter] /\ passed \in [Class -> Nat]
      /\ size \in Nat /\ j \in 1..L /\ limiters[j].class = class /\ \A k \in 1..(j - 1) : limiters[k].class # class
  BY Limiters, BalancerAssumption DEF LimiterFor
<1>3. /\ new \in RateLimiter /\ new.bytes = limiters[j].bytes + size /\ new.class = class
      /\ new.tokens + new.bytes = new.burst
  <2> DEFINE x == limiters[j]
  <2>1. x \in RateLimiter /\ x.tokens + x.bytes = x.burst /\ x.class = class BY <1>2, Limiters
  <2>2. x.tokens \in Nat /\ x.bytes \in Nat /\ x.burst \in 0..MaxBurst /\ x.tokens >= size BY <1>1, <1>2, Limiters
  <2>3. new = [x EXCEPT !.tokens = x.tokens - size, !.bytes = x.bytes + size] OBVIOUS
  <2> HIDE DEF x, new
  <2>4. x.tokens - size \in 0..MaxBurst /\ x.bytes + size \in 0..MaxBurst /\ (x.tokens - size) + (x.bytes + size) = x.burst
    <3>1. size \in Nat /\ MaxBurst \in Nat /\ x.tokens + x.bytes = x.burst BY <1>2, <2>1, BalancerAssumption
    <3> QED BY <2>2, <3>1
  <2>5. new.tokens = x.tokens - size /\ new.bytes = x.bytes + size /\ new.burst = x.burst /\ new.class = x.class
    BY <2>1, <2>3 DEF RateLimiter
  <2>6. new \in RateLimiter BY Zenon, <2>1, <2>3, <2>4 DEF RateLimiter
  <2>7. x = limiters[j] BY DEF x
  <2> QED BY <2>1, <2>4, <2>5, <2>6, <2>7
<1>4. limiters' = [limiters EXCEPT ![j] = new] BY Zenon, <1>1
<1> HIDE DEF new
<1>5. limiters' \in [1..L -> RateLimiter] /\ \A k \in 1..L : limiters'[k] = IF k = j THEN new ELSE limiters[k]
  BY <1>2, <1>3, <1>4
<1>6. limiters' \in Seq(RateLimiter) /\ Len(limiters') = L BY <1>2, <1>5, Lists
<1>7. passed' \in [Class -> Nat] /\ \A c \in Class : passed'[c] = IF c = class THEN passed[c] + size ELSE passed[c]
  BY <1>1, <1>2
<1>8. ShaperTypes' BY <1>1, <1>6, <1>7 DEF ShaperInv, ShaperTypes
<1>9. TokensConserved' BY <1>3, <1>5, <1>6 DEF ShaperInv, TokensConserved
<1>10. \A k \in 1..L : limiters'[k].class = limiters[k].class BY <1>2, <1>3, <1>5
<1>11. ASSUME NEW c \in Class PROVE LimiterFor(c, 0)' = LimiterFor(c, 0)
  <2>1. \A k \in 1..L : \A d \in 1..(k - 1) : d \in 1..L BY <1>2
  <2> QED BY Zenon, <1>6, <1>10, <2>1 DEF LimiterFor
<1>12. ASSUME NEW c \in Class
       PROVE  /\ LimiterFor(c, 0) = {} => passed'[c] = 0
              /\ \A k \in LimiterFor(c, 0) : passed'[c] = limiters'[k].bytes
  <2>1. CASE c = class
    <3>1. j \in LimiterFor(c, 0) BY <1>2, <2>1 DEF LimiterFor
    <3>2. ASSUME NEW k \in LimiterFor(c, 0) PROVE k = j
      <4>1. k \in 1..L /\ limiters[k].class = c /\ \A d \in 1..(k - 1) : limiters[d].class # c BY DEF LimiterFor
      <4>2. ~(k \in 1..(j - 1)) /\ ~(j \in 1..(k - 1)) BY <1>2, <2>1, <4>1
      <4>3. ~(k < j) /\ ~(j < k) BY <1>2, <4>1, <4>2
      <4> QED BY <1>2, <4>1, <4>3
    <3>3. passed[c] = limiters[j].bytes BY <3>1 DEF ShaperInv, FirstCounts
    <3>4. passed'[c] = limiters'[j].bytes BY <1>2, <1>3, <1>5, <1>7, <2>1, <3>3
    <3> QED BY <3>1, <3>2, <3>4
  <2>2. CASE c # class
    <3>1. \A k \in LimiterFor(c, 0) : k \in 1..L /\ k # j BY <1>2, <2>2 DEF LimiterFor
    <3>2. passed'[c] = passed[c] BY <1>7, <2>2
    <3>3. \A k \in LimiterFor(c, 0) : limiters'[k] = limiters[k] BY <1>5, <3>1
    <3> QED BY <3>2, <3>3 DEF ShaperInv, FirstCounts
  <2> QED BY <2>1, <2>2
<1>13. FirstCounts' BY <1>11, <1>12 DEF FirstCounts
<1> QED BY <1>8, <1>9, <1>13 DEF ShaperInv

\* Every call of the shaper keeps its invariant.
LEMMA ShaperStep ==
  ASSUME ShaperInv, ShaperNext
  PROVE  ShaperInv'
BY RulesKeep, LimiterKeeps, ShapeKeeps DEF ShaperNext

-----------------------------------------------------------------------------

\* The four parts share nothing, so their invariants hold side by side.
BalancerInv == PoolInv /\ ServiceInv /\ (SessionTypes /\ SessionsKept) /\ ShaperInv

\* All tables start empty.
LEMMA BalancerStarts == ASSUME Init PROVE BalancerInv
<1>1. PoolInv
  <2>1. PoolTypes BY BalancerAssumption DEF Init, PoolTypes
  <2>2. Len(servers) = 0 BY DEF Init
  <2> QED BY <2>1, <2>2 DEF PoolInv, InTurn, Latecomers
<1>2. ServiceInv
  <2>1. ServiceTypes
    <3>1. backends = << >> /\ lb_algorithm = Nothing /\ current_server_idx = 0 /\ divided = FALSE /\ removed = FALSE BY DEF Init
    <3>2. backends \in Seq(ServiceServer) /\ Len(backends) = 0 BY <3>1
    <3>3. 0 \in 0..MaxRequests /\ 0 <= MaxBackendServers BY BalancerAssumption
    <3> QED BY Zenon, <3>1, <3>2, <3>3 DEF ServiceTypes
  <2>2. Len(backends) = 0 BY DEF Init
  <2> QED BY <2>1, <2>2 DEF ServiceInv, InTurn, Later
<1>3. SessionTypes /\ SessionsKept
  <2>1. [connection_id |-> Nothing, session_data |-> Nothing] \in ClientConnection BY DEF ClientConnection
  <2>2. SessionTypes BY <2>1, BalancerAssumption DEF Init, SessionTypes
  <2> QED BY <2>2 DEF Init, SessionsKept
<1>4. ShaperInv
  <2>1. ShaperTypes BY BalancerAssumption DEF Init, NoTraffic, ShaperTypes
  <2>2. Len(limiters) = 0 /\ \A c \in Class : passed[c] = 0 BY DEF Init, NoTraffic
  <2> QED BY <2>1, <2>2 DEF ShaperInv, TokensConserved, FirstCounts, LimiterFor
<1> QED BY <1>1, <1>2, <1>3, <1>4 DEF BalancerInv

\* Calls of another part leave the pool alone.
LEMMA PoolStays == ASSUME PoolInv, UNCHANGED poolVars PROVE PoolInv'
BY DEF PoolInv, PoolTypes, Latecomers, InTurn, poolVars

\* Calls of another part leave the balancer of services alone.
LEMMA ServiceStays == ASSUME ServiceInv, UNCHANGED serviceVars PROVE ServiceInv'
BY DEF ServiceInv, ServiceTypes, Later, Shares, InTurn, serviceVars

\* Calls of another part leave the connections alone.
LEMMA SessionsStay == ASSUME SessionTypes, SessionsKept, UNCHANGED sessionVars PROVE SessionTypes' /\ SessionsKept'
BY DEF SessionTypes, SessionsKept, FirstOf, sessionVars

\* Calls of another part leave the shaper alone.
LEMMA ShaperStays == ASSUME ShaperInv, UNCHANGED shaperVars PROVE ShaperInv'
BY DEF ShaperInv, ShaperTypes, TokensConserved, FirstCounts, LimiterFor, shaperVars

\* Every call of every part keeps the invariant.
LEMMA BalancerStep == ASSUME BalancerInv, [Next]_vars PROVE BalancerInv'
<1>1. CASE PoolNext
  <2>1. UNCHANGED serviceVars /\ UNCHANGED sessionVars /\ UNCHANGED shaperVars BY <1>1 DEF PoolNext
  <2> QED BY <1>1, <2>1, PoolStep, ServiceStays, SessionsStay, ShaperStays DEF BalancerInv
<1>2. CASE BalancerNext
  <2>1. UNCHANGED poolVars /\ UNCHANGED sessionVars /\ UNCHANGED shaperVars BY <1>2 DEF BalancerNext
  <2> QED BY <1>2, <2>1, PoolStays, ServiceStep, SessionsStay, ShaperStays DEF BalancerInv
<1>3. CASE SessionsNext
  <2>1. UNCHANGED poolVars /\ UNCHANGED serviceVars /\ UNCHANGED shaperVars BY <1>3 DEF SessionsNext
  <2> QED BY <1>3, <2>1, PoolStays, ServiceStays, SessionsStep, ShaperStays DEF BalancerInv
<1>4. CASE ShaperNext
  <2>1. UNCHANGED poolVars /\ UNCHANGED serviceVars /\ UNCHANGED sessionVars BY <1>4 DEF ShaperNext
  <2> QED BY <1>4, <2>1, PoolStays, ServiceStays, SessionsStay, ShaperStep DEF BalancerInv
<1>5. CASE UNCHANGED vars
  <2>1. UNCHANGED poolVars /\ UNCHANGED serviceVars /\ UNCHANGED sessionVars /\ UNCHANGED shaperVars BY <1>5 DEF vars
  <2> QED BY <2>1, PoolStays, ServiceStays, SessionsStay, ShaperStays DEF BalancerInv
<1> QED BY <1>1, <1>2, <1>3, <1>4, <1>5 DEF Next

\* The invariant says what the two balancers and the shaper promise.
LEMMA BalancerShares == ASSUME BalancerInv PROVE SharesFair
<1>1. RoundRobinFair
  <2> SUFFICES ASSUME algorithm \in {"ROUND_ROBIN", "RANDOM"}, NEW i \in DOMAIN servers, NEW j \in DOMAIN servers
               PROVE  share[i] <= share[j] + 1
    BY DEF RoundRobinFair
  <2>1. i \in 1..Len(servers) /\ j \in 1..Len(servers) /\ Len(servers) \in Nat /\ \A k \in 1..Len(servers) : share[k] \in Nat
        /\ current_server_index \in Nat
    BY Servers DEF BalancerInv, PoolInv
  <2>2. InTurn(current_server_index % Len(servers), share, Len(servers)) BY DEF BalancerInv, PoolInv
  <2>3. Len(servers) > 0 BY <2>1
  <2>4. current_server_index % Len(servers) \in 0..(Len(servers) - 1) BY <2>1, <2>3, NextTurn
  <2> QED BY <2>1, <2>2, <2>3, <2>4, InTurnIsFair
<1>2. LatecomerNotSwamped
  <2>1. DOMAIN servers = 1..Len(servers) BY Servers DEF BalancerInv, PoolInv
  <2> QED BY <2>1 DEF BalancerInv, PoolInv, LatecomerNotSwamped, Latecomers
<1>3. ServiceSharesFair
  <2> SUFFICES ASSUME ~removed, NEW i \in DOMAIN backends, NEW j \in DOMAIN backends
               PROVE  /\ lb_algorithm = "ROUND_ROBIN" => backends[i].share <= backends[j].share + 1
                      /\ (lb_algorithm = "LEAST_CONNECTIONS" /\ i > j /\ backends[j].steady) =>
                           backends[i].current_connections <= backends[j].current_connections + 1
    BY DEF ServiceSharesFair
  <2>1. /\ i \in 1..Len(backends) /\ j \in 1..Len(backends) /\ Len(backends) \in Nat
        /\ \A k \in 1..Len(backends) : backends[k].share \in Nat /\ Shares(backends)[k] = backends[k].share
    BY Backends DEF BalancerInv, ServiceInv, Shares
  <2>2. ASSUME lb_algorithm = "ROUND_ROBIN" PROVE backends[i].share <= backends[j].share + 1
    <3>1. InTurn(current_server_idx % Len(backends), Shares(backends), Len(backends)) BY <2>2 DEF BalancerInv, ServiceInv
    <3>2. Len(backends) > 0 BY <2>1
    <3>3. current_server_idx \in Nat BY DEF BalancerInv, ServiceInv, ServiceTypes
    <3>4. current_server_idx % Len(backends) \in 0..(Len(backends) - 1) BY <2>1, <3>2, <3>3, NextTurn
    <3>5. \A k \in 1..Len(backends) : Shares(backends)[k] \in Nat BY <2>1
    <3> DEFINE n == Len(backends)
               count == Shares(backends)
               p == current_server_idx % n
    <3>6. n \in Nat /\ n > 0 /\ i \in 1..n /\ j \in 1..n /\ p \in 0..(n - 1) BY <2>1, <3>2, <3>4
    <3>7. InTurn(p, count, n) /\ \A k \in 1..n : count[k] \in Nat BY <3>1, <3>5
    <3>8. count[i] <= count[j] + 1
      <4> HIDE DEF n, count, p
      <4> QED BY <3>6, <3>7, InTurnIsFair
    <3> QED BY <2>1, <3>8
  <2>3. lb_algorithm = "LEAST_CONNECTIONS" => Later(backends) BY DEF BalancerInv, ServiceInv
  <2> QED BY <2>1, <2>2, <2>3 DEF Later
<1>4. FirstBurstBounds
  <2> SUFFICES ASSUME NEW c \in Class
               PROVE  passed[c] <= (IF LimiterFor(c, 0) = {} THEN 0
                                    ELSE limiters[CHOOSE j \in LimiterFor(c, 0) : TRUE].burst)
    BY DEF FirstBurstBounds
  <2>1. ShaperInv BY DEF BalancerInv
  <2>2. CASE LimiterFor(c, 0) = {}
    <3>1. passed[c] = 0 BY <2>1, <2>2 DEF ShaperInv, FirstCounts
    <3> QED BY <2>2, <3>1
  <2>3. CASE LimiterFor(c, 0) # {}
    <3> DEFINE first == CHOOSE j \in LimiterFor(c, 0) : TRUE
    <3>1. first \in LimiterFor(c, 0) BY <2>3
    <3> HIDE DEF first
    <3>2. first \in 1..Len(limiters) BY <3>1 DEF LimiterFor
    <3>3. passed[c] = limiters[first].bytes BY <2>1, <3>1 DEF ShaperInv, FirstCounts
    <3>4. /\ limiters[first].bytes \in Nat /\ limiters[first].tokens \in Nat
          /\ limiters[first].tokens + limiters[first].bytes = limiters[first].burst
      BY <2>1, <3>2, Limiters
    <3>5. passed[c] <= limiters[first].burst BY <3>3, <3>4
    <3> QED BY <2>3, <3>5 DEF first
  <2> QED BY <2>2, <2>3
<1> QED BY <1>1, <1>2, <1>3, <1>4 DEF BalancerInv, ShaperInv, SharesFair

\* The invariant holds in every state.
LEMMA BalancerAlways == Spec => []BalancerInv
BY BalancerStarts, BalancerStep, PTL DEF Spec

\* Every call of the balancers, the connection table and the shaper leaves the
\* state well formed, whatever the sizes of their tables.
THEOREM BalancerTypes == Spec => []TypeOK
<1>1. BalancerInv => TypeOK
  BY DEF BalancerInv, PoolInv, PoolTypes, ServiceInv, ServiceTypes, SessionTypes, ShaperInv, ShaperTypes, TypeOK
<1> QED BY <1>1, BalancerAlways, PTL

\* The balancers share requests out as their algorithms say, a connection finds the
\* data it stored, and no class passes more than the burst of its first limiter
\* (load_balancer_route_request, lb_route_request, lb_store_session_data,
\* traffic_shape_packet), for tables of any size.
THEOREM SharesAreFair == Spec => []SharesFair
BY BalancerShares, BalancerAlways, PTL


-----------------------------------------------------------------------------
(* The master of a cluster. *)

\* Every set of natural numbers that is not empty has a least element.
LEMMA LeastNatural ==
  ASSUME NEW T \in SUBSET Nat, T # {}
  PROVE  \E x \in T : \A y \in T : x <= y
<1> DEFINE R == OpToRel(<, Nat)
<1>1. IsWellFoundedOn(R, Nat) BY NatLessThanWellFounded, Zenon DEF OpToRel
<1>2. \A x, y \in Nat : x < y => <<x, y>> \in R BY DEF OpToRel
<1> HIDE DEF R
<1>3. PICK x \in T : \A y \in T : ~(<<y, x>> \in R) BY <1>1, WFMin, Zenon
<1>4. \A y \in T : ~(y < x) BY Zenon, <1>2, <1>3
<1> QED BY <1>3, <1>4

\* What a table of nodes holds in each of its places.
LEMMA Nodes ==
  ASSUME NEW ns \in Seq(Election!ClusterNode)
  PROVE  /\ Len(ns) \in Nat
         /\ \A n \in 1..Len(ns) :
              /\ ns[n] \in Election!ClusterNode /\ n \in Nat
              /\ ns[n].up \in 0..MaxUptime /\ ns[n].up \in Nat /\ ns[n].health \in Election!Health
              /\ ns[n].role \in {"MASTER", "REPLICA", "WORKER"}
<1>1. \A n \in 1..Len(ns) : ns[n] \in Election!ClusterNode OBVIOUS
<1>2. \A c \in Election!ClusterNode : /\ c.up \in 0..MaxUptime /\ c.up \in Nat /\ c.health \in Election!Health
                             /\ c.role \in {"MASTER", "REPLICA", "WORKER"}
  BY ElectionAssumption DEF Election!ClusterNode
<1> QED BY <1>1, <1>2

\* An election finds a node whenever a healthy one has beaten: the loops of
\* cluster_elect_master and cluster_elect_replica do not end without a winner.
LEMMA BestExists ==
  ASSUME NEW ns \in Seq(Election!ClusterNode), NEW S \in SUBSET (1..Len(ns)),
         NEW k \in S, ns[k].health = "HEALTHY", ns[k].up > 0
  PROVE  Election!Best(ns, S) # {}
<1> DEFINE Fit == {n \in S : ns[n].health = "HEALTHY"}
           Left == {MaxUptime - ns[n].up : n \in Fit}
<1>1. \A n \in S : ns[n].up \in 0..MaxUptime /\ n \in Nat BY Nodes
<1>2. \A n \in Fit : MaxUptime - ns[n].up \in Nat BY <1>1, ElectionAssumption
<1>3. Left \in SUBSET Nat /\ Left # {} BY Zenon, <1>2
<1>4. PICK x \in Left : \A y \in Left : x <= y BY Zenon, <1>3, LeastNatural
<1> DEFINE Top == {n \in Fit : MaxUptime - ns[n].up = x}
<1>5. Top \in SUBSET Nat /\ Top # {} BY Zenon, <1>1, <1>4
<1>6. PICK n \in Top : \A m \in Top : n <= m BY Zenon, <1>5, LeastNatural
<1>7. n \in Fit /\ MaxUptime - ns[n].up = x BY <1>6
<1>8. ASSUME NEW m \in Fit PROVE ns[m].up < ns[n].up \/ (ns[m].up = ns[n].up /\ n <= m)
  <2>1. x <= MaxUptime - ns[m].up BY Zenon, <1>4
  <2>2. ns[m].up <= ns[n].up
    <3>1. MaxUptime \in Nat /\ ns[m].up \in 0..MaxUptime /\ ns[n].up \in 0..MaxUptime
      BY <1>1, <1>7, ElectionAssumption
    <3>2. MaxUptime - ns[n].up <= MaxUptime - ns[m].up BY <1>7, <2>1, Zenon
    <3> HIDE DEF Fit, Left, Top
    <3> QED BY <3>1, <3>2
  <2>3. ns[m].up = ns[n].up => m \in Top BY <1>7
  <2> QED BY <1>1, <1>6, <1>7, <2>2, <2>3
<1>9. ns[n].up > 0 BY <1>1, <1>7, <1>8
<1> QED BY Zenon, <1>7, <1>8, <1>9 DEF Election!Best

\* There is one winner at most: of nodes up equally long the first is taken.
LEMMA BestUnique ==
  ASSUME NEW ns \in Seq(Election!ClusterNode), NEW S \in SUBSET (1..Len(ns)),
         NEW m \in Election!Best(ns, S), NEW n \in Election!Best(ns, S)
  PROVE  m = n
<1>1. m \in S /\ n \in S /\ ns[m].health = "HEALTHY" /\ ns[n].health = "HEALTHY" BY DEF Election!Best
<1>2. /\ ns[m].up < ns[n].up \/ (ns[m].up = ns[n].up /\ n <= m)
      /\ ns[n].up < ns[m].up \/ (ns[n].up = ns[m].up /\ m <= n)
  BY <1>1 DEF Election!Best
<1>3. ns[m].up \in Nat /\ ns[n].up \in Nat /\ m \in Nat /\ n \in Nat BY <1>1, Nodes
<1> QED BY <1>2, <1>3

-----------------------------------------------------------------------------

\* What an election leaves in the table and who the master is afterwards.
LEMMA Elected ==
  ASSUME NEW ns \in Seq(Election!ClusterNode), Election!ElectIn(ns)
  PROVE  /\ nodes' \in Seq(Election!ClusterNode) /\ Len(nodes') = Len(ns)
         /\ \A n \in 1..Len(ns) :
              /\ nodes'[n].health = ns[n].health /\ nodes'[n].up = ns[n].up
              /\ nodes'[n].role = ns[n].role \/ nodes'[n].role = "MASTER"
         /\ \/ master_node_id' = master_node_id /\ Election!Best(ns, 1..Len(ns)) = {}
            \/ /\ master_node_id' \in Election!Best(ns, 1..Len(ns))
               /\ nodes'[master_node_id'].role = "MASTER"
<1> DEFINE B == Election!Best(ns, 1..Len(ns))
<1>1. /\ nodes' = [n \in 1..Len(ns) |-> IF n \in B THEN [ns[n] EXCEPT !.role = "MASTER"] ELSE ns[n]]
      /\ master_node_id' = IF B = {} THEN master_node_id ELSE CHOOSE n \in B : TRUE
  BY DEF Election!ElectIn
<1>2. B \subseteq 1..Len(ns) BY DEF Election!Best
<1> HIDE DEF B
<1>3. Len(ns) \in Nat /\ \A n \in 1..Len(ns) : ns[n] \in Election!ClusterNode BY Nodes
<1>4. \A c \in Election!ClusterNode : LET d == [c EXCEPT !.role = "MASTER"] IN
        d \in Election!ClusterNode /\ d.health = c.health /\ d.up = c.up /\ d.role = "MASTER"
  BY DEF Election!ClusterNode
<1>5. \A n \in 1..Len(ns) :
        /\ nodes'[n] \in Election!ClusterNode
        /\ nodes'[n].health = ns[n].health /\ nodes'[n].up = ns[n].up
        /\ nodes'[n].role = ns[n].role \/ nodes'[n].role = "MASTER"
        /\ n \in B => nodes'[n].role = "MASTER"
  BY <1>1, <1>3, <1>4
<1>6. nodes' \in Seq(Election!ClusterNode) /\ Len(nodes') = Len(ns) BY <1>1, <1>3, <1>5
<1>7. B # {} => master_node_id' \in B BY <1>1, Zenon
<1>8. B = {} => master_node_id' = master_node_id BY <1>1, Zenon
<1> QED BY Zenon, <1>2, <1>5, <1>6, <1>7, <1>8 DEF B

\* The table with a changed state of health.
LEMMA Reported ==
  ASSUME nodes \in Seq(Election!ClusterNode), NEW n \in 1..Len(nodes), NEW h \in Election!Health
  PROVE  LET ns == [nodes EXCEPT ![n].health = h] IN
         /\ ns \in Seq(Election!ClusterNode) /\ Len(ns) = Len(nodes) /\ ns[n].health = h
         /\ \A m \in 1..Len(nodes) : ns[m].role = nodes[m].role /\ (m # n => ns[m] = nodes[m])
<1>1. nodes[n] \in Election!ClusterNode OBVIOUS
<1>2. \A c \in Election!ClusterNode : LET d == [c EXCEPT !.health = h] IN
        d \in Election!ClusterNode /\ d.health = h /\ d.role = c.role
  BY DEF Election!ClusterNode
<1> QED BY <1>1, <1>2

\* A beat changes nothing but the uptime.
LEMMA OlderNode ==
  ASSUME NEW c \in Election!ClusterNode
  PROVE  Election!Older(c) \in Election!ClusterNode /\ Election!Older(c).role = c.role
<1>1. c.up \in 0..MaxUptime BY DEF Election!ClusterNode
<1>2. (IF c.up < MaxUptime THEN c.up + 1 ELSE c.up) \in 0..MaxUptime BY <1>1, ElectionAssumption
<1> QED BY <1>2 DEF Election!Older, Election!ClusterNode

-----------------------------------------------------------------------------

\* What holds in every state: the ids name places of the table, and the master
\* has its role.
ElectionInv == Election!TypeOK /\ Election!MasterHasRole

\* The table keeps its types and its roles in every step that is no election.
LEMMA Kept ==
  ASSUME ElectionInv, nodes' \in Seq(Election!ClusterNode), Len(nodes') = Len(nodes),
         \A m \in 1..Len(nodes) : nodes'[m].role = nodes[m].role,
         UNCHANGED <<master_node_id, replica_node_id>>
  PROVE  ElectionInv'
BY DEF ElectionInv, Election!TypeOK, Election!MasterHasRole

\* An election of a master in the table, or in the table after a failure.
LEMMA ElectKeeps ==
  ASSUME ElectionInv, NEW ns \in Seq(Election!ClusterNode), Len(ns) = Len(nodes),
         \A m \in 1..Len(nodes) : ns[m].role = nodes[m].role,
         Election!ElectIn(ns), UNCHANGED replica_node_id
  PROVE  ElectionInv'
<1>1. nodes' \in Seq(Election!ClusterNode) /\ Len(nodes') = Len(nodes) BY Elected
<1>2. \A n \in 1..Len(nodes) : nodes'[n].role = nodes[n].role \/ nodes'[n].role = "MASTER"
  BY Elected
<1>3. /\ Len(nodes) <= MaxNodes /\ Len(nodes) \in Nat
      /\ master_node_id \in 0..Len(nodes) /\ replica_node_id \in 0..Len(nodes)
  BY DEF ElectionInv, Election!TypeOK
<1>4. CASE master_node_id' = master_node_id
  BY <1>1, <1>2, <1>3, <1>4 DEF ElectionInv, Election!TypeOK, Election!MasterHasRole
<1>5. CASE master_node_id' \in Election!Best(ns, 1..Len(ns)) /\ nodes'[master_node_id'].role = "MASTER"
  <2>1. master_node_id' \in 1..Len(nodes) BY <1>5 DEF Election!Best
  <2> QED BY <1>1, <1>3, <1>5, <2>1 DEF ElectionInv, Election!TypeOK, Election!MasterHasRole
<1> QED BY <1>4, <1>5, Elected

\* Every call keeps the invariant.
LEMMA ElectionStep == ASSUME ElectionInv, [Election!Next]_(Election!vars) PROVE ElectionInv'
<1>0. /\ nodes \in Seq(Election!ClusterNode) /\ Len(nodes) <= MaxNodes /\ Len(nodes) \in Nat
      /\ master_node_id \in 0..Len(nodes) /\ replica_node_id \in 0..Len(nodes)
  BY DEF ElectionInv, Election!TypeOK
<1>1. CASE Election!cluster_join
  <2> DEFINE n == Len(nodes) + 1
             c == [role |-> IF n = 1 THEN "MASTER" ELSE IF n = 2 THEN "REPLICA" ELSE "WORKER",
                   health |-> "HEALTHY", up |-> 0]
  <2>1. c \in Election!ClusterNode BY ElectionAssumption DEF Election!ClusterNode, Election!Health
  <2>2. c.role = IF n = 1 THEN "MASTER" ELSE IF n = 2 THEN "REPLICA" ELSE "WORKER" OBVIOUS
  <2>3. /\ nodes' = Append(nodes, c)
        /\ master_node_id' = IF n = 1 THEN 1 ELSE master_node_id
        /\ replica_node_id' = IF n = 2 THEN 2 ELSE replica_node_id
        /\ Len(nodes) < MaxNodes
    BY <1>1 DEF Election!cluster_join
  <2> HIDE DEF c
  <2>4. /\ nodes' \in Seq(Election!ClusterNode) /\ Len(nodes') = Len(nodes) + 1 /\ nodes'[n] = c
        /\ \A m \in 1..Len(nodes) : nodes'[m] = nodes[m]
    BY <1>0, <2>1, <2>3
  <2>5. Election!TypeOK' BY <1>0, <2>3, <2>4, ElectionAssumption DEF Election!TypeOK
  <2>6. Election!MasterHasRole'
    BY <1>0, <2>2, <2>3, <2>4 DEF ElectionInv, Election!MasterHasRole
  <2> QED BY <2>5, <2>6 DEF ElectionInv
<1>2. CASE Election!cluster_perform_health_check
  <2>1. nodes' = [n \in 1..Len(nodes) |-> IF nodes[n].health = "HEALTHY" THEN Election!Older(nodes[n]) ELSE nodes[n]]
    BY <1>2 DEF Election!cluster_perform_health_check
  <2>2. \A n \in 1..Len(nodes) : nodes'[n] \in Election!ClusterNode /\ nodes'[n].role = nodes[n].role
    BY <1>0, <2>1, OlderNode
  <2>3. nodes' \in Seq(Election!ClusterNode) /\ Len(nodes') = Len(nodes) BY <1>0, <2>1, <2>2
  <2> QED BY <1>2, <2>2, <2>3, Kept DEF Election!cluster_perform_health_check
<1>3. CASE Election!cluster_elect_master
  BY <1>0, <1>3, ElectKeeps DEF Election!cluster_elect_master
<1>4. CASE Election!cluster_elect_replica
  <2>1. PICK n \in Election!Best(nodes, 1..Len(nodes) \ {master_node_id}) :
          nodes' = [nodes EXCEPT ![n].role = "REPLICA"] /\ replica_node_id' = n
    BY Zenon, <1>4 DEF Election!cluster_elect_replica
  <2>2. n \in 1..Len(nodes) /\ n # master_node_id BY <2>1 DEF Election!Best
  <2>3. nodes[n] \in Election!ClusterNode BY <1>0, <2>2
  <2>4. \A d \in Election!ClusterNode : [d EXCEPT !.role = "REPLICA"] \in Election!ClusterNode BY DEF Election!ClusterNode
  <2>5. /\ nodes' \in Seq(Election!ClusterNode) /\ Len(nodes') = Len(nodes)
        /\ \A m \in 1..Len(nodes) : m # n => nodes'[m] = nodes[m]
    BY <1>0, <2>1, <2>2, <2>3, <2>4
  <2>6. master_node_id' = master_node_id BY <1>4 DEF Election!cluster_elect_replica
  <2> QED BY <1>0, <2>1, <2>2, <2>5, <2>6 DEF ElectionInv, Election!TypeOK, Election!MasterHasRole
<1>5. ASSUME NEW n \in 1..Len(nodes), Election!cluster_node_heartbeat(n) PROVE ElectionInv'
  <2>1. nodes' = [nodes EXCEPT ![n] = Election!Older(nodes[n])] BY <1>5 DEF Election!cluster_node_heartbeat
  <2>2. nodes[n] \in Election!ClusterNode BY <1>0
  <2>3. /\ nodes' \in Seq(Election!ClusterNode) /\ Len(nodes') = Len(nodes)
        /\ \A m \in 1..Len(nodes) : nodes'[m].role = nodes[m].role
    BY <1>0, <2>1, <2>2, OlderNode
  <2> QED BY <1>5, <2>3, Kept DEF Election!cluster_node_heartbeat
<1>6. ASSUME NEW n \in 1..Len(nodes), NEW h \in Election!Health, Election!cluster_update_node_status(n, h)
      PROVE  ElectionInv'
  <2>1. /\ nodes' \in Seq(Election!ClusterNode) /\ Len(nodes') = Len(nodes)
        /\ \A m \in 1..Len(nodes) : nodes'[m].role = nodes[m].role
    BY <1>0, <1>6, Reported DEF Election!cluster_update_node_status
  <2> QED BY <1>6, <2>1, Kept DEF Election!cluster_update_node_status
<1>7. ASSUME NEW n \in 1..Len(nodes), Election!cluster_handle_node_failure(n) PROVE ElectionInv'
  <2> DEFINE failed == [nodes EXCEPT ![n].health = "OFFLINE"]
  <2>1. /\ failed \in Seq(Election!ClusterNode) /\ Len(failed) = Len(nodes)
        /\ \A m \in 1..Len(nodes) : failed[m].role = nodes[m].role
    <3>1. "OFFLINE" \in Election!Health BY DEF Election!Health
    <3> QED BY <1>0, <3>1, Reported
  <2>2. /\ IF n = master_node_id THEN Election!ElectIn(failed) ELSE nodes' = failed /\ UNCHANGED master_node_id
        /\ UNCHANGED replica_node_id
    BY <1>7 DEF Election!cluster_handle_node_failure
  <2> HIDE DEF failed
  <2>3. CASE n = master_node_id BY <2>1, <2>2, <2>3, ElectKeeps
  <2>4. CASE n # master_node_id BY <2>1, <2>2, <2>4, Kept
  <2> QED BY <2>3, <2>4
<1>8. CASE UNCHANGED Election!vars
  BY <1>8 DEF Election!vars, ElectionInv, Election!TypeOK, Election!MasterHasRole
<1> QED BY <1>1, <1>2, <1>3, <1>4, <1>5, <1>6, <1>7, <1>8 DEF Election!Next

-----------------------------------------------------------------------------

\* A step that names another master without a join is an election, and the new
\* master is the winner.
LEMMA NewMasterIsBest ==
  ASSUME ElectionInv, Election!Next,
         master_node_id' # master_node_id, call' # "cluster_join"
  PROVE  /\ nodes'[master_node_id'].health = "HEALTHY"
         /\ \A n \in 1..Len(nodes) : nodes'[n].health = "HEALTHY" => nodes'[n].up <= nodes'[master_node_id'].up
<1>0. nodes \in Seq(Election!ClusterNode) BY DEF ElectionInv, Election!TypeOK
<1>1. \E ns \in Seq(Election!ClusterNode) : Len(ns) = Len(nodes) /\ Election!ElectIn(ns)
  <2>1. CASE Election!cluster_elect_master BY <1>0, <2>1 DEF Election!cluster_elect_master
  <2>2. ASSUME NEW n \in 1..Len(nodes), Election!cluster_handle_node_failure(n)
        PROVE  \E ns \in Seq(Election!ClusterNode) : Len(ns) = Len(nodes) /\ Election!ElectIn(ns)
    <3> DEFINE failed == [nodes EXCEPT ![n].health = "OFFLINE"]
    <3>1. failed \in Seq(Election!ClusterNode) /\ Len(failed) = Len(nodes)
      <4>1. "OFFLINE" \in Election!Health BY DEF Election!Health
      <4> QED BY <1>0, <4>1, Reported
    <3>2. Election!ElectIn(failed) BY <2>2 DEF Election!cluster_handle_node_failure
    <3> QED BY Zenon, <3>1, <3>2
  <2>3. \/ Election!cluster_elect_master
        \/ \E n \in 1..Len(nodes) : Election!cluster_handle_node_failure(n)
    BY DEF Election!Next, Election!cluster_join, Election!cluster_perform_health_check, Election!cluster_elect_replica,
           Election!cluster_node_heartbeat, Election!cluster_update_node_status
  <2> QED BY <2>1, <2>2, <2>3
<1>2. PICK ns \in Seq(Election!ClusterNode) : Len(ns) = Len(nodes) /\ Election!ElectIn(ns) BY <1>1
<1> DEFINE w == master_node_id'
<1>3. /\ w \in Election!Best(ns, 1..Len(ns))
      /\ \A n \in 1..Len(ns) : nodes'[n].health = ns[n].health /\ nodes'[n].up = ns[n].up
  BY <1>2, Elected
<1> HIDE DEF w
<1>4. /\ w \in 1..Len(ns) /\ ns[w].health = "HEALTHY"
      /\ \A m \in 1..Len(ns) : ns[m].health = "HEALTHY" => ns[m].up < ns[w].up \/ ns[m].up = ns[w].up
  BY <1>3 DEF Election!Best
<1>5. \A m \in 1..Len(ns) : ns[m].up \in Nat BY Nodes
<1> QED BY <1>2, <1>3, <1>4, <1>5 DEF w

\* When the failure of the master is handled and it stays the master, there was
\* no one to elect.
LEMMA FailedMasterReplaced ==
  ASSUME ElectionInv, Election!Next, call' = "cluster_handle_node_failure",
         master_node_id \in 1..Len(nodes),
         nodes[master_node_id].health # "OFFLINE", nodes'[master_node_id].health = "OFFLINE",
         master_node_id' = master_node_id
  PROVE  \A n \in 1..Len(nodes) : nodes'[n].health = "HEALTHY" => nodes'[n].up = 0
<1>0. nodes \in Seq(Election!ClusterNode) BY DEF ElectionInv, Election!TypeOK
<1>1. PICK n \in 1..Len(nodes) : Election!cluster_handle_node_failure(n)
  BY DEF Election!Next, Election!cluster_join, Election!cluster_perform_health_check, Election!cluster_elect_replica,
         Election!cluster_elect_master, Election!cluster_node_heartbeat, Election!cluster_update_node_status
<1> DEFINE failed == [nodes EXCEPT ![n].health = "OFFLINE"]
<1>2. /\ failed \in Seq(Election!ClusterNode) /\ Len(failed) = Len(nodes) /\ failed[n].health = "OFFLINE"
      /\ \A m \in 1..Len(nodes) : m # n => failed[m] = nodes[m]
  <2>1. "OFFLINE" \in Election!Health BY DEF Election!Health
  <2> QED BY <1>0, <2>1, Reported
<1>3. IF n = master_node_id THEN Election!ElectIn(failed) ELSE nodes' = failed
  BY <1>1 DEF Election!cluster_handle_node_failure
<1> HIDE DEF failed
<1>4. n = master_node_id BY <1>2, <1>3
<1>5. Election!ElectIn(failed) BY <1>3, <1>4
<1>6. master_node_id \notin Election!Best(failed, 1..Len(failed)) BY <1>2, <1>4 DEF Election!Best
<1>7. /\ Election!Best(failed, 1..Len(failed)) = {}
      /\ \A m \in 1..Len(failed) : nodes'[m].health = failed[m].health /\ nodes'[m].up = failed[m].up
  BY <1>2, <1>5, <1>6, Elected
<1>8. ASSUME NEW m \in 1..Len(nodes), nodes'[m].health = "HEALTHY" PROVE nodes'[m].up = 0
  <2>1. failed[m].health = "HEALTHY" /\ nodes'[m].up = failed[m].up BY <1>2, <1>7, <1>8
  <2>2. failed[m].up \in Nat BY <1>2, Nodes
  <2>3. ~(failed[m].up > 0) BY <1>2, <1>7, <2>1, BestExists
  <2> QED BY <2>1, <2>2, <2>3
<1> QED BY <1>8

-----------------------------------------------------------------------------

\* The ids of the master and the replica name nodes of the table, and the
\* master has its role, through every order of joins, failures and elections.
THEOREM ElectionInvariance == Election!Spec => []ElectionInv
<1>1. Election!Init => ElectionInv
  BY ElectionAssumption DEF Election!Init, ElectionInv, Election!TypeOK, Election!MasterHasRole
<1> QED BY <1>1, ElectionStep, PTL DEF Election!Spec

\* When the master fails, a healthy node that has beaten takes over if there is
\* one; a master that takes over is healthy and up longest; and the master has
\* its role.
THEOREM FailoverIsSound == Election!Spec => FailoverSound
<1>1. ElectionInv /\ [Election!Next]_(Election!vars) =>
        [(master_node_id' # master_node_id /\ call' # "cluster_join") =>
           /\ nodes'[master_node_id'].health = "HEALTHY"
           /\ \A n \in 1..Len(nodes) : nodes'[n].health = "HEALTHY" => nodes'[n].up <= nodes'[master_node_id'].up]_(Election!vars)
  BY NewMasterIsBest
<1>2. ElectionInv /\ [Election!Next]_(Election!vars) =>
        [(/\ call' = "cluster_handle_node_failure" /\ master_node_id \in 1..Len(nodes)
          /\ nodes[master_node_id].health # "OFFLINE" /\ nodes'[master_node_id].health = "OFFLINE"
          /\ master_node_id' = master_node_id) =>
           \A n \in 1..Len(nodes) : nodes'[n].health = "HEALTHY" => nodes'[n].up = 0]_(Election!vars)
  BY FailedMasterReplaced
<1>3. ElectionInv => Election!MasterHasRole BY DEF ElectionInv
<1> QED BY <1>1, <1>2, <1>3, ElectionInvariance, PTL
        DEF Election!Spec, FailoverSound, Election!FailoverSound, Election!FailoverFindsMaster, Election!MasterIsBest
=============================================================================
