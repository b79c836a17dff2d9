----------------------------- MODULE RaftEngine -----------------------------
(***************************************************************************)
(* A cluster of consensus engines, clustering-replication's                *)
(* consensus_engine.c, one per node.  Elections and append calls carry a   *)
(* term; a call made once may reach any engine late, twice or never.       *)
(* Which calls are made is up to callers outside the engine: candidates    *)
(* ask for votes and leaders announce themselves in their current term.    *)
(***************************************************************************)
EXTENDS Naturals, Sequences

CONSTANTS
  Node,       \* node ids, not 0
  MaxTerm,    \* bound: terms started
  MaxLog,     \* MAX_LOG_ENTRIES
  MaxPeers,   \* MAX_CONSENSUS_PEERS
  MaxVotes    \* bound: vote_count

ASSUME EngineAssumption ==
  /\ Node \subseteq Nat \ {0}
  /\ MaxTerm \in Nat /\ MaxLog \in Nat /\ MaxPeers \in Nat /\ MaxVotes \in Nat

VARIABLES
  state,          \* "FOLLOWER", "CANDIDATE" or "LEADER"
  current_term,
  voted_for,      \* 0 for nobody
  vote_count,
  peers,          \* the peer table of each engine, in order
  log_size,
  commit_index,
  last_applied,
  calls,          \* <<term, caller, kind>> of the calls made so far
  granted,        \* history: <<voter, term, candidate>> answered 0
  committed       \* history: the largest commit_index so far

election == <<state, current_term, voted_for, vote_count>>
entries == <<log_size, commit_index, last_applied>>
vars == <<election, peers, entries, calls, granted, committed>>

TypeOK ==
  /\ state \in [Node -> {"FOLLOWER", "CANDIDATE", "LEADER"}]
  /\ current_term \in [Node -> Nat] /\ voted_for \in [Node -> Node \cup {0}]
  /\ vote_count \in [Node -> Nat]
  /\ peers \in [Node -> Seq(Node)] /\ \A n \in Node : Len(peers[n]) <= MaxPeers
  /\ log_size \in [Node -> 0..MaxLog]
  /\ commit_index \in [Node -> 0..MaxLog] /\ last_applied \in [Node -> 0..MaxLog]
  /\ calls \subseteq Nat \X Node \X {"vote", "append"}
  /\ granted \subseteq Node \X Nat \X Node /\ committed \in [Node -> 0..MaxLog]

Init ==
  /\ state = [n \in Node |-> "FOLLOWER"]
  /\ current_term = [n \in Node |-> 0] /\ voted_for = [n \in Node |-> 0]
  /\ vote_count = [n \in Node |-> 0]
  /\ peers = [n \in Node |-> << >>]
  /\ log_size = [n \in Node |-> 0] /\ commit_index = [n \in Node |-> 0]
  /\ last_applied = [n \in Node |-> 0]
  /\ calls = {} /\ granted = {} /\ committed = [n \in Node |-> 0]

-----------------------------------------------------------------------------

consensus_start_election(n) ==
  /\ current_term[n] < MaxTerm
  /\ current_term' = [current_term EXCEPT ![n] = @ + 1]
  /\ voted_for' = [voted_for EXCEPT ![n] = n]
  /\ state' = [state EXCEPT ![n] = "CANDIDATE"]
  /\ vote_count' = [vote_count EXCEPT ![n] = 1]
  /\ granted' = granted \cup {<<n, current_term[n] + 1, n>>}
  /\ UNCHANGED <<peers, entries, calls, committed>>

\* Caller (external): a candidate or a leader calls the other engines.
Call(n, kind) ==
  /\ state[n] = IF kind = "vote" THEN "CANDIDATE" ELSE "LEADER"
  /\ calls' = calls \cup {<<current_term[n], n, kind>>}
  /\ UNCHANGED <<election, peers, entries, granted, committed>>

FreeToVoteAlways(n, term, candidate) ==  \* mistaken FreeToVote: voted_for ignored
  term >= current_term[n]

\* A newer term frees the vote; an older one gets none.
FreeToVote(n, term, candidate) ==
  \/ term > current_term[n]
  \/ term = current_term[n] /\ voted_for[n] \in {0, candidate}

\* The engine that answers counts the vote it gave; its state stays as it is,
\* leader or candidate of the older term though it may be.
consensus_request_vote(n, term, candidate) ==
  /\ FreeToVote(n, term, candidate) /\ vote_count[n] < MaxVotes
  /\ current_term' = [current_term EXCEPT ![n] = term]
  /\ voted_for' = [voted_for EXCEPT ![n] = candidate]
  /\ vote_count' = [vote_count EXCEPT ![n] = @ + 1]
  /\ granted' = granted \cup {<<n, term, candidate>>}
  /\ UNCHANGED <<state, peers, entries, calls, committed>>

AppendAnyTerm(n, term) ==                \* mistaken consensus_append_entries: != for >
  /\ term # current_term[n]
  /\ current_term' = [current_term EXCEPT ![n] = term]
  /\ voted_for' = [voted_for EXCEPT ![n] = 0]
  /\ state' = [state EXCEPT ![n] = "FOLLOWER"]
  /\ UNCHANGED <<vote_count, peers, entries, calls, granted, committed>>

consensus_append_entries(n, term) ==
  /\ term > current_term[n]
  /\ current_term' = [current_term EXCEPT ![n] = term]
  /\ voted_for' = [voted_for EXCEPT ![n] = 0]
  /\ state' = [state EXCEPT ![n] = "FOLLOWER"]
  /\ UNCHANGED <<vote_count, peers, entries, calls, granted, committed>>

Majority(n) == (Len(peers[n]) + 1) \div 2 + 1

\* next_index and match_index of the peers are set here and read nowhere else.
consensus_win_election(n) ==
  /\ vote_count[n] >= Majority(n)
  /\ state' = [state EXCEPT ![n] = "LEADER"]
  /\ UNCHANGED <<current_term, voted_for, vote_count, peers, entries, calls, granted, committed>>

AddPeerPastTheEnd(n, p) ==               \* mistaken consensus_add_peer: > for >=
  /\ Len(peers[n]) <= MaxPeers
  /\ peers' = [peers EXCEPT ![n] = Append(@, p)]
  /\ UNCHANGED <<election, entries, calls, granted, committed>>

\* The table takes a peer that is already in it once more.
consensus_add_peer(n, p) ==
  /\ Len(peers[n]) < MaxPeers
  /\ peers' = [peers EXCEPT ![n] = Append(@, p)]
  /\ UNCHANGED <<election, entries, calls, granted, committed>>

\* The first entry with the peer's id is closed up.
consensus_remove_peer(n, p) ==
  /\ \E i \in 1..Len(peers[n]) :
       /\ peers[n][i] = p /\ \A j \in 1..(i - 1) : peers[n][j] # p
       /\ peers' = [peers EXCEPT ![n] = SubSeq(@, 1, i - 1) \o SubSeq(@, i + 1, Len(@))]
  /\ UNCHANGED <<election, entries, calls, granted, committed>>

consensus_append_log_entry(n) ==
  /\ log_size[n] < MaxLog
  /\ log_size' = [log_size EXCEPT ![n] = @ + 1]
  /\ UNCHANGED <<election, peers, commit_index, last_applied, calls, granted, committed>>

\* Any index within the log, one behind the current commit_index included.
consensus_commit_entry(n, i) ==
  /\ i \in 1..log_size[n]
  /\ commit_index' = [commit_index EXCEPT ![n] = i]
  /\ committed' = [committed EXCEPT ![n] = IF i > @ THEN i ELSE @]
  /\ UNCHANGED <<election, peers, log_size, last_applied, calls, granted>>

\* What the loop leaves in last_applied: it stops at once after a commit_index
\* that went back.
Applied(n) ==
  LET limit == IF commit_index[n] < log_size[n] THEN commit_index[n] ELSE log_size[n]
  IN  IF last_applied[n] < limit THEN limit ELSE last_applied[n]

consensus_apply_committed_entries(n) ==
  /\ last_applied' = [last_applied EXCEPT ![n] = Applied(n)]
  /\ UNCHANGED <<election, peers, log_size, commit_index, calls, granted, committed>>

ElectionStep(n) ==
  \/ consensus_start_election(n)
  \/ \E kind \in {"vote", "append"} : Call(n, kind)
  \/ \E c \in calls : c[3] = "vote" /\ consensus_request_vote(n, c[1], c[2])
  \/ \E c \in calls : c[3] = "append" /\ consensus_append_entries(n, c[1])
  \/ consensus_win_election(n)
  \/ \E p \in Node : consensus_add_peer(n, p) \/ consensus_remove_peer(n, p)

LogStep(n) ==
  \/ consensus_append_log_entry(n)
  \/ \E i \in 1..MaxLog : consensus_commit_entry(n, i)
  \/ consensus_apply_committed_entries(n)

\* The election and the log of an engine do not look at each other.
ElectionSpec == Init /\ [][\E n \in Node : ElectionStep(n)]_vars

LogSpec == Init /\ [][\E n \in Node : LogStep(n)]_vars

Next == \E n \in Node : ElectionStep(n) \/ LogStep(n)

Spec == Init /\ [][Next]_vars

-----------------------------------------------------------------------------

\* In one term an engine answers 0 to one candidate only, itself included,
\* however often and in whatever order the calls arrive.
OneVotePerTerm ==
  \A g, h \in granted : g[1] = h[1] /\ g[2] = h[2] => g[3] = h[3]

\* No call takes an engine back to an earlier term, and within a term a vote
\* that was given stands.
VoteStands ==
  [][\A n \in Node :
       /\ current_term'[n] >= current_term[n]
       /\ current_term'[n] = current_term[n] /\ voted_for[n] # 0
            => voted_for'[n] = voted_for[n]]_vars

\* Entries are applied once they were committed and never taken back, although
\* consensus_commit_entry may move commit_index back below last_applied.
AppliedWereCommitted ==
  \A n \in Node : last_applied[n] <= committed[n] /\ committed[n] <= log_size[n]

\* What was applied stays applied.
AppliedNeverRetreats == [][\A n \in Node : last_applied'[n] >= last_applied[n]]_vars
=============================================================================
