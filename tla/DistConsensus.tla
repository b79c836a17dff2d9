--------------------------- MODULE DistConsensus ---------------------------
(***************************************************************************)
(* The consensus nodes of distributed-systems/distributed_consensus.c.     *)
(* The code holds the handlers; who calls them is outside it, so sending,  *)
(* counting votes and delivery are modelled from how the handlers and      *)
(* their messages are laid out: a request, once sent, may be delivered to  *)
(* any node, any number of times, in any order.  The code keeps only the   *)
(* length of a log; the terms of its entries are history variables.        *)
(***************************************************************************)
EXTENDS Naturals, Sequences, FiniteSets

CONSTANTS
  Node,       \* node ids, not 0
  MaxTerm,    \* bound: terms started
  MaxLog,     \* MAX_LOG_ENTRIES
  MaxSent     \* bound: requests of each kind sent

VARIABLES
  state,          \* "FOLLOWER", "CANDIDATE" or "LEADER"
  current_term,
  voted_for,
  log,            \* history: terms of the entries; Len is log_size
  commit_index,
  asked,          \* vote requests sent
  offered,        \* append requests sent
  granted,        \* history: <<voter, term, candidate>> answered vote_granted
  unmatched       \* history: an append succeeded behind an entry of another term

node == <<state, current_term, voted_for, log, commit_index>>
vars == <<node, asked, offered, granted, unmatched>>

VoteRequest == [from : Node, term : Nat, last_log_index : Nat]
AppendRequest == [term : Nat, prev_log_index : Nat, prev_log_term : Nat,
                  entries : Seq(Nat), leader_commit : Nat]

TypeOK ==
  /\ state \in [Node -> {"FOLLOWER", "CANDIDATE", "LEADER"}]
  /\ current_term \in [Node -> Nat] /\ voted_for \in [Node -> Node \cup {0}]
  /\ log \in [Node -> Seq(Nat)] /\ \A n \in Node : Len(log[n]) <= MaxLog
  /\ commit_index \in [Node -> Nat]
  /\ asked \subseteq VoteRequest /\ offered \subseteq AppendRequest
  /\ granted \subseteq Node \X Nat \X Node /\ unmatched \in BOOLEAN

Init ==
  /\ state = [n \in Node |-> "FOLLOWER"]
  /\ current_term = [n \in Node |-> 0] /\ voted_for = [n \in Node |-> 0]
  /\ log = [n \in Node |-> << >>] /\ commit_index = [n \in Node |-> 0]
  /\ asked = {} /\ offered = {} /\ granted = {} /\ unmatched = FALSE

-----------------------------------------------------------------------------

\* Every node of N becomes a candidate of its next term and votes for itself.
consensus_become_candidate(N) ==
  /\ \A n \in N : current_term[n] < MaxTerm
  /\ state' = [n \in Node |-> IF n \in N THEN "CANDIDATE" ELSE state[n]]
  /\ current_term' = [n \in Node |-> IF n \in N THEN current_term[n] + 1 ELSE current_term[n]]
  /\ voted_for' = [n \in Node |-> IF n \in N THEN n ELSE voted_for[n]]
  /\ granted' = granted \cup {<<n, current_term[n] + 1, n>> : n \in N}
  /\ UNCHANGED <<log, commit_index, asked, offered, unmatched>>

consensus_start_election(n) == consensus_become_candidate({n})

\* The timeout starts an election on every follower at once.
consensus_handle_election_timeout ==
  /\ \E n \in Node : state[n] = "FOLLOWER"
  /\ consensus_become_candidate({n \in Node : state[n] = "FOLLOWER"})

\* A request of a newer term: consensus_become_follower.
Follow(n, term) ==
  IF term > current_term[n]
    THEN /\ state' = [state EXCEPT ![n] = "FOLLOWER"]
         /\ current_term' = [current_term EXCEPT ![n] = term]
    ELSE UNCHANGED <<state, current_term>>

\* The voter compares voted_for with its own id, and records its own id.
Grants(n, r) ==
  /\ \/ r.term > current_term[n]
     \/ r.term = current_term[n] /\ voted_for[n] \in {0, n}
  /\ r.last_log_index >= Len(log[n])

consensus_request_vote_handler(n, r) ==
  /\ Follow(n, r.term)
  /\ voted_for' = [voted_for EXCEPT ![n] =
       IF Grants(n, r) THEN n ELSE IF r.term > current_term[n] THEN 0 ELSE @]
  /\ granted' = IF Grants(n, r) THEN granted \cup {<<n, r.term, r.from>>} ELSE granted
  /\ UNCHANGED <<log, commit_index, asked, offered, unmatched>>

\* Caller (external): a candidate with a majority of its term's votes is made
\* leader.  The next_index and match_index arrays set up here are never read.
consensus_become_leader(n) ==
  /\ state[n] = "CANDIDATE"
  /\ 2 * Cardinality({v \in Node : <<v, current_term[n], n>> \in granted}) > Cardinality(Node)
  /\ state' = [state EXCEPT ![n] = "LEADER"]
  /\ UNCHANGED <<current_term, voted_for, log, commit_index, asked, offered, granted, unmatched>>

\* Caller (external): a leader takes a new entry.
consensus_append_entry(n) ==
  /\ state[n] = "LEADER" /\ Len(log[n]) < MaxLog
  /\ log' = [log EXCEPT ![n] = Append(@, current_term[n])]
  /\ UNCHANGED <<state, current_term, voted_for, commit_index, asked, offered, granted, unmatched>>

\* Transport (external): a candidate asks for votes.
AskForVotes(n) ==
  /\ state[n] = "CANDIDATE" /\ Cardinality(asked) < MaxSent
  /\ asked' = asked \cup
       {[from |-> n, term |-> current_term[n], last_log_index |-> Len(log[n])]}
  /\ UNCHANGED <<node, offered, granted, unmatched>>

\* Transport (external): a leader offers the entry behind prev, if there is
\* one, and a commit index of its choice within its log.
OfferEntries(n, prev, commit) ==
  /\ state[n] = "LEADER" /\ Cardinality(offered) < MaxSent
  /\ prev <= Len(log[n]) /\ commit <= Len(log[n])
  /\ offered' = offered \cup
       {[term |-> current_term[n], prev_log_index |-> prev,
         prev_log_term |-> IF prev = 0 THEN 0 ELSE log[n][prev],
         entries |-> IF prev < Len(log[n]) THEN <<log[n][prev + 1]>> ELSE << >>,
         leader_commit |-> commit]}
  /\ UNCHANGED <<node, asked, granted, unmatched>>

\* Entries are appended until the log is full.
Appended(n, entries) ==
  log[n] \o SubSeq(entries, 1, IF Len(log[n]) + Len(entries) <= MaxLog
                                 THEN Len(entries) ELSE MaxLog - Len(log[n]))

CommitAsTold(n, leader_commit, size) ==     \* mistaken Commit: not compared with commit_index
  IF leader_commit < size THEN leader_commit ELSE size

Commit(n, leader_commit, size) ==
  IF leader_commit > commit_index[n]
    THEN IF leader_commit < size THEN leader_commit ELSE size
    ELSE commit_index[n]

\* prev_log_index is compared with the length of the log; prev_log_term is not
\* looked at, and entries always go to the end of the log.
consensus_append_entries_handler(n, r) ==
  /\ Follow(n, r.term)
  /\ voted_for' = [voted_for EXCEPT ![n] = IF r.term > current_term[n] THEN 0 ELSE @]
  /\ IF r.term >= current_term[n] /\ r.prev_log_index <= Len(log[n])
       THEN /\ log' = [log EXCEPT ![n] = Appended(n, r.entries)]
            /\ commit_index' = [commit_index EXCEPT ![n] =
                                  Commit(n, r.leader_commit, Len(Appended(n, r.entries)))]
            /\ unmatched' = (\/ unmatched
                             \/ /\ r.prev_log_index > 0
                                /\ log[n][r.prev_log_index] # r.prev_log_term)
       ELSE UNCHANGED <<log, commit_index, unmatched>>
  /\ UNCHANGED <<asked, offered, granted>>

Next ==
  \/ consensus_handle_election_timeout
  \/ \E n \in Node :
       \/ consensus_start_election(n)
       \/ consensus_become_leader(n)
       \/ consensus_append_entry(n)
       \/ AskForVotes(n)
       \/ \E prev, commit \in 0..MaxLog : OfferEntries(n, prev, commit)
       \/ \E r \in asked : consensus_request_vote_handler(n, r)
       \/ \E r \in offered : consensus_append_entries_handler(n, r)

Spec == Init /\ [][Next]_vars

-----------------------------------------------------------------------------

\* Requests that arrive late, twice or out of order never take a node back to
\* an earlier term, and a node leads only a term it was a candidate of: a
\* leader that learns of a newer term has stepped down in the same step.
TermsOnlyGrow ==
  [][\A n \in Node :
       /\ current_term'[n] >= current_term[n]
       /\ state'[n] = "LEADER" => current_term'[n] = current_term[n]]_vars

\* The commit index never passes the end of the node's log, whatever commit
\* index a leader offered and whichever entries are still missing.
CommitWithinLog == \A n \in Node : commit_index[n] <= Len(log[n])

\* What a node has committed stays committed, also when an old append request
\* with a smaller leader_commit arrives later.
CommitNeverRetreats ==
  [][\A n \in Node :
       /\ commit_index'[n] >= commit_index[n]
       /\ SubSeq(log'[n], 1, commit_index[n]) = SubSeq(log[n], 1, commit_index[n])]_vars

\* "If haven't voted or voted for this candidate": in one term, a node gives its
\* vote to one candidate.
OneVotePerTerm ==
  \A g, h \in granted : g[1] = h[1] /\ g[2] = h[2] => g[3] = h[3]

\* "Check prev log term matches": an append request is answered with success
\* only by a node whose entry at prev_log_index has the term prev_log_term.
PrevTermMatches == ~unmatched
=============================================================================
