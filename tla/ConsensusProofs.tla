--------------------------- MODULE ConsensusProofs ---------------------------
(***************************************************************************)
(* The consensus implementations and the replicated cluster of MCConsensus *)
(* for any number of nodes, terms, entries and calls in any order: votes   *)
(* and logs of the consensus engine, terms and commits of the distributed  *)
(* consensus, leader, terms and events of the cluster manager, replicas    *)
(* and logs of the replication manager.                                    *)
(***************************************************************************)
EXTENDS MCConsensus, Integers, TLAPS

-----------------------------------------------------------------------------
(* Votes of the consensus engine. The strengthening says where the votes     *)
(* given so far are remembered: those of the current term in voted_for, all  *)
(* others lie in older terms.                                                *)

\* The part of TypeOK the argument needs.
Typed ==
  /\ current_term \in [Node -> Nat] /\ voted_for \in [Node -> Node \cup {0}]
  /\ calls \subseteq Nat \X Node \X {"vote", "append"}
  /\ granted \subseteq Node \X Nat \X Node

\* Every vote given is the one of the current term or belongs to an older one.
Remembered ==
  \A g \in granted :
    \/ g[2] < current_term[g[1]]
    \/ g[2] = current_term[g[1]] /\ voted_for[g[1]] = g[3]

VotesInv == Typed /\ Remembered /\ OneVotePerTerm

\* Calls that leave terms, votes and history alone.
Aside == UNCHANGED <<current_term, voted_for, granted, calls>>

\* Ids are not 0: nobody is nobody's id.
LEMMA NodeIds == \A n \in Node : n # 0 /\ n \in Nat
BY EngineAssumption

\* Every step keeps terms, votes and calls well typed.
LEMMA TypedStep == Typed /\ [Next]_vars => Typed'
<1> SUFFICES ASSUME Typed, [Next]_vars PROVE Typed'
  OBVIOUS
<1> USE DEF Typed
<1>1. ASSUME NEW n \in Node, consensus_start_election(n) PROVE Typed'
  BY <1>1 DEF consensus_start_election
<1>2. ASSUME NEW n \in Node, NEW kind \in {"vote", "append"}, Call(n, kind) PROVE Typed'
  BY <1>2 DEF Call, election
<1>3. ASSUME NEW n \in Node, NEW c \in calls, consensus_request_vote(n, c[1], c[2])
      PROVE Typed'
  <2>1. c[1] \in Nat /\ c[2] \in Node OBVIOUS
  <2> QED BY <1>3, <2>1 DEF consensus_request_vote
<1>4. ASSUME NEW n \in Node, NEW c \in calls, consensus_append_entries(n, c[1]) PROVE Typed'
  <2>1. c[1] \in Nat OBVIOUS
  <2> QED BY <1>4, <2>1 DEF consensus_append_entries
<1>5. CASE Aside BY <1>5 DEF Aside
<1> QED
  BY Zenon, <1>1, <1>2, <1>3, <1>4, <1>5
  DEF Next, vars, ElectionStep, LogStep, Aside, election, consensus_win_election,
      consensus_add_peer, consensus_remove_peer, consensus_append_log_entry,
      consensus_commit_entry, consensus_apply_committed_entries

\* Every step keeps the votes remembered and single.
LEMMA VoteStep == VotesInv /\ [Next]_vars => Remembered' /\ OneVotePerTerm'
<1> SUFFICES ASSUME VotesInv, [Next]_vars PROVE Remembered' /\ OneVotePerTerm'
  OBVIOUS
<1> USE DEF VotesInv
<1>0. \A g \in granted : g[1] \in Node /\ g[2] \in Nat /\ g[3] \in Node
  BY DEF Typed
<1>1. ASSUME NEW n \in Node, consensus_start_election(n)
      PROVE  Remembered' /\ OneVotePerTerm'
  <2> DEFINE v == <<n, current_term[n] + 1, n>>
  <2>1. granted' = granted \cup {v} /\ current_term[n] \in Nat
    BY <1>1 DEF consensus_start_election, Typed
  <2>2. \A g \in granted : g[1] = n => g[2] < current_term[n] + 1
    BY <1>0, <2>1 DEF Remembered, Typed
  <2>3. Remembered'
    BY <1>0, <1>1, <2>1, <2>2 DEF Remembered, Typed, consensus_start_election
  <2>4. OneVotePerTerm'
    BY <1>0, <2>1, <2>2 DEF OneVotePerTerm
  <2> QED BY <2>3, <2>4
<1>2. ASSUME NEW n \in Node, NEW c \in calls, consensus_request_vote(n, c[1], c[2])
      PROVE  Remembered' /\ OneVotePerTerm'
  <2> DEFINE t == c[1]
             w == c[2]
             v == <<n, t, w>>
  <2>1. /\ t \in Nat /\ w \in Node /\ w # 0
        /\ granted' = granted \cup {v} /\ current_term[n] \in Nat
        /\ FreeToVote(n, t, w)
    BY <1>2, NodeIds DEF consensus_request_vote, Typed
  <2>2. \A g \in granted : g[1] = n => g[2] < t \/ (g[2] = t /\ g[3] = w)
    <3> SUFFICES ASSUME NEW g \in granted, g[1] = n
                 PROVE  g[2] < t \/ (g[2] = t /\ g[3] = w)
      OBVIOUS
    <3>1. g[2] \in Nat /\ g[3] # 0 BY <1>0, NodeIds
    <3>2. g[2] < current_term[n] \/ (g[2] = current_term[n] /\ voted_for[n] = g[3])
      BY DEF Remembered
    <3>3. t > current_term[n] \/ (t = current_term[n] /\ voted_for[n] \in {0, w})
      BY <2>1 DEF FreeToVote
    <3> QED BY <2>1, <3>1, <3>2, <3>3
  <2>3. /\ current_term' = [current_term EXCEPT ![n] = t]
        /\ voted_for' = [voted_for EXCEPT ![n] = w]
    BY <1>2 DEF consensus_request_vote
  <2>4. Remembered'
    <3> SUFFICES ASSUME NEW g \in granted \cup {v}
                 PROVE  \/ g[2] < current_term'[g[1]]
                        \/ g[2] = current_term'[g[1]] /\ voted_for'[g[1]] = g[3]
      BY <2>1 DEF Remembered
    <3>1. CASE g = v BY <2>1, <2>3, <3>1 DEF Typed
    <3>2. CASE g \in granted /\ g[1] = n BY <2>1, <2>2, <2>3, <3>2 DEF Typed
    <3>3. CASE g \in granted /\ g[1] # n
      BY <1>0, <2>3, <3>3 DEF Remembered, Typed
    <3> QED BY <3>1, <3>2, <3>3
  <2>5. OneVotePerTerm'
    BY <1>0, <2>1, <2>2 DEF OneVotePerTerm
  <2> QED BY <2>4, <2>5
<1>3. ASSUME NEW n \in Node, NEW c \in calls, consensus_append_entries(n, c[1])
      PROVE  Remembered' /\ OneVotePerTerm'
  <2>1. /\ c[1] \in Nat /\ c[1] > current_term[n] /\ granted' = granted
        /\ current_term' = [current_term EXCEPT ![n] = c[1]]
        /\ voted_for' = [voted_for EXCEPT ![n] = 0]
    BY <1>3 DEF consensus_append_entries, Typed
  <2>2. Remembered'
    BY <1>0, <2>1 DEF Remembered, Typed
  <2> QED BY <2>1, <2>2 DEF OneVotePerTerm
<1>4. CASE UNCHANGED <<current_term, voted_for, granted>>
  BY <1>4 DEF Remembered, OneVotePerTerm
<1> QED
  BY Zenon, <1>1, <1>2, <1>3, <1>4
  DEF Next, vars, ElectionStep, LogStep, election, Call, consensus_win_election,
      consensus_add_peer, consensus_remove_peer, consensus_append_log_entry,
      consensus_commit_entry, consensus_apply_committed_entries

\* The invariant holds for the cluster of engines.
THEOREM Invariance == Spec => []VotesInv
<1>1. Init => VotesInv
  BY DEF Init, VotesInv, Typed, Remembered, OneVotePerTerm
<1>2. VotesInv /\ [Next]_vars => VotesInv'
  BY TypedStep, VoteStep DEF VotesInv
<1> QED BY <1>1, <1>2, PTL DEF Spec

\* Late, repeated and reordered calls never get two votes of one term out of an
\* engine: consensus_request_vote gives its vote to one candidate.
THEOREM SingleVote == Spec => []OneVotePerTerm
BY Invariance, PTL DEF VotesInv

\* No step takes a term back, or a vote within its term.
LEMMA VoteKept ==
  ASSUME VotesInv, [Next]_vars, NEW n \in Node
  PROVE  /\ current_term'[n] >= current_term[n]
         /\ current_term'[n] = current_term[n] /\ voted_for[n] # 0 => voted_for'[n] = voted_for[n]
<1> DEFINE Goal == /\ current_term'[n] >= current_term[n]
                   /\ current_term'[n] = current_term[n] /\ voted_for[n] # 0 => voted_for'[n] = voted_for[n]
<1>0. current_term[n] \in Nat
  BY DEF VotesInv, Typed
<1>1. ASSUME NEW m \in Node, consensus_start_election(m) PROVE Goal
  BY <1>0, <1>1 DEF consensus_start_election, VotesInv, Typed
<1>2. ASSUME NEW m \in Node, NEW c \in calls, consensus_append_entries(m, c[1]) PROVE Goal
  BY <1>0, <1>2 DEF consensus_append_entries, VotesInv, Typed
<1>3. ASSUME NEW m \in Node, NEW c \in calls, consensus_request_vote(m, c[1], c[2]) PROVE Goal
  BY <1>0, <1>3 DEF consensus_request_vote, FreeToVote, VotesInv, Typed
<1>4. CASE UNCHANGED <<current_term, voted_for>>
  BY <1>0, <1>4
<1>5. \/ \E m \in Node : consensus_start_election(m)
      \/ \E m \in Node, c \in calls : consensus_append_entries(m, c[1])
      \/ \E m \in Node, c \in calls : consensus_request_vote(m, c[1], c[2])
      \/ UNCHANGED <<current_term, voted_for>>
  BY Zenon DEF Next, vars, ElectionStep, LogStep, election, Call, consensus_win_election,
         consensus_add_peer, consensus_remove_peer, consensus_append_log_entry,
         consensus_commit_entry, consensus_apply_committed_entries
<1> QED
  BY <1>1, <1>2, <1>3, <1>4, <1>5

\* Terms never go back and a vote stands for the rest of its term.
THEOREM VotesStand == Spec => VoteStands
<1>1. VotesInv /\ [Next]_vars =>
        [\A n \in Node :
           /\ current_term'[n] >= current_term[n]
           /\ current_term'[n] = current_term[n] /\ voted_for[n] # 0
                => voted_for'[n] = voted_for[n]]_vars
  BY VoteKept
<1> QED
  BY Invariance, <1>1, PTL DEF Spec, VoteStands

-----------------------------------------------------------------------------
(* The log of the consensus engine *)

\* Whatever index is committed or applied, committed has seen it, and it lies in the log.
LogInv ==
  \A n \in Node : commit_index[n] <= committed[n] /\ last_applied[n] <= committed[n] /\ committed[n] <= log_size[n]

EngineInv == TypeOK /\ VotesInv /\ LogInv

\* TypeOK in parts: Typed above, the peers and the other fields.
PeerTable == peers \in [Node -> Seq(Node)] /\ \A n \in Node : Len(peers[n]) <= MaxPeers

Fields ==
  /\ state \in [Node -> {"FOLLOWER", "CANDIDATE", "LEADER"}] /\ vote_count \in [Node -> Nat]
  /\ log_size \in [Node -> 0..MaxLog] /\ commit_index \in [Node -> 0..MaxLog]
  /\ last_applied \in [Node -> 0..MaxLog] /\ committed \in [Node -> 0..MaxLog]

\* The peer table after a call, and what stays of it when an entry is closed up.
LEMMA PeerTables ==
  ASSUME NEW s \in Seq(Node), NEW p \in Node, NEW i \in 1..Len(s)
  PROVE  /\ Append(s, p) \in Seq(Node) /\ Len(Append(s, p)) = Len(s) + 1
         /\ SubSeq(s, 1, i - 1) \o SubSeq(s, i + 1, Len(s)) \in Seq(Node)
         /\ Len(SubSeq(s, 1, i - 1) \o SubSeq(s, i + 1, Len(s))) = Len(s) - 1
<1> DEFINE front == SubSeq(s, 1, i - 1)
<1> DEFINE back == SubSeq(s, i + 1, Len(s))
<1>1. Append(s, p) \in Seq(Node) /\ Len(Append(s, p)) = Len(s) + 1 /\ Len(s) \in Nat
  OBVIOUS
<1>2. front \in Seq(Node) /\ Len(front) = i - 1
  BY <1>1
<1>3. back \in Seq(Node) /\ Len(back) = Len(s) - i
  BY <1>1
<1>4. front \o back \in Seq(Node) /\ Len(front \o back) = Len(front) + Len(back)
  <2> HIDE DEF front, back
  <2> QED
    BY <1>2, <1>3
<1> HIDE DEF front, back
<1>5. Len(front \o back) = Len(s) - 1
  BY <1>1, <1>2, <1>3, <1>4
<1> QED
  BY Zenon, <1>1, <1>4, <1>5 DEF front, back

\* Every step keeps the numbers and states of the engines well typed.
LEMMA FieldsStep == TypeOK /\ [Next]_vars => Fields'
<1> SUFFICES ASSUME TypeOK, [Next]_vars PROVE Fields'
  OBVIOUS
<1>0. Fields
  BY DEF TypeOK, Fields
<1> USE EngineAssumption DEF Fields
<1>1. ASSUME NEW n \in Node, consensus_start_election(n) PROVE Fields'
  BY <1>0, <1>1 DEF consensus_start_election, entries
<1>3. ASSUME NEW n \in Node, NEW t, NEW c, consensus_request_vote(n, t, c) PROVE Fields'
  BY <1>0, <1>3 DEF consensus_request_vote, entries
<1>4. ASSUME NEW n \in Node, NEW t, consensus_append_entries(n, t) PROVE Fields'
  BY <1>0, <1>4 DEF consensus_append_entries, entries
<1>5. ASSUME NEW n \in Node, consensus_win_election(n) PROVE Fields'
  BY <1>0, <1>5 DEF consensus_win_election, entries
<1>6. ASSUME NEW n \in Node, consensus_append_log_entry(n) PROVE Fields'
  <2>1. /\ log_size[n] \in 0..MaxLog /\ log_size[n] < MaxLog /\ log_size' = [log_size EXCEPT ![n] = log_size[n] + 1]
        /\ UNCHANGED <<election, commit_index, last_applied, committed>>
    BY <1>0, <1>6 DEF consensus_append_log_entry
  <2>2. log_size[n] + 1 \in 0..MaxLog
    BY <2>1
  <2> QED
    BY <1>0, <2>1, <2>2 DEF election
<1>7. ASSUME NEW n \in Node, NEW i \in 1..MaxLog, consensus_commit_entry(n, i) PROVE Fields'
  <2>1. i \in 0..MaxLog /\ (IF i > committed[n] THEN i ELSE committed[n]) \in 0..MaxLog
    BY <1>0
  <2>2. /\ commit_index' = [commit_index EXCEPT ![n] = i]
        /\ committed' = [committed EXCEPT ![n] = IF i > committed[n] THEN i ELSE committed[n]]
        /\ UNCHANGED <<election, log_size, last_applied>>
    BY <1>7 DEF consensus_commit_entry
  <2> QED
    BY <1>0, <2>1, <2>2 DEF election
<1>8. ASSUME NEW n \in Node, consensus_apply_committed_entries(n) PROVE Fields'
  <2>1. Applied(n) \in 0..MaxLog
    BY <1>0 DEF Applied
  <2> QED
    BY <1>0, <1>8, <2>1 DEF consensus_apply_committed_entries, election
<1>9. CASE UNCHANGED <<election, entries, committed>>
  BY <1>0, <1>9 DEF election, entries
<1> HIDE DEF Fields
<1> QED
  BY Zenon, <1>1, <1>3, <1>4, <1>5, <1>6, <1>7, <1>8, <1>9
  DEF Next, ElectionStep, LogStep, vars, Call, consensus_add_peer, consensus_remove_peer

\* Every step keeps the peer tables within their size.
LEMMA PeersStep == TypeOK /\ [Next]_vars => PeerTable'
<1> SUFFICES ASSUME TypeOK, [Next]_vars PROVE PeerTable'
  OBVIOUS
<1>0. PeerTable
  BY DEF TypeOK, PeerTable
<1> USE EngineAssumption DEF PeerTable
<1>6. ASSUME NEW n \in Node, NEW s \in Seq(Node), Len(s) <= MaxPeers, peers' = [peers EXCEPT ![n] = s]
      PROVE  PeerTable'
  BY <1>0, <1>6
<1>7. ASSUME NEW n \in Node, NEW p \in Node, consensus_add_peer(n, p) PROVE PeerTable'
  <2>1. /\ peers[n] \in Seq(Node) /\ Len(peers[n]) \in Nat
        /\ Append(peers[n], p) \in Seq(Node) /\ Len(Append(peers[n], p)) = Len(peers[n]) + 1
    BY <1>0
  <2>2. Len(peers[n]) < MaxPeers /\ peers' = [peers EXCEPT ![n] = Append(peers[n], p)]
    BY <1>7 DEF consensus_add_peer
  <2>3. Len(Append(peers[n], p)) <= MaxPeers
    BY <2>1, <2>2
  <2> QED
    BY Zenon, <1>6, <2>1, <2>2, <2>3
<1>8. ASSUME NEW n \in Node, NEW p \in Node, consensus_remove_peer(n, p) PROVE PeerTable'
  <2> DEFINE s(i) == SubSeq(peers[n], 1, i - 1) \o SubSeq(peers[n], i + 1, Len(peers[n]))
  <2>1. PICK i \in 1..Len(peers[n]) : peers' = [peers EXCEPT ![n] = s(i)]
    BY Zenon, <1>8 DEF consensus_remove_peer
  <2>2. peers[n] \in Seq(Node) /\ Len(peers[n]) \in Nat /\ Len(peers[n]) <= MaxPeers
    BY <1>0
  <2>3. s(i) \in Seq(Node) /\ Len(s(i)) = Len(peers[n]) - 1
    BY Zenon, <2>2, PeerTables
  <2> HIDE DEF s
  <2>4. Len(s(i)) <= MaxPeers
    BY <2>2, <2>3
  <2> QED
    BY Zenon, <1>6, <2>1, <2>3, <2>4
<1>9. CASE UNCHANGED peers
  BY <1>0, <1>9
<1> HIDE DEF PeerTable
<1> QED
  BY Zenon, <1>7, <1>8, <1>9
  DEF Next, ElectionStep, LogStep, vars, Call, consensus_start_election, consensus_request_vote,
      consensus_append_entries, consensus_win_election, consensus_append_log_entry, consensus_commit_entry,
      consensus_apply_committed_entries

\* Every step keeps the engines well typed.
LEMMA EngineTypeStep == TypeOK /\ [Next]_vars => TypeOK'
<1>1. TypeOK <=> Typed /\ Fields /\ PeerTable
  BY Zenon DEF TypeOK, Typed, Fields, PeerTable
<1>2. (TypeOK <=> Typed /\ Fields /\ PeerTable)'
  BY Zenon DEF TypeOK, Typed, Fields, PeerTable
<1> QED
  BY <1>1, <1>2, TypedStep, FieldsStep, PeersStep

\* Every step keeps what is applied within what was committed, and that within
\* the log, and applies nothing less than before.
LEMMA LogStepInv ==
  TypeOK /\ LogInv /\ [Next]_vars => LogInv' /\ \A n \in Node : last_applied'[n] >= last_applied[n]
<1> SUFFICES ASSUME TypeOK, LogInv, [Next]_vars, NEW m \in Node
             PROVE  /\ commit_index'[m] <= committed'[m] /\ last_applied'[m] <= committed'[m]
                    /\ committed'[m] <= log_size'[m] /\ last_applied'[m] >= last_applied[m]
  BY DEF LogInv
<1> DEFINE Goal == /\ commit_index'[m] <= committed'[m] /\ last_applied'[m] <= committed'[m]
                   /\ committed'[m] <= log_size'[m] /\ last_applied'[m] >= last_applied[m]
<1>0. /\ commit_index[m] \in Nat /\ committed[m] \in Nat /\ log_size[m] \in Nat /\ last_applied[m] \in Nat
      /\ commit_index[m] <= committed[m] /\ last_applied[m] <= committed[m] /\ committed[m] <= log_size[m]
  BY EngineAssumption DEF TypeOK, LogInv
<1>f. /\ DOMAIN commit_index = Node /\ DOMAIN committed = Node
      /\ log_size = [n \in Node |-> log_size[n]] /\ last_applied = [n \in Node |-> last_applied[n]]
  BY DEF TypeOK
<1>1. ASSUME NEW n \in Node, consensus_append_log_entry(n) PROVE Goal
  BY <1>0, <1>f, <1>1 DEF consensus_append_log_entry
<1>2. ASSUME NEW n \in Node, NEW i \in 1..MaxLog, consensus_commit_entry(n, i) PROVE Goal
  <2>1. /\ UNCHANGED <<last_applied, log_size>> /\ i <= log_size[n] /\ i \in Nat
        /\ commit_index' = [commit_index EXCEPT ![n] = i]
        /\ committed' = [committed EXCEPT ![n] = IF i > committed[n] THEN i ELSE committed[n]]
    BY <1>2, EngineAssumption DEF consensus_commit_entry
  <2>2. CASE m = n
    <3>1. commit_index'[m] = i /\ committed'[m] = IF i > committed[m] THEN i ELSE committed[m]
      BY <1>f, <2>1, <2>2
    <3> QED
      BY <1>0, <2>1, <2>2, <3>1
  <2>3. CASE m # n
    BY <1>0, <1>f, <2>1, <2>3
  <2> QED
    BY <2>2, <2>3
<1>3. ASSUME NEW n \in Node, consensus_apply_committed_entries(n) PROVE Goal
  BY <1>0, <1>f, <1>3 DEF consensus_apply_committed_entries, Applied
<1>4. CASE UNCHANGED <<entries, committed>>
  BY <1>0, <1>4 DEF entries
<1>5. \/ \E n \in Node : consensus_append_log_entry(n)
      \/ \E n \in Node, i \in 1..MaxLog : consensus_commit_entry(n, i)
      \/ \E n \in Node : consensus_apply_committed_entries(n)
      \/ UNCHANGED <<entries, committed>>
  BY Zenon DEF Next, vars, ElectionStep, LogStep, Call, consensus_start_election, consensus_request_vote,
       consensus_append_entries, consensus_win_election, consensus_add_peer, consensus_remove_peer
<1> QED
  BY <1>1, <1>2, <1>3, <1>4, <1>5

-----------------------------------------------------------------------------
(* Terms and commits of the distributed consensus *)

DistInv == Dist!TypeOK /\ Dist!CommitWithinLog

\* What a node keeps of a log when entries arrive: all it had, and no more than fits.
LEMMA LogGrows ==
  ASSUME Dist!TypeOK, NEW n \in Node, NEW e \in Seq(Nat)
  PROVE  LET l == Dist!Appended(n, e)
         IN  /\ l \in Seq(Nat) /\ Len(l) <= MaxDistLog /\ Len(l) >= Len(log[n])
             /\ \A i \in 1..Len(log[n]) : l[i] = log[n][i]
<1> DEFINE k == IF Len(log[n]) + Len(e) <= MaxDistLog THEN Len(e) ELSE MaxDistLog - Len(log[n])
<1> DEFINE part == SubSeq(e, 1, k)
<1>1. /\ log[n] \in Seq(Nat) /\ Len(log[n]) \in Nat /\ Len(log[n]) <= MaxDistLog /\ Len(e) \in Nat
      /\ MaxDistLog \in Nat
  BY ConsensusAssumption DEF Dist!TypeOK
<1>2. k \in Nat /\ k <= Len(e) /\ Len(log[n]) + k <= MaxDistLog
  <2>1. ASSUME NEW a \in Nat, NEW b \in Nat, NEW h \in Nat, a <= h
        PROVE  LET c == IF a + b <= h THEN b ELSE h - a IN c \in Nat /\ c <= b /\ a + c <= h
    BY <2>1
  <2> QED
    BY Zenon, <1>1, <2>1
<1>3. part \in Seq(Nat) /\ Len(part) = k
  <2> HIDE DEF k
  <2> QED
    BY <1>1, <1>2
<1>4. Dist!Appended(n, e) = log[n] \o part
  BY DEF Dist!Appended
<1> HIDE DEF part
<1>5. /\ log[n] \o part \in Seq(Nat) /\ Len(log[n] \o part) = Len(log[n]) + Len(part)
      /\ \A i \in 1..Len(log[n]) : (log[n] \o part)[i] = log[n][i]
  <2>1. ASSUME NEW s \in Seq(Nat), NEW u \in Seq(Nat)
        PROVE  /\ s \o u \in Seq(Nat) /\ Len(s \o u) = Len(s) + Len(u)
               /\ \A i \in 1..Len(s) : (s \o u)[i] = s[i]
    OBVIOUS
  <2>2. log[n] \in Seq(Nat) /\ part \in Seq(Nat)
    BY <1>1, <1>3
  <2> QED
    BY Zenon, <2>1, <2>2
<1> HIDE DEF k
<1>6. Len(log[n] \o part) <= MaxDistLog /\ Len(log[n] \o part) >= Len(log[n])
  BY <1>1, <1>2, <1>3, <1>5
<1> QED
  BY <1>4, <1>5, <1>6

\* A sequence that begins like another has the same first entries.
LEMMA SamePrefix ==
  ASSUME NEW s \in Seq(Nat), NEW u \in Seq(Nat), NEW k \in Nat, k <= Len(s), k <= Len(u),
         \A i \in 1..k : s[i] = u[i]
  PROVE  SubSeq(s, 1, k) = SubSeq(u, 1, k)
<1>1. /\ SubSeq(s, 1, k) \in Seq(Nat) /\ Len(SubSeq(s, 1, k)) = k
      /\ SubSeq(u, 1, k) \in Seq(Nat) /\ Len(SubSeq(u, 1, k)) = k
  OBVIOUS
<1>2. ASSUME NEW i \in 1..k PROVE SubSeq(s, 1, k)[i] = SubSeq(u, 1, k)[i]
  OBVIOUS
<1> QED
  BY <1>1, <1>2

\* What every step of a node keeps: nothing of its term, its log up to the commit
\* index and the commit index itself is taken back.
Forward(n) ==
  /\ dist_current_term'[n] \in Nat /\ dist_current_term'[n] >= dist_current_term[n]
  /\ dist_state'[n] = "LEADER" => dist_current_term'[n] = dist_current_term[n]
  /\ log'[n] \in Seq(Nat) /\ Len(log'[n]) <= MaxDistLog /\ Len(log'[n]) >= Len(log[n])
  /\ \A i \in 1..Len(log[n]) : log'[n][i] = log[n][i]
  /\ dist_commit_index'[n] \in Nat /\ dist_commit_index'[n] >= dist_commit_index[n]
  /\ dist_commit_index'[n] <= Len(log'[n])

LEMMA DistForward ==
  ASSUME DistInv, [Dist!Next]_distVars, NEW m \in Node
  PROVE  Forward(m)
<1>0. /\ dist_current_term[m] \in Nat /\ log[m] \in Seq(Nat) /\ Len(log[m]) \in Nat /\ Len(log[m]) <= MaxDistLog
      /\ dist_commit_index[m] \in Nat /\ dist_commit_index[m] <= Len(log[m])
  BY DEF DistInv, Dist!TypeOK, Dist!CommitWithinLog
<1>f. /\ dist_state = [n \in Node |-> dist_state[n]] /\ dist_current_term = [n \in Node |-> dist_current_term[n]]
      /\ log = [n \in Node |-> log[n]] /\ dist_commit_index = [n \in Node |-> dist_commit_index[n]]
  BY DEF DistInv, Dist!TypeOK
<1>k. ASSUME UNCHANGED <<log, dist_commit_index>>,
             dist_current_term'[m] \in Nat, dist_current_term'[m] >= dist_current_term[m],
             dist_state'[m] = "LEADER" => dist_current_term'[m] = dist_current_term[m]
      PROVE  Forward(m)
  BY <1>0, <1>k DEF Forward
<1>1. ASSUME NEW N \in SUBSET Node, Dist!consensus_become_candidate(N) PROVE Forward(m)
  <2>1. /\ dist_current_term'[m] = IF m \in N THEN dist_current_term[m] + 1 ELSE dist_current_term[m]
        /\ dist_state'[m] = IF m \in N THEN "CANDIDATE" ELSE dist_state[m]
        /\ UNCHANGED <<log, dist_commit_index>>
    BY <1>1 DEF Dist!consensus_become_candidate
  <2> QED
    BY <1>0, <1>k, <2>1
<1>2. ASSUME NEW n \in Node, NEW term \in Nat, Dist!Follow(n, term)
      PROVE  /\ dist_current_term'[m] \in Nat /\ dist_current_term'[m] >= dist_current_term[m]
             /\ dist_state'[m] = "LEADER" => dist_current_term'[m] = dist_current_term[m]
  BY <1>0, <1>f, <1>2 DEF Dist!Follow
<1>3. ASSUME NEW n \in Node, NEW r \in asked, Dist!consensus_request_vote_handler(n, r) PROVE Forward(m)
  <2>1. r.term \in Nat /\ Dist!Follow(n, r.term) /\ UNCHANGED <<log, dist_commit_index>>
    BY <1>3 DEF DistInv, Dist!TypeOK, Dist!VoteRequest, Dist!consensus_request_vote_handler
  <2> QED
    BY <1>2, <1>k, <2>1
<1>4. ASSUME NEW n \in Node, NEW r \in offered, Dist!consensus_append_entries_handler(n, r) PROVE Forward(m)
  <2>1. /\ r.term \in Nat /\ r.entries \in Seq(Nat) /\ r.leader_commit \in Nat
    BY <1>4 DEF DistInv, Dist!TypeOK, Dist!AppendRequest
  <2>2. Dist!Follow(n, r.term)
    BY <1>4 DEF Dist!consensus_append_entries_handler
  <2>3. CASE UNCHANGED <<log, dist_commit_index>>
    BY <1>2, <1>k, <2>1, <2>2, <2>3
  <2>4. CASE /\ log' = [log EXCEPT ![n] = Dist!Appended(n, r.entries)]
             /\ dist_commit_index' = [dist_commit_index EXCEPT ![n] =
                  Dist!Commit(n, r.leader_commit, Len(Dist!Appended(n, r.entries)))]
    <3> DEFINE l == Dist!Appended(n, r.entries)
    <3> DEFINE c == Dist!Commit(n, r.leader_commit, Len(l))
    <3>1. CASE m # n
      <4>1. log'[m] = log[m] /\ dist_commit_index'[m] = dist_commit_index[m]
        BY Zenon, <1>f, <2>4, <3>1
      <4> QED
        BY <1>0, <1>2, <2>1, <2>2, <4>1 DEF Forward
    <3>2. CASE m = n
      <4>1. log'[m] = l /\ dist_commit_index'[m] = c
        BY <1>f, <2>4, <3>2
      <4>2. /\ l \in Seq(Nat) /\ Len(l) \in Nat /\ Len(l) <= MaxDistLog /\ Len(l) >= Len(log[m])
            /\ \A i \in 1..Len(log[m]) : l[i] = log[m][i]
        BY <2>1, <3>2, LogGrows DEF DistInv
      <4> HIDE DEF l
      <4>3. c \in Nat /\ c >= dist_commit_index[m] /\ c <= Len(l)
        BY <1>0, <2>1, <3>2, <4>2 DEF Dist!Commit
      <4> HIDE DEF c
      <4> QED
        BY <1>0, <1>2, <2>1, <2>2, <4>1, <4>2, <4>3 DEF Forward
    <3> QED
      BY <3>1, <3>2
  <2> QED
    BY Zenon, <1>4, <2>3, <2>4 DEF Dist!consensus_append_entries_handler
<1>5. ASSUME NEW n \in Node, Dist!consensus_become_leader(n) PROVE Forward(m)
  <2>1. UNCHANGED <<dist_current_term, log, dist_commit_index>>
    BY <1>5 DEF Dist!consensus_become_leader
  <2> QED
    BY <1>0, <1>k, <2>1
<1>6. ASSUME NEW n \in Node, Dist!consensus_append_entry(n) PROVE Forward(m)
  <2>1. /\ log' = [log EXCEPT ![n] = Append(log[n], dist_current_term[n])] /\ Len(log[n]) < MaxDistLog
        /\ UNCHANGED <<dist_state, dist_current_term, dist_commit_index>>
    BY <1>6 DEF Dist!consensus_append_entry
  <2>2. CASE m # n
    <3>1. log'[m] = log[m]
      BY <1>f, <2>1, <2>2
    <3>2. UNCHANGED <<dist_state, dist_current_term, dist_commit_index>>
      BY <2>1
    <3> QED
      BY <1>0, <3>1, <3>2 DEF Forward
  <2>3. CASE m = n
    <3>1. log'[m] = Append(log[m], dist_current_term[m])
      BY <1>f, <2>1, <2>3
    <3>2. /\ Append(log[m], dist_current_term[m]) \in Seq(Nat)
          /\ Len(Append(log[m], dist_current_term[m])) = Len(log[m]) + 1
          /\ \A i \in 1..Len(log[m]) : Append(log[m], dist_current_term[m])[i] = log[m][i]
      BY <1>0
    <3> QED
      BY <1>0, <2>1, <2>3, <3>1, <3>2, ConsensusAssumption DEF Forward
  <2> QED
    BY <2>2, <2>3
<1>7. CASE UNCHANGED <<dist_state, dist_current_term, log, dist_commit_index>>
  BY <1>0, <1>k, <1>7
<1>8. {n \in Node : dist_state[n] = "FOLLOWER"} \in SUBSET Node /\ \A n \in Node : {n} \in SUBSET Node
  OBVIOUS
<1> QED
  BY Zenon, <1>1, <1>3, <1>4, <1>5, <1>6, <1>7, <1>8
  DEF Dist!Next, distVars, Dist!node, Dist!consensus_handle_election_timeout, Dist!consensus_start_election,
      Dist!AskForVotes, Dist!OfferEntries

\* The rest of the types: roles, votes and the requests under way.
LEMMA DistRequests ==
  ASSUME Dist!TypeOK, [Dist!Next]_distVars
  PROVE  /\ dist_state' \in [Node -> {"FOLLOWER", "CANDIDATE", "LEADER"}]
         /\ dist_voted_for' \in [Node -> Node \cup {0}]
         /\ DOMAIN dist_current_term' = Node /\ dist_current_term' = [n \in Node |-> dist_current_term'[n]]
         /\ log' = [n \in Node |-> log'[n]] /\ dist_commit_index' = [n \in Node |-> dist_commit_index'[n]]
         /\ asked' \subseteq Dist!VoteRequest /\ offered' \subseteq Dist!AppendRequest
         /\ dist_granted' \subseteq Node \X Nat \X Node /\ unmatched' \in BOOLEAN
<1> DEFINE Kept ==
      /\ dist_state' \in [Node -> {"FOLLOWER", "CANDIDATE", "LEADER"}]
      /\ dist_voted_for' \in [Node -> Node \cup {0}]
      /\ DOMAIN dist_current_term' = Node /\ dist_current_term' = [n \in Node |-> dist_current_term'[n]]
      /\ log' = [n \in Node |-> log'[n]] /\ dist_commit_index' = [n \in Node |-> dist_commit_index'[n]]
<1> DEFINE Sent ==
      /\ asked' \subseteq Dist!VoteRequest /\ offered' \subseteq Dist!AppendRequest
      /\ dist_granted' \subseteq Node \X Nat \X Node /\ unmatched' \in BOOLEAN
<1>0. /\ dist_state \in [Node -> {"FOLLOWER", "CANDIDATE", "LEADER"}] /\ dist_voted_for \in [Node -> Node \cup {0}]
      /\ dist_current_term \in [Node -> Nat] /\ log \in [Node -> Seq(Nat)] /\ dist_commit_index \in [Node -> Nat]
  BY DEF Dist!TypeOK
<1>s. /\ asked \subseteq Dist!VoteRequest /\ offered \subseteq Dist!AppendRequest
      /\ dist_granted \subseteq Node \X Nat \X Node /\ unmatched \in BOOLEAN
  BY DEF Dist!TypeOK
<1>1. ASSUME NEW N \in SUBSET Node, Dist!consensus_become_candidate(N) PROVE Kept /\ Sent
  <2>1. Kept
    BY <1>0, <1>1 DEF Dist!consensus_become_candidate
  <2>2. dist_granted' = dist_granted \cup {<<n, dist_current_term[n] + 1, n>> : n \in N}
        /\ UNCHANGED <<asked, offered, unmatched>>
    BY <1>1 DEF Dist!consensus_become_candidate
  <2>3. {<<n, dist_current_term[n] + 1, n>> : n \in N} \subseteq Node \X Nat \X Node
    BY <1>0
  <2> QED
    BY <1>s, <2>1, <2>2, <2>3
<1>2. ASSUME NEW n \in Node, NEW r \in asked, Dist!consensus_request_vote_handler(n, r) PROVE Kept /\ Sent
  <2>1. r.term \in Nat /\ r.from \in Node
    BY <1>s DEF Dist!VoteRequest
  <2>2. Kept
    BY Zenon, <1>0, <1>2, <2>1 DEF Dist!consensus_request_vote_handler, Dist!Follow
  <2>3. dist_granted' = dist_granted \/ dist_granted' = dist_granted \cup {<<n, r.term, r.from>>}
    BY <1>2 DEF Dist!consensus_request_vote_handler
  <2>4. UNCHANGED <<asked, offered, unmatched>>
    BY <1>2 DEF Dist!consensus_request_vote_handler
  <2>5. <<n, r.term, r.from>> \in Node \X Nat \X Node
    BY <2>1
  <2> QED
    BY <1>s, <2>2, <2>3, <2>4, <2>5
<1>3. ASSUME NEW n \in Node, NEW r \in offered, Dist!consensus_append_entries_handler(n, r) PROVE Kept /\ Sent
  <2>1. r.term \in Nat
    BY <1>s DEF Dist!AppendRequest
  <2>2. Kept
    BY Zenon, <1>0, <1>3, <2>1 DEF Dist!consensus_append_entries_handler, Dist!Follow
  <2>3. UNCHANGED <<asked, offered, dist_granted>>
    BY <1>3 DEF Dist!consensus_append_entries_handler
  <2>4. unmatched' \in BOOLEAN
    BY Zenon, <1>s, <1>3 DEF Dist!consensus_append_entries_handler
  <2> QED
    BY <1>s, <2>2, <2>3, <2>4
<1>4. ASSUME NEW n \in Node, Dist!consensus_become_leader(n) PROVE Kept /\ Sent
  <2>1. dist_state' = [dist_state EXCEPT ![n] = "LEADER"]
        /\ UNCHANGED <<dist_voted_for, dist_current_term, log, dist_commit_index, asked, offered, dist_granted, unmatched>>
    BY <1>4 DEF Dist!consensus_become_leader
  <2> QED
    BY <1>0, <1>s, <2>1
<1>5. ASSUME NEW n \in Node, Dist!consensus_append_entry(n) PROVE Kept /\ Sent
  BY Zenon, <1>0, <1>s, <1>5 DEF Dist!consensus_append_entry
<1>6. ASSUME UNCHANGED <<dist_state, dist_voted_for, dist_current_term, log, dist_commit_index>> PROVE Kept
  BY <1>0, <1>6
<1>7. ASSUME NEW n \in Node, Dist!AskForVotes(n) PROVE Kept /\ Sent
  <2>1. [from |-> n, term |-> dist_current_term[n], last_log_index |-> Len(log[n])] \in Dist!VoteRequest
    BY <1>0 DEF Dist!VoteRequest
  <2> QED
    BY <1>6, <1>7, <1>s, <2>1 DEF Dist!AskForVotes, Dist!node
<1>8. ASSUME NEW n \in Node, NEW prev \in 0..MaxDistLog, NEW commit \in 0..MaxDistLog,
             Dist!OfferEntries(n, prev, commit)
      PROVE  Kept /\ Sent
  <2> DEFINE r == [term |-> dist_current_term[n], prev_log_index |-> prev,
                   prev_log_term |-> IF prev = 0 THEN 0 ELSE log[n][prev],
                   entries |-> IF prev < Len(log[n]) THEN <<log[n][prev + 1]>> ELSE << >>,
                   leader_commit |-> commit]
  <2>1. prev \in Nat /\ commit \in Nat /\ prev <= Len(log[n])
    BY <1>8, ConsensusAssumption DEF Dist!OfferEntries
  <2>2. log[n] \in Seq(Nat) /\ Len(log[n]) \in Nat /\ dist_current_term[n] \in Nat
    BY <1>0
  <2>3. r.prev_log_term \in Nat /\ r.entries \in Seq(Nat)
    BY <2>1, <2>2
  <2>4. r \in Dist!AppendRequest
    BY <2>1, <2>2, <2>3 DEF Dist!AppendRequest
  <2>5. offered' = offered \cup {r} /\ UNCHANGED <<asked, dist_granted, unmatched>>
    BY <1>8 DEF Dist!OfferEntries
  <2>6. Kept
    BY <1>6, <1>8 DEF Dist!OfferEntries, Dist!node
  <2> HIDE DEF r
  <2> QED
    BY <1>s, <2>4, <2>5, <2>6
<1>9. CASE UNCHANGED distVars
  BY <1>6, <1>9, <1>s DEF distVars
<1>10. {n \in Node : dist_state[n] = "FOLLOWER"} \in SUBSET Node /\ \A n \in Node : {n} \in SUBSET Node
  OBVIOUS
<1> HIDE DEF Kept, Sent
<1>11. ASSUME Dist!Next PROVE Kept /\ Sent
  BY Zenon, <1>1, <1>2, <1>3, <1>4, <1>5, <1>7, <1>8, <1>10, <1>11
  DEF Dist!Next, Dist!consensus_handle_election_timeout, Dist!consensus_start_election
<1> QED
  BY Zenon, <1>9, <1>11 DEF Kept, Sent

LEMMA DistStep == DistInv /\ [Dist!Next]_distVars => DistInv'
<1> SUFFICES ASSUME DistInv, [Dist!Next]_distVars PROVE DistInv'
  OBVIOUS
<1>1. \A n \in Node : /\ dist_current_term'[n] \in Nat /\ log'[n] \in Seq(Nat) /\ Len(log'[n]) <= MaxDistLog
                      /\ dist_commit_index'[n] \in Nat /\ dist_commit_index'[n] <= Len(log'[n])
  BY DistForward DEF Forward
<1>2. /\ dist_current_term' = [n \in Node |-> dist_current_term'[n]]
      /\ log' = [n \in Node |-> log'[n]] /\ dist_commit_index' = [n \in Node |-> dist_commit_index'[n]]
  BY DistRequests DEF DistInv
<1>3. /\ dist_current_term' \in [Node -> Nat] /\ log' \in [Node -> Seq(Nat)] /\ dist_commit_index' \in [Node -> Nat]
  BY <1>1, <1>2
<1>4. Dist!TypeOK'
  BY Zenon, <1>1, <1>3, DistRequests DEF DistInv, Dist!TypeOK, Dist!VoteRequest, Dist!AppendRequest
<1> QED
  BY <1>1, <1>4 DEF DistInv, Dist!CommitWithinLog

LEMMA DistInit == Dist!Init => DistInv
<1> SUFFICES ASSUME Dist!Init PROVE DistInv
  OBVIOUS
<1>1. /\ << >> \in Seq(Nat) /\ Len(<< >>) = 0 /\ 0 <= MaxDistLog
  BY ConsensusAssumption
<1>2. /\ log \in [Node -> Seq(Nat)] /\ \A n \in Node : Len(log[n]) <= MaxDistLog
  BY <1>1 DEF Dist!Init
<1>3. Dist!TypeOK
  BY Zenon, <1>2 DEF Dist!Init, Dist!TypeOK
<1> QED
  BY <1>1, <1>3 DEF DistInv, Dist!Init, Dist!CommitWithinLog

\* The steps of the two action properties follow from Forward.
LEMMA DistNeverRetreats ==
  ASSUME DistInv, [Dist!Next]_distVars, NEW n \in Node
  PROVE  /\ dist_current_term'[n] >= dist_current_term[n]
         /\ dist_state'[n] = "LEADER" => dist_current_term'[n] = dist_current_term[n]
         /\ dist_commit_index'[n] >= dist_commit_index[n]
         /\ SubSeq(log'[n], 1, dist_commit_index[n]) = SubSeq(log[n], 1, dist_commit_index[n])
<1>1. Forward(n)
  BY DistForward
<1>2. /\ log[n] \in Seq(Nat) /\ dist_commit_index[n] \in Nat /\ dist_commit_index[n] <= Len(log[n])
      /\ Len(log[n]) \in Nat
  BY DEF DistInv, Dist!TypeOK, Dist!CommitWithinLog
<1>3. /\ log'[n] \in Seq(Nat) /\ Len(log'[n]) \in Nat /\ Len(log'[n]) >= Len(log[n])
      /\ \A i \in 1..Len(log[n]) : log'[n][i] = log[n][i]
  BY <1>1 DEF Forward
<1>4. /\ dist_commit_index[n] <= Len(log'[n])
      /\ \A i \in 1..dist_commit_index[n] : i \in 1..Len(log[n])
  BY <1>2, <1>3
<1>5. SubSeq(log'[n], 1, dist_commit_index[n]) = SubSeq(log[n], 1, dist_commit_index[n])
  BY Zenon, <1>2, <1>3, <1>4, SamePrefix
<1> QED
  BY Zenon, <1>1, <1>5 DEF Forward

-----------------------------------------------------------------------------
(* Members, roles and the log of state changes *)

ClusterTyped ==
  /\ nodes \in Seq(Roles!ClusterNode) /\ Len(nodes) <= MaxNodes
  /\ next_id \in 1..(MaxId + 1) /\ leader_node_id \in 0..MaxId /\ roles_current_term \in 1..MaxTerm
  /\ events \in Seq(Roles!ClusterEvent) /\ Len(events) <= MaxEvents /\ by_hand \in BOOLEAN

\* An id is given to one node only, and no event speaks of an id not given yet.
Members ==
  /\ \A i, j \in 1..Len(nodes) : nodes[i].id = nodes[j].id => i = j
  /\ \A i \in 1..Len(nodes) : nodes[i].id < next_id
  /\ \A e \in 1..Len(events) : events[e].node < next_id

\* EventsExplain in two parts: one event of a node after another, and the last one.
Chained ==
  \A e, f \in 1..Len(events) :
    /\ e < f /\ events[f].node = events[e].node
    /\ \A g \in (e + 1)..(f - 1) : events[g].node # events[e].node
    => Roles!Unlogged(events[e].new, events[f].prev)

Ended ==
  Len(events) < MaxEvents =>
    \A e \in 1..Len(events), i \in 1..Len(nodes) :
      /\ nodes[i].id = events[e].node
      /\ \A g \in (e + 1)..Len(events) : events[g].node # events[e].node
      => Roles!Unlogged(events[e].new, nodes[i].state)

ClusterInv ==
  ClusterTyped /\ Members /\ Roles!LeaderIsLeading /\ Roles!TermsAgree /\ Chained /\ Ended

LEMMA EventsInTwoParts ==
  ASSUME ClusterTyped, Chained, Ended
  PROVE  Roles!EventsExplain
<1> SUFFICES ASSUME NEW e \in 1..Len(events)
             PROVE  LET later == {f \in (e + 1)..Len(events) : events[f].node = events[e].node} IN
                    /\ \A f \in later : (\A g \in later : f <= g) => Roles!Unlogged(events[e].new, events[f].prev)
                    /\ (later = {} /\ Len(events) < MaxEvents) =>
                         \A i \in Roles!Find(events[e].node) : Roles!Unlogged(events[e].new, nodes[i].state)
  BY DEF Roles!EventsExplain
<1> DEFINE later == {f \in (e + 1)..Len(events) : events[f].node = events[e].node}
<1>0. Len(events) \in Nat /\ e \in Nat
  BY DEF ClusterTyped
<1>1. ASSUME NEW f \in later, \A g \in later : f <= g
      PROVE  Roles!Unlogged(events[e].new, events[f].prev)
  <2>1. f \in 1..Len(events) /\ f \in Nat /\ e < f /\ events[f].node = events[e].node
    BY <1>0
  <2>2. ASSUME NEW g \in (e + 1)..(f - 1), events[g].node = events[e].node PROVE FALSE
    BY <1>0, <1>1, <2>1, <2>2
  <2> QED
    BY <2>1, <2>2 DEF Chained
<1>2. ASSUME later = {}, Len(events) < MaxEvents, NEW i \in Roles!Find(events[e].node)
      PROVE  Roles!Unlogged(events[e].new, nodes[i].state)
  <2>1. i \in 1..Len(nodes) /\ nodes[i].id = events[e].node
    BY DEF Roles!Find
  <2>2. \A g \in (e + 1)..Len(events) : events[g].node # events[e].node
    BY <1>2
  <2> QED
    BY <1>2, <2>1, <2>2 DEF Ended
<1> QED
  BY <1>1, <1>2

\* The table after one entry changed, after one was added, and after one was removed.
LEMMA EntryChanged ==
  ASSUME NEW S, NEW s \in Seq(S), NEW i \in 1..Len(s), NEW r \in S
  PROVE  LET u == [s EXCEPT ![i] = r] IN
         u \in Seq(S) /\ Len(u) = Len(s) /\ u[i] = r /\ \A j \in 1..Len(s) : j # i => u[j] = s[j]
OBVIOUS

LEMMA EntryAdded ==
  ASSUME NEW S, NEW s \in Seq(S), NEW r \in S
  PROVE  LET u == Append(s, r) IN
         u \in Seq(S) /\ Len(u) = Len(s) + 1 /\ u[Len(s) + 1] = r /\ \A j \in 1..Len(s) : u[j] = s[j]
OBVIOUS

LEMMA EntryRemoved ==
  ASSUME NEW S, NEW s \in Seq(S), NEW i \in 1..Len(s)
  PROVE  LET u == Roles!MovedUp(s, i) IN
         /\ u \in Seq(S) /\ Len(u) = Len(s) - 1
         /\ \A j \in 1..Len(u) : u[j] = s[IF j < i THEN j ELSE j + 1]
<1>1. Len(s) \in Nat /\ Len(s) - 1 \in Nat /\ \A j \in 1..Len(s) : s[j] \in S
  OBVIOUS
<1>2. \A j \in 1..(Len(s) - 1) : (IF j < i THEN s[j] ELSE s[j + 1]) \in S
  BY <1>1
<1> QED
  BY <1>1, <1>2 DEF Roles!MovedUp

\* Events that stay the same are chained as before.
LEMMA SameEvents ==
  ASSUME Chained, UNCHANGED events
  PROVE  Chained'
<1>1. ASSUME NEW e \in 1..Len(events'), NEW f \in 1..Len(events'), e < f, events'[f].node = events'[e].node,
             \A g \in (e + 1)..(f - 1) : events'[g].node # events'[e].node
      PROVE  Roles!Unlogged(events'[e].new, events'[f].prev)
  BY Zenon, <1>1 DEF Chained
<1> QED
  BY Zenon, <1>1 DEF Chained, Roles!Unlogged

\* A step that logs nothing keeps the ids, and heals at most, explains nothing anew.
LEMMA SameMembers ==
  ASSUME ClusterInv, UNCHANGED <<next_id, events>>, Len(nodes') = Len(nodes),
         \A j \in 1..Len(nodes) :
           /\ nodes'[j].id = nodes[j].id
           /\ \/ nodes'[j].state = nodes[j].state
              \/ nodes[j].state = "UNREACHABLE" /\ nodes'[j].state = "HEALTHY"
  PROVE  Members' /\ Chained' /\ Ended'
<1>1. Members'
  BY DEF ClusterInv, Members
<1>2. Chained'
  BY SameEvents DEF ClusterInv
<1>3. Ended'
  BY DEF ClusterInv, Ended, Roles!Unlogged
<1> QED
  BY <1>1, <1>2, <1>3

\* Types of the table's fields, and of the node that changes.
LEMMA ClusterFacts ==
  ASSUME ClusterInv
  PROVE  /\ nodes \in Seq(Roles!ClusterNode) /\ Len(nodes) \in Nat /\ Len(nodes) <= MaxNodes
         /\ next_id \in Nat /\ next_id >= 1 /\ next_id <= MaxId + 1
         /\ leader_node_id \in 0..MaxId /\ roles_current_term \in 1..MaxTerm
         /\ \A i \in 1..Len(nodes) :
              /\ nodes[i] \in Roles!ClusterNode /\ nodes[i].id \in 1..MaxId /\ nodes[i].state \in Roles!State
              /\ nodes[i].role \in Roles!Role /\ nodes[i].term = roles_current_term
         /\ MaxId \in Nat /\ MaxTerm \in Nat
<1>1. ClusterTyped /\ Roles!TermsAgree
  BY DEF ClusterInv
<1>2. \A i \in 1..Len(nodes) : nodes[i] \in Roles!ClusterNode /\ nodes[i].term = roles_current_term
  BY <1>1 DEF ClusterTyped, Roles!TermsAgree
<1>3. MaxId \in Nat /\ MaxTerm \in Nat
  BY ConsensusAssumption, EngineAssumption
<1> QED
  BY <1>1, <1>2, <1>3 DEF ClusterTyped, Roles!ClusterNode

LEMMA EventFacts ==
  ASSUME ClusterInv
  PROVE  /\ events \in Seq(Roles!ClusterEvent) /\ Len(events) \in Nat /\ Len(events) <= MaxEvents
         /\ \A e \in 1..Len(events) : events[e].node \in Nat /\ events[e].node < next_id
<1>1. events \in Seq(Roles!ClusterEvent) /\ Len(events) <= MaxEvents
  BY DEF ClusterInv, ClusterTyped
<1>2. \A e \in 1..Len(events) : events[e].node \in Nat
  <2>1. \A e \in 1..Len(events) : events[e] \in Roles!ClusterEvent
    BY <1>1
  <2>2. \A x \in Roles!ClusterEvent : x.node \in Nat
    BY ConsensusAssumption DEF Roles!ClusterEvent
  <2> QED
    BY <2>1, <2>2
<1>3. \A e \in 1..Len(events) : events[e].node < next_id
  BY DEF ClusterInv, Members
<1> QED
  BY <1>1, <1>2, <1>3

LEMMA FieldChanged ==
  ASSUME NEW r \in Roles!ClusterNode
  PROVE  /\ \A x \in Roles!State :
              LET u == [r EXCEPT !.state = x] IN
              u \in Roles!ClusterNode /\ u.id = r.id /\ u.state = x /\ u.role = r.role /\ u.term = r.term
         /\ \A x \in Roles!Role :
              LET u == [r EXCEPT !.role = x] IN
              u \in Roles!ClusterNode /\ u.id = r.id /\ u.state = r.state /\ u.role = x /\ u.term = r.term
BY DEF Roles!ClusterNode

\* A step that keeps the ids and the term keeps the terms agreed upon.
LEMMA SameTerms ==
  ASSUME ClusterInv, UNCHANGED roles_current_term, Len(nodes') = Len(nodes),
         \A j \in 1..Len(nodes) : nodes'[j].term = nodes[j].term
  PROVE  Roles!TermsAgree'
BY DEF ClusterInv, Roles!TermsAgree

LEMMA AddNode == ClusterInv /\ Roles!cluster_add_node => ClusterInv'
<1> SUFFICES ASSUME ClusterInv, Roles!cluster_add_node PROVE ClusterInv'
  OBVIOUS
<1> DEFINE r == [id |-> next_id, state |-> "INITIALIZING", role |-> "FOLLOWER", term |-> roles_current_term]
<1>1. /\ nodes' = Append(nodes, r) /\ Len(nodes) < MaxNodes /\ next_id <= MaxId /\ next_id' = next_id + 1
      /\ UNCHANGED <<leader_node_id, roles_current_term, events, by_hand>>
  BY DEF Roles!cluster_add_node
<1>2. r \in Roles!ClusterNode /\ r.id = next_id /\ r.term = roles_current_term
  BY <1>1, ClusterFacts DEF Roles!ClusterNode, Roles!State, Roles!Role
<1> HIDE DEF r
<1>3. /\ nodes' \in Seq(Roles!ClusterNode) /\ Len(nodes') = Len(nodes) + 1 /\ nodes'[Len(nodes) + 1] = r
      /\ \A j \in 1..Len(nodes) : nodes'[j] = nodes[j]
  BY <1>1, <1>2, ClusterFacts, EntryAdded
<1>4. 1..Len(nodes') = 1..Len(nodes) \cup {Len(nodes) + 1} /\ Len(nodes) + 1 \notin 1..Len(nodes)
  BY <1>3, ClusterFacts
<1>5. ClusterTyped'
  BY <1>1, <1>3, ClusterFacts, ConsensusAssumption DEF ClusterInv, ClusterTyped, Roles!ClusterEvent, Roles!State
<1>6. Members'
  <2>1. \A j \in 1..Len(nodes) : nodes[j].id # next_id /\ nodes[j].id < next_id /\ nodes[j].id \in Nat
    BY ClusterFacts DEF ClusterInv, Members
  <2>2. \A e \in 1..Len(events) : events[e].node < next_id /\ events[e].node \in Nat
    BY EventFacts
  <2>3. \A i, j \in 1..Len(nodes') : nodes'[i].id = nodes'[j].id => i = j
    BY <1>2, <1>3, <1>4, <2>1 DEF ClusterInv, Members
  <2>4. \A i \in 1..Len(nodes') : nodes'[i].id < next_id'
    BY <1>1, <1>2, <1>3, <1>4, <2>1, ClusterFacts
  <2>5. \A e \in 1..Len(events') : events'[e].node < next_id'
    BY <1>1, <2>2, ClusterFacts
  <2> QED
    BY <2>3, <2>4, <2>5 DEF Members
<1>7. Roles!LeaderIsLeading'
  BY <1>1, <1>3, <1>4 DEF ClusterInv, Roles!LeaderIsLeading, Roles!Find
<1>8. Roles!TermsAgree'
  BY <1>1, <1>2, <1>3, <1>4 DEF ClusterInv, Roles!TermsAgree
<1>9. Chained'
  BY <1>1, SameEvents DEF ClusterInv
<1>10. Ended'
  <2>1. \A e \in 1..Len(events) : events[e].node # next_id
    BY ClusterFacts, EventFacts
  <2> QED
    BY <1>1, <1>2, <1>3, <1>4, <2>1 DEF ClusterInv, Ended, Roles!Unlogged
<1> QED
  BY <1>5, <1>6, <1>7, <1>8, <1>9, <1>10 DEF ClusterInv

LEMMA RemoveNode ==
  ASSUME ClusterInv, NEW id \in 1..MaxId, Roles!cluster_remove_node(id)
  PROVE  ClusterInv'
<1>1. PICK i \in 1..Len(nodes) :
        /\ nodes[i].id = id /\ nodes' = Roles!MovedUp(nodes, i)
        /\ leader_node_id' = IF leader_node_id = id THEN 0 ELSE leader_node_id
        /\ UNCHANGED <<next_id, roles_current_term, events, by_hand>>
  BY DEF Roles!cluster_remove_node, Roles!Find
<1>2. /\ nodes' \in Seq(Roles!ClusterNode) /\ Len(nodes') = Len(nodes) - 1
      /\ \A j \in 1..Len(nodes') : nodes'[j] = nodes[IF j < i THEN j ELSE j + 1]
  BY <1>1, ClusterFacts, EntryRemoved
<1>3. \A j \in 1..Len(nodes') : (IF j < i THEN j ELSE j + 1) \in 1..Len(nodes)
  BY <1>2, ClusterFacts
<1>4. \A j, k \in 1..Len(nodes') :
        (IF j < i THEN j ELSE j + 1) = (IF k < i THEN k ELSE k + 1) => j = k
  BY <1>2, ClusterFacts
<1>5. ClusterTyped'
  BY <1>1, <1>2, ClusterFacts, ConsensusAssumption DEF ClusterInv, ClusterTyped, Roles!ClusterEvent, Roles!State
<1>6. Members'
  <2>1. ASSUME NEW j \in 1..Len(nodes'), NEW k \in 1..Len(nodes'), nodes'[j].id = nodes'[k].id PROVE j = k
    <3> DEFINE a == IF j < i THEN j ELSE j + 1
    <3> DEFINE b == IF k < i THEN k ELSE k + 1
    <3>1. a \in 1..Len(nodes) /\ b \in 1..Len(nodes) /\ nodes'[j] = nodes[a] /\ nodes'[k] = nodes[b] /\ (a = b => j = k)
      BY <1>2, <1>3, <1>4
    <3> HIDE DEF a, b
    <3> QED
      BY <2>1, <3>1 DEF ClusterInv, Members
  <2>2. \A j \in 1..Len(nodes') : nodes'[j].id < next_id'
    BY <1>1, <1>2, <1>3 DEF ClusterInv, Members
  <2>3. \A e \in 1..Len(events') : events'[e].node < next_id'
    BY <1>1 DEF ClusterInv, Members
  <2> QED
    BY <2>1, <2>2, <2>3 DEF Members
<1>7. Roles!LeaderIsLeading'
  <2> SUFFICES ASSUME leader_node_id' # 0
               PROVE  \E j \in 1..Len(nodes') : nodes'[j].id = leader_node_id' /\ (by_hand' \/ nodes'[j].role = "LEADER")
    BY DEF Roles!LeaderIsLeading, Roles!Find
  <2>1. leader_node_id # 0 /\ leader_node_id # id /\ leader_node_id' = leader_node_id
    BY <1>1
  <2>2. PICK k \in 1..Len(nodes) : nodes[k].id = leader_node_id /\ (by_hand \/ nodes[k].role = "LEADER")
    BY <2>1 DEF ClusterInv, Roles!LeaderIsLeading, Roles!Find
  <2> DEFINE j == IF k < i THEN k ELSE k - 1
  <2>3. k # i
    BY <1>1, <2>1, <2>2
  <2>4. j \in 1..Len(nodes') /\ (IF j < i THEN j ELSE j + 1) = k
    BY <1>2, <2>3, ClusterFacts
  <2> HIDE DEF j
  <2>5. nodes'[j] = nodes[k]
    BY <1>2, <2>4
  <2> QED
    BY <1>1, <2>1, <2>2, <2>4, <2>5
<1>8. Roles!TermsAgree'
  BY <1>1, <1>2, <1>3 DEF ClusterInv, Roles!TermsAgree
<1>9. Chained'
  BY <1>1, SameEvents DEF ClusterInv
<1>10. Ended'
  BY <1>1, <1>2, <1>3 DEF ClusterInv, Ended, Roles!Unlogged
<1> QED
  BY <1>5, <1>6, <1>7, <1>8, <1>9, <1>10 DEF ClusterInv

LEMMA UpdateState ==
  ASSUME ClusterInv, NEW id \in 1..MaxId, NEW st \in Roles!State, Roles!cluster_update_node_state(id, st)
  PROVE  ClusterInv'
<1>1. PICK i \in 1..Len(nodes) :
        /\ nodes[i].id = id /\ nodes' = [nodes EXCEPT ![i] = [nodes[i] EXCEPT !.state = st]]
        /\ events' = IF Len(events) >= MaxEvents THEN events
                     ELSE Append(events, [node |-> id, prev |-> nodes[i].state, new |-> st])
        /\ UNCHANGED <<next_id, leader_node_id, roles_current_term, by_hand>>
  BY Zenon DEF Roles!cluster_update_node_state, Roles!Find
<1> DEFINE r == [nodes[i] EXCEPT !.state = st]
<1>2. r \in Roles!ClusterNode /\ r.id = id /\ r.state = st /\ r.role = nodes[i].role /\ r.term = nodes[i].term
  BY <1>1, ClusterFacts, FieldChanged
<1>3. nodes' = [nodes EXCEPT ![i] = r]
  BY <1>1
<1> HIDE DEF r
<1>4. /\ nodes' \in Seq(Roles!ClusterNode) /\ Len(nodes') = Len(nodes) /\ nodes'[i] = r
      /\ \A j \in 1..Len(nodes) : j # i => nodes'[j] = nodes[j]
  BY <1>2, <1>3, ClusterFacts, EntryChanged
<1>5. \A j \in 1..Len(nodes) :
        /\ nodes'[j].id = nodes[j].id /\ nodes'[j].role = nodes[j].role /\ nodes'[j].term = nodes[j].term
        /\ nodes'[j].state = IF j = i THEN st ELSE nodes[j].state
  BY <1>1, <1>2, <1>4
<1> DEFINE v == [node |-> id, prev |-> nodes[i].state, new |-> st]
<1>6. v \in Roles!ClusterEvent /\ v.node = id /\ v.prev = nodes[i].state /\ v.new = st
  BY ClusterFacts DEF Roles!ClusterEvent
<1> HIDE DEF v
<1>7. \/ Len(events) >= MaxEvents /\ events' = events
      \/ Len(events) < MaxEvents /\ events' = Append(events, v)
  BY <1>1, EventFacts, ConsensusAssumption DEF v
<1>8. ASSUME Len(events) < MaxEvents, events' = Append(events, v)
      PROVE  /\ events' \in Seq(Roles!ClusterEvent) /\ Len(events') = Len(events) + 1 /\ events'[Len(events) + 1] = v
             /\ \A e \in 1..Len(events) : events'[e] = events[e]
             /\ 1..Len(events') = 1..Len(events) \cup {Len(events) + 1}
  <2>1. /\ events' \in Seq(Roles!ClusterEvent) /\ Len(events') = Len(events) + 1 /\ events'[Len(events) + 1] = v
        /\ \A e \in 1..Len(events) : events'[e] = events[e]
    BY <1>6, <1>8, EventFacts, EntryAdded
  <2> QED
    BY <2>1, EventFacts
<1>9. events' \in Seq(Roles!ClusterEvent) /\ Len(events') <= MaxEvents /\ Len(events') \in Nat
  BY <1>7, <1>8, EventFacts, ConsensusAssumption
<1>10. ClusterTyped'
  BY <1>1, <1>4, <1>9, ClusterFacts DEF ClusterInv, ClusterTyped, Roles!ClusterNode, Roles!ClusterEvent, Roles!State, Roles!Role
<1>11. id < next_id /\ \A j \in 1..Len(nodes) : nodes[j].id = id => j = i
  BY <1>1 DEF ClusterInv, Members
<1>12. Members'
  <2>1. \A e \in 1..Len(events') : events'[e].node < next_id'
    BY <1>1, <1>6, <1>7, <1>8, <1>11, EventFacts
  <2> QED
    BY <1>1, <1>4, <1>5, <2>1 DEF ClusterInv, Members
<1>13. Roles!LeaderIsLeading'
  BY <1>1, <1>4, <1>5 DEF ClusterInv, Roles!LeaderIsLeading, Roles!Find
<1>14. Roles!TermsAgree'
  BY <1>1, <1>4, <1>5, SameTerms
<1>15. Chained' /\ Ended'
  <2>1. CASE Len(events) >= MaxEvents /\ events' = events
    <3>1. ~(Len(events') < MaxEvents)
      BY <2>1, EventFacts, ConsensusAssumption
    <3> QED
      BY <2>1, <3>1 DEF ClusterInv, Chained, Ended, Roles!Unlogged
  <2>2. CASE Len(events) < MaxEvents /\ events' = Append(events, v)
    <3> DEFINE n == Len(events) + 1
    <3>1. /\ Len(events') = n /\ events'[n] = v /\ \A e \in 1..Len(events) : events'[e] = events[e]
          /\ Len(events) \in Nat /\ n \in Nat
      BY <1>8, <2>2, EventFacts
    <3>2. ASSUME NEW e \in 1..n, NEW f \in 1..n, e < f, events'[f].node = events'[e].node,
                 \A g \in (e + 1)..(f - 1) : events'[g].node # events'[e].node
          PROVE  Roles!Unlogged(events'[e].new, events'[f].prev)
      <4>0. e \in 1..Len(events) /\ events'[e] = events[e]
        BY <3>1, <3>2
      <4>1. \A g \in (e + 1)..(f - 1) : g \in 1..Len(events) /\ events[g].node # events[e].node
        BY <3>1, <3>2, <4>0
      <4>2. CASE f \in 1..Len(events)
        BY <3>1, <3>2, <4>0, <4>1, <4>2 DEF ClusterInv, Chained
      <4>3. CASE f = n
        <5>1. events[e].node = nodes[i].id /\ events'[f].prev = nodes[i].state
          BY <1>1, <1>6, <3>1, <3>2, <4>0, <4>3
        <5>2. \A g \in (e + 1)..Len(events) : events[g].node # events[e].node
          BY <3>1, <4>1, <4>3
        <5> QED
          BY <2>2, <4>0, <5>1, <5>2 DEF ClusterInv, Ended
      <4> QED
        BY <3>1, <4>2, <4>3
    <3>3. ASSUME NEW e \in 1..n, NEW j \in 1..Len(nodes'), nodes'[j].id = events'[e].node,
                 \A g \in (e + 1)..n : events'[g].node # events'[e].node
          PROVE  Roles!Unlogged(events'[e].new, nodes'[j].state)
      <4>1. CASE e = n
        <5>1. j = i /\ events'[e].new = st
          BY <1>4, <1>5, <1>6, <1>11, <3>1, <3>3, <4>1
        <5> QED
          BY <1>4, <1>5, <5>1 DEF Roles!Unlogged
      <4>2. CASE e \in 1..Len(events)
        <5>1. events'[e] = events[e] /\ events[e].node # id /\ n \in (e + 1)..n
          BY <1>6, <3>1, <3>3, <4>2
        <5>2. \A g \in (e + 1)..Len(events) : g \in (e + 1)..n /\ g \in 1..Len(events)
          BY <3>1, <4>2
        <5>3. \A g \in (e + 1)..Len(events) : events[g].node # events[e].node
          BY <3>1, <3>3, <5>1, <5>2
        <5>4. j \in 1..Len(nodes) /\ nodes[j].id = events[e].node /\ nodes'[j].state = nodes[j].state
          BY <1>1, <1>4, <1>5, <3>3, <5>1
        <5> QED
          BY <2>2, <4>2, <5>1, <5>3, <5>4 DEF ClusterInv, Ended
      <4> QED
        BY <3>1, <4>1, <4>2
    <3> HIDE DEF n
    <3>4. Chained'
      BY <3>1, <3>2 DEF Chained, Roles!Unlogged
    <3>5. Ended'
      BY <3>1, <3>3 DEF Ended, Roles!Unlogged
    <3> QED
      BY <3>4, <3>5
  <2> QED
    BY <1>7, <2>1, <2>2
<1> QED
  BY <1>10, <1>12, <1>13, <1>14, <1>15 DEF ClusterInv

\* What the steps that log nothing and keep the ids have in common.
LEMMA Relabelled ==
  ASSUME ClusterInv, nodes' \in Seq(Roles!ClusterNode), Len(nodes') = Len(nodes),
         UNCHANGED <<next_id, roles_current_term, events>>,
         leader_node_id' \in 0..MaxId, by_hand' \in BOOLEAN, Roles!LeaderIsLeading',
         \A j \in 1..Len(nodes) :
           /\ nodes'[j].id = nodes[j].id /\ nodes'[j].term = nodes[j].term
           /\ \/ nodes'[j].state = nodes[j].state
              \/ nodes[j].state = "UNREACHABLE" /\ nodes'[j].state = "HEALTHY"
  PROVE  ClusterInv'
<1>1. Members' /\ Chained' /\ Ended'
  BY SameMembers
<1>2. Roles!TermsAgree'
  BY SameTerms
<1>3. ClusterTyped'
  BY ClusterFacts DEF ClusterInv, ClusterTyped, Roles!ClusterNode, Roles!ClusterEvent, Roles!State, Roles!Role
<1> QED
  BY <1>1, <1>2, <1>3 DEF ClusterInv

LEMMA RoleChanged ==
  ASSUME ClusterInv, NEW i \in 1..Len(nodes), NEW role \in Roles!Role,
         nodes' = [nodes EXCEPT ![i].role = role]
  PROVE  /\ nodes' \in Seq(Roles!ClusterNode) /\ Len(nodes') = Len(nodes)
         /\ \A j \in 1..Len(nodes) :
              /\ nodes'[j].id = nodes[j].id /\ nodes'[j].term = nodes[j].term /\ nodes'[j].state = nodes[j].state
              /\ nodes'[j].role = IF j = i THEN role ELSE nodes[j].role
<1> DEFINE r == [nodes[i] EXCEPT !.role = role]
<1>1. r \in Roles!ClusterNode /\ r.id = nodes[i].id /\ r.state = nodes[i].state /\ r.role = role /\ r.term = nodes[i].term
  BY ClusterFacts, FieldChanged
<1>2. nodes' = [nodes EXCEPT ![i] = r]
  OBVIOUS
<1> HIDE DEF r
<1>3. /\ nodes' \in Seq(Roles!ClusterNode) /\ Len(nodes') = Len(nodes) /\ nodes'[i] = r
      /\ \A j \in 1..Len(nodes) : j # i => nodes'[j] = nodes[j]
  BY <1>1, <1>2, ClusterFacts, EntryChanged
<1> QED
  BY <1>1, <1>3

LEMMA UpdateRole ==
  ASSUME ClusterInv, NEW id \in 1..MaxId, NEW role \in Roles!Role, Roles!cluster_update_node_role(id, role)
  PROVE  ClusterInv'
<1>1. PICK i \in 1..Len(nodes) :
        /\ nodes' = [nodes EXCEPT ![i].role = role] /\ by_hand' = TRUE
        /\ UNCHANGED <<next_id, leader_node_id, roles_current_term, events>>
  BY Zenon DEF Roles!cluster_update_node_role, Roles!Find
<1>2. /\ nodes' \in Seq(Roles!ClusterNode) /\ Len(nodes') = Len(nodes)
      /\ \A j \in 1..Len(nodes) :
           nodes'[j].id = nodes[j].id /\ nodes'[j].term = nodes[j].term /\ nodes'[j].state = nodes[j].state
  BY Zenon, <1>1, RoleChanged
<1>3. Roles!LeaderIsLeading'
  BY <1>1, <1>2 DEF ClusterInv, Roles!LeaderIsLeading, Roles!Find
<1> QED
  BY <1>1, <1>2, <1>3, ClusterFacts, Relabelled

LEMMA Heartbeat ==
  ASSUME ClusterInv, NEW id \in 1..MaxId, Roles!cluster_node_heartbeat(id)
  PROVE  ClusterInv'
<1>1. PICK i \in 1..Len(nodes) :
        /\ nodes[i].state = "UNREACHABLE" /\ nodes' = [nodes EXCEPT ![i].state = "HEALTHY"]
        /\ UNCHANGED <<next_id, leader_node_id, roles_current_term, events, by_hand>>
  BY Zenon DEF Roles!cluster_node_heartbeat, Roles!Find
<1> DEFINE r == [nodes[i] EXCEPT !.state = "HEALTHY"]
<1>2. /\ r \in Roles!ClusterNode /\ r.id = nodes[i].id /\ r.state = "HEALTHY"
      /\ r.role = nodes[i].role /\ r.term = nodes[i].term
  BY Zenon, ClusterFacts, FieldChanged DEF Roles!State
<1>3. nodes' = [nodes EXCEPT ![i] = r]
  BY <1>1
<1> HIDE DEF r
<1>4. /\ nodes' \in Seq(Roles!ClusterNode) /\ Len(nodes') = Len(nodes) /\ nodes'[i] = r
      /\ \A j \in 1..Len(nodes) : j # i => nodes'[j] = nodes[j]
  BY <1>2, <1>3, ClusterFacts, EntryChanged
<1>5. \A j \in 1..Len(nodes) :
        /\ nodes'[j].id = nodes[j].id /\ nodes'[j].term = nodes[j].term /\ nodes'[j].role = nodes[j].role
        /\ \/ nodes'[j].state = nodes[j].state
           \/ nodes[j].state = "UNREACHABLE" /\ nodes'[j].state = "HEALTHY"
  BY <1>1, <1>2, <1>4
<1>6. Roles!LeaderIsLeading'
  BY <1>1, <1>4, <1>5 DEF ClusterInv, Roles!LeaderIsLeading, Roles!Find
<1>7. by_hand' \in BOOLEAN /\ leader_node_id' \in 0..MaxId
  BY <1>1 DEF ClusterInv, ClusterTyped
<1> QED
  BY <1>1, <1>4, <1>5, <1>6, <1>7, Relabelled

LEMMA ElectLeader == ClusterInv /\ Roles!cluster_elect_leader => ClusterInv'
<1> SUFFICES ASSUME ClusterInv, Roles!cluster_elect_leader PROVE ClusterInv'
  OBVIOUS
<1>1. PICK i \in 1..Len(nodes) :
        /\ nodes' = [nodes EXCEPT ![i].role = "LEADER"] /\ leader_node_id' = nodes[i].id
        /\ UNCHANGED <<next_id, roles_current_term, events, by_hand>>
  BY Zenon DEF Roles!cluster_elect_leader
<1>2. /\ nodes' \in Seq(Roles!ClusterNode) /\ Len(nodes') = Len(nodes)
      /\ \A j \in 1..Len(nodes) :
           nodes'[j].id = nodes[j].id /\ nodes'[j].term = nodes[j].term /\ nodes'[j].state = nodes[j].state
      /\ nodes'[i].role = "LEADER"
  <2>1. "LEADER" \in Roles!Role
    BY DEF Roles!Role
  <2>2. nodes' = [nodes EXCEPT ![i].role = "LEADER"]
    BY <1>1
  <2>3. /\ nodes' \in Seq(Roles!ClusterNode) /\ Len(nodes') = Len(nodes)
        /\ \A j \in 1..Len(nodes) :
             /\ nodes'[j].id = nodes[j].id /\ nodes'[j].term = nodes[j].term /\ nodes'[j].state = nodes[j].state
             /\ nodes'[j].role = IF j = i THEN "LEADER" ELSE nodes[j].role
    BY Zenon, <2>1, <2>2, RoleChanged
  <2> QED
    BY <2>3
<1>3. Roles!LeaderIsLeading'
  BY <1>1, <1>2 DEF Roles!LeaderIsLeading, Roles!Find
<1>4. by_hand' \in BOOLEAN /\ leader_node_id' \in 0..MaxId
  BY <1>1, ClusterFacts DEF ClusterInv, ClusterTyped
<1> QED
  BY <1>1, <1>2, <1>3, <1>4, Relabelled

LEMMA DemoteLeader == ClusterInv /\ Roles!cluster_demote_leader => ClusterInv'
<1> SUFFICES ASSUME ClusterInv, Roles!cluster_demote_leader PROVE ClusterInv'
  OBVIOUS
<1>1. PICK i \in 1..Len(nodes) :
        /\ nodes' = [nodes EXCEPT ![i].role = "FOLLOWER"] /\ leader_node_id' = 0
        /\ UNCHANGED <<next_id, roles_current_term, events, by_hand>>
  BY Zenon DEF Roles!cluster_demote_leader, Roles!Find
<1>2. /\ nodes' \in Seq(Roles!ClusterNode) /\ Len(nodes') = Len(nodes)
      /\ \A j \in 1..Len(nodes) :
           nodes'[j].id = nodes[j].id /\ nodes'[j].term = nodes[j].term /\ nodes'[j].state = nodes[j].state
  BY Zenon, <1>1, RoleChanged DEF Roles!Role
<1>3. Roles!LeaderIsLeading'
  BY <1>1 DEF Roles!LeaderIsLeading
<1>4. by_hand' \in BOOLEAN /\ leader_node_id' \in 0..MaxId
  BY <1>1, ClusterFacts DEF ClusterInv, ClusterTyped
<1> QED
  BY <1>1, <1>2, <1>3, <1>4, Relabelled

LEMMA PromoteNode ==
  ASSUME ClusterInv, NEW id \in 1..MaxId, Roles!cluster_promote_node_to_leader(id)
  PROVE  ClusterInv'
<1>1. PICK i \in 1..Len(nodes) :
        /\ nodes[i].id = id /\ nodes' = Roles!With(i) /\ leader_node_id' = id
        /\ UNCHANGED <<next_id, roles_current_term, events, by_hand>>
  BY DEF Roles!cluster_promote_node_to_leader, Roles!Find
<1> DEFINE role(j) == IF j = i THEN "LEADER" ELSE IF nodes[j].id = leader_node_id THEN "FOLLOWER" ELSE nodes[j].role
<1> DEFINE r(j) == [nodes[j] EXCEPT !.role = role(j)]
<1>2. \A j \in 1..Len(nodes) : role(j) \in Roles!Role
  BY ClusterFacts DEF Roles!Role
<1> HIDE DEF role
<1>3. \A j \in 1..Len(nodes) :
        /\ r(j) \in Roles!ClusterNode /\ r(j).id = nodes[j].id /\ r(j).state = nodes[j].state
        /\ r(j).role = role(j) /\ r(j).term = nodes[j].term
  BY <1>2, ClusterFacts, FieldChanged
<1>4. nodes' = [j \in 1..Len(nodes) |-> r(j)]
  BY <1>1 DEF Roles!With, role
<1> HIDE DEF r
<1>5. nodes' \in Seq(Roles!ClusterNode) /\ Len(nodes') = Len(nodes) /\ \A j \in 1..Len(nodes) : nodes'[j] = r(j)
  BY <1>3, <1>4, ClusterFacts
<1>6. nodes'[i].role = "LEADER" /\ nodes'[i].id = id
  BY <1>1, <1>3, <1>5 DEF role
<1>7. Roles!LeaderIsLeading'
  BY <1>1, <1>5, <1>6 DEF Roles!LeaderIsLeading, Roles!Find
<1>8. by_hand' \in BOOLEAN /\ leader_node_id' \in 0..MaxId
  BY <1>1, ClusterFacts DEF ClusterInv, ClusterTyped
<1> QED
  BY <1>1, <1>3, <1>5, <1>7, <1>8, Relabelled

LEMMA TriggerElection == ClusterInv /\ Roles!cluster_trigger_election => ClusterInv'
<1> SUFFICES ASSUME ClusterInv, Roles!cluster_trigger_election PROVE ClusterInv'
  OBVIOUS
<1> DEFINE role(j) == IF nodes[j].role = "LEADER" THEN nodes[j].role ELSE "CANDIDATE"
<1> DEFINE r(j) == [nodes[j] EXCEPT !.term = roles_current_term + 1, !.role = role(j)]
<1>1. /\ roles_current_term < MaxTerm /\ roles_current_term' = roles_current_term + 1
      /\ nodes' = [j \in 1..Len(nodes) |-> r(j)]
      /\ UNCHANGED <<next_id, leader_node_id, events, by_hand>>
  BY Zenon DEF Roles!cluster_trigger_election
<1>2. \A j \in 1..Len(nodes) : role(j) \in Roles!Role
  BY ClusterFacts DEF Roles!Role
<1>3. roles_current_term + 1 \in 1..MaxTerm
  <2>1. roles_current_term \in 1..MaxTerm /\ MaxTerm \in Nat /\ roles_current_term < MaxTerm
    BY Zenon, ClusterFacts DEF Roles!cluster_trigger_election
  <2> QED
    BY <2>1
<1> HIDE DEF role
<1>4. \A j \in 1..Len(nodes) :
        /\ r(j) \in Roles!ClusterNode /\ r(j).id = nodes[j].id /\ r(j).state = nodes[j].state
        /\ r(j).role = role(j) /\ r(j).term = roles_current_term + 1
  BY Zenon, <1>2, <1>3, ClusterFacts DEF Roles!ClusterNode
<1> HIDE DEF r
<1>5. nodes' \in Seq(Roles!ClusterNode) /\ Len(nodes') = Len(nodes) /\ \A j \in 1..Len(nodes) : nodes'[j] = r(j)
  BY <1>1, <1>4, ClusterFacts
<1>6. Members' /\ Chained' /\ Ended'
  BY <1>1, <1>4, <1>5, SameMembers
<1>7. Roles!TermsAgree'
  BY <1>1, <1>4, <1>5 DEF Roles!TermsAgree
<1>8. Roles!LeaderIsLeading'
  <2>1. \A j \in 1..Len(nodes) : nodes'[j].id = nodes[j].id /\ (nodes[j].role = "LEADER" => nodes'[j].role = "LEADER")
    BY <1>4, <1>5 DEF role
  <2> QED
    BY <1>1, <1>5, <2>1 DEF ClusterInv, Roles!LeaderIsLeading, Roles!Find
<1>9. ClusterTyped'
  BY <1>1, <1>3, <1>5, ClusterFacts DEF ClusterInv, ClusterTyped, Roles!ClusterNode, Roles!ClusterEvent, Roles!State, Roles!Role
<1> QED
  BY <1>6, <1>7, <1>8, <1>9 DEF ClusterInv

LEMMA RolesStep == ClusterInv /\ Roles!RolesNext => ClusterInv'
BY Zenon, AddNode, TriggerElection, ElectLeader, DemoteLeader, RemoveNode, Heartbeat, PromoteNode, UpdateState, UpdateRole
DEF Roles!RolesNext

-----------------------------------------------------------------------------
(* Replication sessions *)

\* UnreachedOutOfSync for one list of replicas.
Quiet(replicas) ==
  \A j \in 1..Len(replicas) :
    /\ replicas[j].replica_id = 0 \/ \E k \in 1..(j - 1) : replicas[k].replica_id = replicas[j].replica_id
    /\ ~replicas[j].whole
    => replicas[j].state = "OUT_OF_SYNC"

\* LogNotOverwritten for one session, and why: until the log is full the tail
\* stands behind the entries, and the next id is above all of them.
Ascending(x, next) ==
  /\ x.log_size < MaxReplicationLog => x.log_tail = x.log_size
  /\ \A e \in 0..(x.log_size - 1) : x.log[e] # 0 /\ x.log[e] < next
  /\ \A e, f \in 0..(x.log_size - 1) : e < f => x.log[e] < x.log[f]

SessionInv(x, next) ==
  x \in Roles!Session /\ Len(x.replicas) <= MaxReplicas /\ Quiet(x.replicas) /\ Ascending(x, next)

ReplicationInv ==
  /\ sessions \in Seq(Roles!Session) /\ Len(sessions) <= MaxSessions
  /\ \A s \in 1..Len(sessions) : SessionInv(sessions[s], next_log_entry_id)
  /\ next_session_id \in 1..(MaxSessionId + 1) /\ next_log_entry_id \in 1..(MaxEntryId + 1)

\* The invariant of the next state, from its tables.
LEMMA NextReplication ==
  ASSUME sessions' \in Seq(Roles!Session), Len(sessions') <= MaxSessions,
         \A s \in 1..Len(sessions') : SessionInv(sessions'[s], next_log_entry_id'),
         next_session_id' \in 1..(MaxSessionId + 1), next_log_entry_id' \in 1..(MaxEntryId + 1)
  PROVE  ReplicationInv'
BY Zenon
DEF ReplicationInv, SessionInv, Quiet, Ascending, Roles!Session, Roles!ReplicaInfo, Roles!ReplicaState

LEMMA ReplicationProperties ==
  ASSUME ReplicationInv
  PROVE  /\ Roles!UnreachedOutOfSync /\ Roles!LogNotOverwritten
         /\ sessions \in Seq(Roles!Session) /\ Len(sessions) <= MaxSessions
         /\ \A s \in DOMAIN sessions : Len(sessions[s].replicas) <= MaxReplicas
<1>1. sessions \in Seq(Roles!Session) /\ DOMAIN sessions = 1..Len(sessions)
  BY DEF ReplicationInv
<1>2. ASSUME NEW s \in 1..Len(sessions)
      PROVE  /\ sessions[s].replicas \in Seq(Roles!ReplicaInfo)
             /\ DOMAIN sessions[s].replicas = 1..Len(sessions[s].replicas)
  <2>1. sessions[s] \in Roles!Session
    BY <1>1
  <2>2. sessions[s].replicas \in Seq(Roles!ReplicaInfo)
    BY <2>1 DEF Roles!Session
  <2> QED
    BY <2>2
<1>3. Roles!UnreachedOutOfSync
  BY <1>1, <1>2 DEF ReplicationInv, SessionInv, Quiet, Roles!UnreachedOutOfSync
<1>4. Roles!LogNotOverwritten
  BY <1>1 DEF ReplicationInv, SessionInv, Ascending, Roles!LogNotOverwritten
<1> QED
  BY <1>1, <1>3, <1>4 DEF ReplicationInv, SessionInv

\* A session whose list of replicas is replaced.
LEMMA ReplicasChanged ==
  ASSUME ReplicationInv, NEW s \in 1..Len(sessions), NEW replicas \in Seq(Roles!ReplicaInfo),
         Len(replicas) <= MaxReplicas, Quiet(replicas),
         sessions' = [sessions EXCEPT ![s].replicas = replicas],
         UNCHANGED <<next_session_id, next_log_entry_id>>
  PROVE  ReplicationInv'
<1> DEFINE x == [sessions[s] EXCEPT !.replicas = replicas]
<1>1. sessions \in Seq(Roles!Session) /\ Len(sessions) <= MaxSessions /\ SessionInv(sessions[s], next_log_entry_id)
  BY DEF ReplicationInv
<1>2. sessions[s] \in Roles!Session
  BY <1>1
<1>3. /\ x \in Roles!Session /\ x.replicas = replicas /\ x.log = sessions[s].log
      /\ x.log_size = sessions[s].log_size /\ x.log_tail = sessions[s].log_tail
  BY Zenon, <1>2 DEF Roles!Session
<1>4. sessions' = [sessions EXCEPT ![s] = x]
  OBVIOUS
<1> HIDE DEF x
<1>5. SessionInv(x, next_log_entry_id)
  BY <1>1, <1>3 DEF SessionInv, Ascending
<1>6. /\ sessions' \in Seq(Roles!Session) /\ Len(sessions') = Len(sessions) /\ sessions'[s] = x
      /\ \A u \in 1..Len(sessions) : u # s => sessions'[u] = sessions[u]
  <2>1. sessions \in Seq(Roles!Session) /\ x \in Roles!Session
    BY <1>1, <1>3
  <2> QED
    BY <1>4, <2>1, EntryChanged
<1>7. \A u \in 1..Len(sessions') : SessionInv(sessions'[u], next_log_entry_id')
  BY <1>5, <1>6 DEF ReplicationInv
<1> QED
  BY Zenon, <1>1, <1>6, <1>7, NextReplication DEF ReplicationInv

LEMMA SessionFacts ==
  ASSUME ReplicationInv, NEW s \in DOMAIN sessions
  PROVE  /\ s \in 1..Len(sessions) /\ sessions[s] \in Roles!Session
         /\ SessionInv(sessions[s], next_log_entry_id)
         /\ sessions[s].replicas \in Seq(Roles!ReplicaInfo) /\ Len(sessions[s].replicas) \in Nat
         /\ Len(sessions[s].replicas) <= MaxReplicas /\ Quiet(sessions[s].replicas)
         /\ DOMAIN sessions[s].replicas = 1..Len(sessions[s].replicas)
         /\ \A j \in 1..Len(sessions[s].replicas) : sessions[s].replicas[j] \in Roles!ReplicaInfo
<1>1. sessions \in Seq(Roles!Session)
  BY DEF ReplicationInv
<1>2. s \in 1..Len(sessions) /\ sessions[s] \in Roles!Session
  BY <1>1
<1>3. sessions[s].replicas \in Seq(Roles!ReplicaInfo)
  BY <1>2 DEF Roles!Session
<1>4. SessionInv(sessions[s], next_log_entry_id)
  BY <1>2 DEF ReplicationInv
<1>5. Len(sessions[s].replicas) <= MaxReplicas /\ Quiet(sessions[s].replicas)
  BY <1>4 DEF SessionInv
<1>6. \A r \in Seq(Roles!ReplicaInfo) :
        Len(r) \in Nat /\ DOMAIN r = 1..Len(r) /\ \A j \in 1..Len(r) : r[j] \in Roles!ReplicaInfo
  OBVIOUS
<1> QED
  BY Zenon, <1>2, <1>3, <1>4, <1>5, <1>6

LEMMA AddReplica ==
  ASSUME ReplicationInv, NEW s \in DOMAIN sessions, NEW id \in ReplicaId, Roles!replication_add_replica(s, id)
  PROVE  ReplicationInv'
<1> DEFINE old == sessions[s].replicas
<1> DEFINE r == [replica_id |-> id, state |-> "OUT_OF_SYNC", whole |-> FALSE]
<1> DEFINE new == Append(old, r)
<1>1. /\ old \in Seq(Roles!ReplicaInfo) /\ Len(old) \in Nat /\ Quiet(old) /\ Len(old) < MaxReplicas
      /\ sessions' = [sessions EXCEPT ![s].replicas = new]
      /\ UNCHANGED <<next_session_id, next_log_entry_id>>
  BY SessionFacts DEF Roles!replication_add_replica
<1>2. r \in Roles!ReplicaInfo /\ r.state = "OUT_OF_SYNC"
  BY DEF Roles!ReplicaInfo, Roles!ReplicaState
<1> HIDE DEF old, r
<1>3. /\ new \in Seq(Roles!ReplicaInfo) /\ Len(new) = Len(old) + 1 /\ new[Len(old) + 1] = r
      /\ \A j \in 1..Len(old) : new[j] = old[j]
  BY <1>1, <1>2, EntryAdded
<1> HIDE DEF new
<1>4. Quiet(new)
  <2> SUFFICES ASSUME NEW j \in 1..Len(new), ~new[j].whole,
                      new[j].replica_id = 0 \/ \E k \in 1..(j - 1) : new[k].replica_id = new[j].replica_id
               PROVE  new[j].state = "OUT_OF_SYNC"
    BY DEF Quiet
  <2>1. CASE j = Len(old) + 1
    BY <1>2, <1>3, <2>1
  <2>2. CASE j \in 1..Len(old)
    <3>1. new[j] = old[j] /\ \A k \in 1..(j - 1) : k \in 1..Len(old) /\ new[k] = old[k]
      BY <1>1, <1>3, <2>2
    <3> QED
      BY <1>1, <2>2, <3>1 DEF Quiet
  <2> QED
    BY <1>1, <1>3, <2>1, <2>2
<1>5. Len(new) <= MaxReplicas
  BY <1>1, <1>3, ConsensusAssumption
<1> QED
  BY Zenon, <1>1, <1>3, <1>4, <1>5, SessionFacts, ReplicasChanged

LEMMA RemoveReplica ==
  ASSUME ReplicationInv, NEW s \in DOMAIN sessions, NEW id \in ReplicaId, Roles!replication_remove_replica(s, id)
  PROVE  ReplicationInv'
<1> DEFINE old == sessions[s].replicas
<1>1. PICK i \in 1..Len(old) :
        /\ sessions' = [sessions EXCEPT ![s].replicas = Roles!MovedUp(old, i)]
        /\ old[i].replica_id # 0 /\ \A k \in 1..(i - 1) : old[k].replica_id # old[i].replica_id
        /\ UNCHANGED <<next_session_id, next_log_entry_id>>
  BY Zenon, SessionFacts DEF Roles!replication_remove_replica, Roles!Reached
<1> DEFINE new == Roles!MovedUp(old, i)
<1>2. old \in Seq(Roles!ReplicaInfo) /\ Len(old) \in Nat /\ Quiet(old) /\ Len(old) <= MaxReplicas
  BY SessionFacts
<1>3. sessions' = [sessions EXCEPT ![s].replicas = new]
  BY <1>1
<1> HIDE DEF old
<1>4. /\ new \in Seq(Roles!ReplicaInfo) /\ Len(new) = Len(old) - 1
      /\ \A j \in 1..Len(new) : new[j] = old[IF j < i THEN j ELSE j + 1]
  BY <1>2, EntryRemoved
<1> HIDE DEF new
<1>5. Quiet(new)
  <2> SUFFICES ASSUME NEW j \in 1..Len(new), ~new[j].whole,
                      new[j].replica_id = 0 \/ \E k \in 1..(j - 1) : new[k].replica_id = new[j].replica_id
               PROVE  new[j].state = "OUT_OF_SYNC"
    BY DEF Quiet
  <2> DEFINE a(k) == IF k < i THEN k ELSE k + 1
  <2>1. a(j) \in 1..Len(old) /\ new[j] = old[a(j)]
    BY <1>2, <1>4
  <2>2. \A k \in 1..(j - 1) : a(k) \in 1..(a(j) - 1) /\ new[k] = old[a(k)]
    BY <1>2, <1>4
  <2>3. old[a(j)].replica_id = 0 \/ \E k \in 1..(a(j) - 1) : old[k].replica_id = old[a(j)].replica_id
    <3> HIDE DEF a
    <3> QED
      BY <2>1, <2>2
  <2> HIDE DEF a
  <2> QED
    BY <1>2, <2>1, <2>3 DEF Quiet
<1>6. Len(new) <= MaxReplicas
  BY <1>2, <1>4, ConsensusAssumption
<1> QED
  BY Zenon, <1>1, <1>3, <1>4, <1>5, <1>6, SessionFacts, ReplicasChanged

LEMMA UpdateReplica ==
  ASSUME ReplicationInv, NEW s \in DOMAIN sessions, NEW id \in ReplicaId, NEW st \in Roles!ReplicaState,
         Roles!replication_update_replica_state(s, id, st)
  PROVE  ReplicationInv'
<1> DEFINE old == sessions[s].replicas
<1> DEFINE new == [j \in 1..Len(old) |-> IF j \in Roles!Reached(s, id) THEN [old[j] EXCEPT !.state = st] ELSE old[j]]
<1>1. /\ old \in Seq(Roles!ReplicaInfo) /\ Len(old) \in Nat /\ Quiet(old) /\ Len(old) <= MaxReplicas
      /\ \A j \in 1..Len(old) : old[j] \in Roles!ReplicaInfo
  BY SessionFacts
<1>2. /\ sessions' = [sessions EXCEPT ![s].replicas = new]
      /\ UNCHANGED <<next_session_id, next_log_entry_id>>
  BY Zenon, SessionFacts DEF Roles!replication_update_replica_state
<1>3. \A j \in Roles!Reached(s, id) :
        old[j].replica_id # 0 /\ \A k \in 1..(j - 1) : old[k].replica_id # old[j].replica_id
  BY DEF Roles!Reached
<1> HIDE DEF old
<1>4. \A r \in Roles!ReplicaInfo :
        LET u == [r EXCEPT !.state = st] IN
        u \in Roles!ReplicaInfo /\ u.replica_id = r.replica_id /\ u.whole = r.whole
  BY DEF Roles!ReplicaInfo
<1>5. \A j \in 1..Len(old) :
        /\ new[j] \in Roles!ReplicaInfo /\ new[j].replica_id = old[j].replica_id /\ new[j].whole = old[j].whole
        /\ j \notin Roles!Reached(s, id) => new[j] = old[j]
  BY <1>1, <1>4
<1>6. new \in Seq(Roles!ReplicaInfo) /\ Len(new) = Len(old)
  BY <1>1, <1>5
<1> HIDE DEF new
<1>7. Quiet(new)
  <2> SUFFICES ASSUME NEW j \in 1..Len(old), ~new[j].whole,
                      new[j].replica_id = 0 \/ \E k \in 1..(j - 1) : new[k].replica_id = new[j].replica_id
               PROVE  new[j].state = "OUT_OF_SYNC"
    BY <1>6 DEF Quiet
  <2>1. ~old[j].whole /\ \A k \in 1..(j - 1) : k \in 1..Len(old)
    BY <1>1, <1>5
  <2>2. old[j].replica_id = 0 \/ \E k \in 1..(j - 1) : old[k].replica_id = old[j].replica_id
    BY <1>5, <2>1
  <2>3. j \notin Roles!Reached(s, id)
    BY <1>3, <2>2
  <2> QED
    BY <1>1, <1>5, <2>1, <2>2, <2>3 DEF Quiet
<1> QED
  BY Zenon, <1>1, <1>2, <1>6, <1>7, SessionFacts, ReplicasChanged

LEMMA CompleteSync ==
  ASSUME ReplicationInv, NEW s \in DOMAIN sessions, Roles!replication_complete_sync(s)
  PROVE  ReplicationInv'
<1> DEFINE old == sessions[s].replicas
<1> DEFINE r(j) == [old[j] EXCEPT !.state = "SYNCED", !.whole = TRUE]
<1> DEFINE new == [j \in 1..Len(old) |-> r(j)]
<1>1. /\ old \in Seq(Roles!ReplicaInfo) /\ Len(old) \in Nat /\ Len(old) <= MaxReplicas
      /\ \A j \in 1..Len(old) : old[j] \in Roles!ReplicaInfo
  BY SessionFacts
<1>2. /\ sessions' = [sessions EXCEPT ![s].replicas = new]
      /\ UNCHANGED <<next_session_id, next_log_entry_id>>
  BY Zenon, SessionFacts DEF Roles!replication_complete_sync
<1> HIDE DEF old
<1>3. \A x \in Roles!ReplicaInfo :
        LET u == [x EXCEPT !.state = "SYNCED", !.whole = TRUE] IN u \in Roles!ReplicaInfo /\ u.whole = TRUE
  BY Zenon DEF Roles!ReplicaInfo, Roles!ReplicaState
<1>4. \A j \in 1..Len(old) : r(j) \in Roles!ReplicaInfo /\ r(j).whole = TRUE
  BY Zenon, <1>1, <1>3
<1> HIDE DEF r
<1>5. /\ new \in Seq(Roles!ReplicaInfo) /\ Len(new) = Len(old)
      /\ \A j \in 1..Len(old) : new[j].whole = TRUE
  BY <1>1, <1>4
<1> HIDE DEF new
<1>6. Quiet(new)
  BY <1>5 DEF Quiet
<1> QED
  BY Zenon, <1>1, <1>2, <1>5, <1>6, SessionFacts, ReplicasChanged

\* An id above the next one bounds the entries as well.
LEMMA AddEntry ==
  ASSUME ReplicationInv, NEW s \in DOMAIN sessions, Roles!replication_log_entry_add(s)
  PROVE  ReplicationInv'
<1> DEFINE x == sessions[s]
<1> DEFINE n == next_log_entry_id
<1> DEFINE y == [x EXCEPT !.log[x.log_tail] = n, !.log_tail = (x.log_tail + 1) % MaxReplicationLog,
                          !.log_size = x.log_size + 1]
<1>1. /\ x.log_size < MaxReplicationLog /\ n <= MaxEntryId
      /\ sessions' = [sessions EXCEPT ![s] = y]
      /\ n' = n + 1 /\ UNCHANGED next_session_id
  BY Zenon DEF Roles!replication_log_entry_add, Roles!HasRoom
<1>2. /\ sessions \in Seq(Roles!Session) /\ Len(sessions) <= MaxSessions /\ s \in 1..Len(sessions)
      /\ x \in Roles!Session /\ SessionInv(x, n) /\ n \in 1..(MaxEntryId + 1)
  BY SessionFacts DEF ReplicationInv
<1>3. MaxReplicationLog \in Nat \ {0} /\ MaxEntryId \in Nat /\ n \in 1..MaxEntryId
  <2>1. MaxReplicationLog \in Nat \ {0} /\ MaxEntryId \in Nat
    BY ConsensusAssumption
  <2>2. n <= MaxEntryId /\ n \in 1..(MaxEntryId + 1)
    BY <1>1, <1>2
  <2> HIDE DEF n
  <2> QED
    BY <2>1, <2>2
<1> DEFINE size == x.log_size
<1> DEFINE places == x.log
<1>4. /\ places \in [0..(MaxReplicationLog - 1) -> 0..MaxEntryId] /\ size \in 0..MaxReplicationLog
      /\ x.log_tail = size
  BY <1>1, <1>2 DEF Roles!Session, SessionInv, Ascending
<1>5. /\ y.log = [places EXCEPT ![size] = n] /\ y.log_size = size + 1
      /\ y.log_tail = (size + 1) % MaxReplicationLog /\ y.replicas = x.replicas /\ y.session_id = x.session_id
  BY <1>2, <1>4 DEF Roles!Session
<1>6. size < MaxReplicationLog /\ Ascending(x, n)
  BY <1>1, <1>2 DEF SessionInv
<1>7. \A e \in 0..(size - 1) : places[e] # 0 /\ places[e] < n /\ \A f \in 0..(size - 1) : e < f => places[e] < places[f]
  BY <1>6 DEF Ascending
<1>8. y \in Roles!Session
  <2>1. (size + 1) % MaxReplicationLog \in 0..(MaxReplicationLog - 1) /\ size + 1 \in 0..MaxReplicationLog
    BY <1>3, <1>4, <1>6
  <2>2. [places EXCEPT ![size] = n] \in [0..(MaxReplicationLog - 1) -> 0..MaxEntryId]
    BY <1>3, <1>4, <1>6
  <2>3. ASSUME NEW L \in [0..(MaxReplicationLog - 1) -> 0..MaxEntryId],
               NEW T \in 0..(MaxReplicationLog - 1), NEW Z \in 0..MaxReplicationLog
        PROVE  [x EXCEPT !.log = L, !.log_tail = T, !.log_size = Z] \in Roles!Session
    <3> HIDE DEF x
    <3> QED
      BY Zenon, <1>2 DEF Roles!Session
  <2>4. y = [x EXCEPT !.log = [places EXCEPT ![size] = n], !.log_tail = (size + 1) % MaxReplicationLog,
                      !.log_size = size + 1]
    <3> HIDE DEF x, n
    <3> QED
      BY <1>2, <1>4 DEF Roles!Session
  <2> HIDE DEF x, y, size, places, n
  <2> QED
    BY Zenon, <2>1, <2>2, <2>3, <2>4
<1> HIDE DEF x, y, size, places, n
<1>9. Ascending(y, n')
  <2> DEFINE l == [places EXCEPT ![size] = n]
  <2>1. /\ l[size] = n /\ \A e \in 0..(size - 1) : l[e] = places[e]
    BY <1>3, <1>4, <1>6
  <2>2. size + 1 < MaxReplicationLog => (size + 1) % MaxReplicationLog = size + 1
    <3>1. \A a \in Nat, m \in Nat \ {0} : a < m => a % m = a
      OBVIOUS
    <3>2. size + 1 \in Nat
      BY <1>4
    <3> QED
      BY <1>3, <3>1, <3>2
  <2>3. \A e \in 0..(size - 1) : places[e] \in Nat
    BY <1>3, <1>4, <1>6
  <2> HIDE DEF l
  <2>a. n \in Nat /\ n # 0 /\ size \in Nat /\ \A e \in 0..size : e = size \/ e \in 0..(size - 1)
    BY <1>3, <1>4
  <2>4. \A e \in 0..size : l[e] # 0 /\ l[e] < n + 1
    <3>1. \A e \in 0..(size - 1) : l[e] # 0 /\ l[e] \in Nat /\ l[e] < n
      BY <1>7, <2>1, <2>3
    <3> QED
      BY <2>1, <2>a, <3>1
  <2>5. \A e, f \in 0..size : e < f => l[e] < l[f]
    BY <1>7, <2>1, <2>3, <2>a
  <2>6. (size + 1) - 1 = size
    BY <1>4
  <2> QED
    BY <1>1, <1>5, <2>2, <2>4, <2>5, <2>6 DEF Ascending, l
<1>10. SessionInv(y, n')
  BY <1>2, <1>5, <1>8, <1>9 DEF SessionInv
<1>11. /\ sessions' \in Seq(Roles!Session) /\ Len(sessions') = Len(sessions) /\ sessions'[s] = y
       /\ \A u \in 1..Len(sessions) : u # s => sessions'[u] = sessions[u]
  BY <1>1, <1>2, <1>8, EntryChanged
<1>12. ASSUME NEW u \in 1..Len(sessions) PROVE SessionInv(sessions[u], n')
  <2>1. SessionInv(sessions[u], n) /\ sessions[u] \in Roles!Session
    BY <1>2 DEF ReplicationInv, n
  <2>2. \A e \in 0..(sessions[u].log_size - 1) : sessions[u].log[e] \in Nat
    <3>1. /\ sessions[u].log \in [0..(MaxReplicationLog - 1) -> 0..MaxEntryId]
          /\ sessions[u].log_size \in 0..MaxReplicationLog
      BY <2>1 DEF Roles!Session
    <3> QED
      BY <1>3, <3>1
  <2>3. \A e \in 0..(sessions[u].log_size - 1) : sessions[u].log[e] # 0 /\ sessions[u].log[e] < n'
    BY <1>1, <1>3, <2>1, <2>2 DEF SessionInv, Ascending
  <2> QED
    BY <2>1, <2>3 DEF SessionInv, Ascending
<1>13. \A u \in 1..Len(sessions') : SessionInv(sessions'[u], n')
  BY <1>10, <1>11, <1>12
<1>14. n' \in 1..(MaxEntryId + 1)
  BY <1>1, <1>3
<1> QED
  BY <1>1, <1>2, <1>11, <1>13, <1>14, NextReplication DEF ReplicationInv, n

LEMMA CreateSession == ReplicationInv /\ Roles!replication_create_session => ReplicationInv'
<1> SUFFICES ASSUME ReplicationInv, Roles!replication_create_session PROVE ReplicationInv'
  OBVIOUS
<1> DEFINE x == [session_id |-> next_session_id, replicas |-> << >>,
                 log |-> [e \in 0..(MaxReplicationLog - 1) |-> 0], log_size |-> 0, log_tail |-> 0]
<1>1. /\ Len(sessions) < MaxSessions /\ next_session_id <= MaxSessionId /\ sessions' = Append(sessions, x)
      /\ next_session_id' = next_session_id + 1 /\ UNCHANGED next_log_entry_id
  BY DEF Roles!replication_create_session
<1>2. /\ sessions \in Seq(Roles!Session) /\ next_session_id \in 1..(MaxSessionId + 1) /\ Len(sessions) \in Nat
      /\ MaxSessionId \in Nat /\ MaxEntryId \in Nat /\ MaxReplicationLog \in Nat \ {0} /\ MaxSessions \in Nat
      /\ MaxReplicas \in Nat
  BY ConsensusAssumption DEF ReplicationInv
<1>3. next_session_id \in 1..MaxSessionId /\ next_session_id + 1 \in 1..(MaxSessionId + 1)
  BY <1>1, <1>2
<1>4. x \in Roles!Session
  BY <1>2, <1>3 DEF Roles!Session
<1>5. SessionInv(x, next_log_entry_id)
  BY <1>2, <1>4 DEF SessionInv, Quiet, Ascending
<1> HIDE DEF x
<1>6. /\ sessions' \in Seq(Roles!Session) /\ Len(sessions') = Len(sessions) + 1 /\ sessions'[Len(sessions) + 1] = x
      /\ \A u \in 1..Len(sessions) : sessions'[u] = sessions[u]
  BY <1>1, <1>2, <1>4, EntryAdded
<1>7. \A u \in 1..Len(sessions') : u = Len(sessions) + 1 \/ u \in 1..Len(sessions)
  BY <1>2, <1>6
<1>8. \A u \in 1..Len(sessions') : SessionInv(sessions'[u], next_log_entry_id')
  BY <1>1, <1>5, <1>6, <1>7 DEF ReplicationInv
<1>9. Len(sessions') <= MaxSessions
  BY <1>1, <1>2, <1>6
<1> QED
  BY <1>1, <1>3, <1>6, <1>8, <1>9, NextReplication DEF ReplicationInv

LEMMA DestroySession ==
  ASSUME ReplicationInv, NEW s \in DOMAIN sessions, Roles!replication_destroy_session(s)
  PROVE  ReplicationInv'
<1>1. sessions' = Roles!MovedUp(sessions, s) /\ UNCHANGED <<next_session_id, next_log_entry_id>>
  BY DEF Roles!replication_destroy_session
<1>2. /\ sessions \in Seq(Roles!Session) /\ s \in 1..Len(sessions) /\ Len(sessions) \in Nat
      /\ Len(sessions) <= MaxSessions /\ MaxSessions \in Nat
  BY SessionFacts, ConsensusAssumption DEF ReplicationInv
<1>3. /\ sessions' \in Seq(Roles!Session) /\ Len(sessions') = Len(sessions) - 1
      /\ \A u \in 1..Len(sessions') : sessions'[u] = sessions[IF u < s THEN u ELSE u + 1]
  BY <1>1, <1>2, EntryRemoved
<1>4. \A u \in 1..Len(sessions') : (IF u < s THEN u ELSE u + 1) \in 1..Len(sessions)
  BY <1>2, <1>3
<1>5. \A u \in 1..Len(sessions') : SessionInv(sessions'[u], next_log_entry_id')
  BY Zenon, <1>1, <1>3, <1>4 DEF ReplicationInv
<1>6. Len(sessions') <= MaxSessions
  BY <1>2, <1>3
<1> QED
  BY <1>1, <1>3, <1>5, <1>6, NextReplication DEF ReplicationInv

LEMMA ReplicationStep == ReplicationInv /\ Roles!ReplicationNext => ReplicationInv'
<1>1. "SYNCED" \in Roles!ReplicaState /\ "OUT_OF_SYNC" \in Roles!ReplicaState
  BY DEF Roles!ReplicaState
<1> QED
  BY Zenon, <1>1, CreateSession, DestroySession, CompleteSync, AddEntry, AddReplica, RemoveReplica, UpdateReplica
  DEF Roles!ReplicationNext, Roles!replication_sync_replica, Roles!replication_detect_out_of_sync

-----------------------------------------------------------------------------
(* The system: one component moves, the others wait *)

SystemInv == EngineInv /\ DistInv /\ ClusterInv /\ ReplicationInv

LEMMA EngineInit == Init => EngineInv
<1> SUFFICES ASSUME Init PROVE EngineInv
  OBVIOUS
<1>1. VotesInv
  BY DEF Init, VotesInv, Typed, Remembered, OneVotePerTerm
<1>2. << >> \in Seq(Node) /\ Len(<< >>) = 0 /\ MaxLog \in Nat /\ MaxPeers \in Nat
  BY EngineAssumption
<1>3. peers \in [Node -> Seq(Node)] /\ \A n \in Node : Len(peers[n]) <= MaxPeers
  BY <1>2 DEF Init
<1>4. TypeOK
  BY <1>2, <1>3 DEF Init, TypeOK
<1>5. \A n \in Node : commit_index[n] = 0 /\ committed[n] = 0 /\ last_applied[n] = 0 /\ log_size[n] = 0
  BY Zenon DEF Init
<1>6. LogInv
  <2>1. 0 <= 0
    OBVIOUS
  <2> QED
    BY Zenon, <1>5, <2>1 DEF LogInv
<1> QED
  BY <1>1, <1>4, <1>6 DEF EngineInv

LEMMA EngineStep == EngineInv /\ [Next]_vars => EngineInv'
BY EngineTypeStep, TypedStep, VoteStep, LogStepInv DEF EngineInv, VotesInv

LEMMA ClusterInit == Roles!Init => ClusterInv /\ ReplicationInv
<1> SUFFICES ASSUME Roles!Init PROVE ClusterInv /\ ReplicationInv
  OBVIOUS
<1>1. /\ nodes = << >> /\ events = << >> /\ sessions = << >> /\ Len(<< >>) = 0
      /\ << >> \in Seq(Roles!ClusterNode) /\ << >> \in Seq(Roles!ClusterEvent) /\ << >> \in Seq(Roles!Session)
  BY DEF Roles!Init
<1>2. /\ MaxNodes \in Nat /\ MaxId \in Nat /\ MaxEvents \in Nat /\ MaxSessions \in Nat /\ MaxTerm \in Nat
      /\ MaxTerm >= 1 /\ MaxSessionId \in Nat /\ MaxEntryId \in Nat
  BY ConsensusAssumption, EngineAssumption
<1>3. ClusterTyped
  <2>1. nodes \in Seq(Roles!ClusterNode) /\ Len(nodes) <= MaxNodes /\ events \in Seq(Roles!ClusterEvent) /\ Len(events) <= MaxEvents
    BY <1>1, <1>2
  <2>2. /\ next_id \in 1..(MaxId + 1) /\ leader_node_id \in 0..MaxId /\ roles_current_term \in 1..MaxTerm
        /\ by_hand \in BOOLEAN
    <3>1. next_id = 1 /\ leader_node_id = 0 /\ roles_current_term = 1 /\ by_hand = FALSE
      BY DEF Roles!Init
    <3>2. 1 \in 1..(MaxId + 1) /\ 0 \in 0..MaxId /\ 1 \in 1..MaxTerm /\ FALSE \in BOOLEAN
      BY <1>2
    <3> QED
      BY Zenon, <3>1, <3>2
  <2> QED
    BY <2>1, <2>2 DEF ClusterTyped
<1>4. Members /\ Roles!LeaderIsLeading /\ Roles!TermsAgree /\ Chained /\ Ended
  BY <1>1 DEF Roles!Init, Members, Roles!LeaderIsLeading, Roles!TermsAgree, Chained, Ended
<1>5. ReplicationInv
  BY <1>1, <1>2 DEF Roles!Init, ReplicationInv
<1> QED
  BY <1>3, <1>4, <1>5 DEF ClusterInv

LEMMA ClusterIdle ==
  /\ ClusterInv /\ UNCHANGED <<nodes, next_id, leader_node_id, roles_current_term, events, by_hand>> => ClusterInv'
  /\ ReplicationInv /\ UNCHANGED <<sessions, next_session_id, next_log_entry_id>> => ReplicationInv'
<1>1. ASSUME ClusterInv, UNCHANGED <<nodes, next_id, leader_node_id, roles_current_term, events, by_hand>>
      PROVE  ClusterInv'
  <2>1. /\ nodes' \in Seq(Roles!ClusterNode) /\ leader_node_id' \in 0..MaxId /\ by_hand' \in BOOLEAN
        /\ Roles!LeaderIsLeading /\ UNCHANGED <<nodes, leader_node_id, by_hand, next_id, roles_current_term, events>>
    BY <1>1 DEF ClusterInv, ClusterTyped
  <2>2. Roles!LeaderIsLeading'
    BY <2>1 DEF Roles!LeaderIsLeading, Roles!Find
  <2>3. \A j \in 1..Len(nodes) :
          nodes'[j].id = nodes[j].id /\ nodes'[j].term = nodes[j].term /\ nodes'[j].state = nodes[j].state
    BY <2>1
  <2> QED
    BY <1>1, <2>1, <2>2, <2>3, Relabelled
<1>2. ASSUME ReplicationInv, UNCHANGED <<sessions, next_session_id, next_log_entry_id>> PROVE ReplicationInv'
  <2>1. \A s \in 1..Len(sessions') : SessionInv(sessions'[s], next_log_entry_id')
    BY <1>2 DEF ReplicationInv
  <2> QED
    BY <1>2, <2>1, NextReplication DEF ReplicationInv
<1> QED
  BY <1>1, <1>2

\* A step of the system is a step of each component or leaves it alone.
LEMMA StepParts ==
  ASSUME [Step]_all
  PROVE  /\ [Next]_vars /\ [Dist!Next]_distVars
         /\ \/ Roles!RolesNext \/ UNCHANGED <<nodes, next_id, leader_node_id, roles_current_term, events, by_hand>>
         /\ \/ Roles!ReplicationNext \/ UNCHANGED <<sessions, next_session_id, next_log_entry_id>>
BY Zenon DEF Step, all, Next, rolesVars, Roles!RolesNext, Roles!ReplicationNext, Roles!clusterVars, Roles!replicationVars

LEMMA SystemStep == SystemInv /\ [Step]_all => SystemInv'
BY StepParts, EngineStep, DistStep, RolesStep, ReplicationStep, ClusterIdle DEF SystemInv

\* The invariant of all components together.
THEOREM SystemInvariance == System => []SystemInv
<1>1. Start => SystemInv
  BY EngineInit, DistInit, ClusterInit DEF Start, SystemInv
<1> QED
  BY <1>1, SystemStep, PTL DEF System

\* Every call, in any order, leaves the components within their types and their
\* tables within their sizes: consensus_add_peer, cluster_add_node, the event
\* log, replication_add_replica and replication_log_entry_add check first.
THEOREM SystemTypes == System => []TypesOK
<1>1. SystemInv => TypesOK
  BY ReplicationProperties
  DEF SystemInv, EngineInv, DistInv, ClusterInv, ClusterTyped, ReplicationInv, TypesOK, Roles!TypeOK
<1> QED
  BY <1>1, SystemInvariance, PTL

\* consensus_request_vote gives one vote a term, for any number of engines.
THEOREM SystemSingleVote == System => []OneVotePerTerm
<1>1. SystemInv => OneVotePerTerm
  BY DEF SystemInv, EngineInv, VotesInv
<1> QED
  BY <1>1, SystemInvariance, PTL

\* The leader of cluster_manager.c is a member that leads, members agree on the
\* term and the events explain their states; replicas no call reaches stay out
\* of sync and no session's log is overwritten.
THEOREM SystemRolesConsistent == System => []RolesConsistent
<1>1. SystemInv => RolesConsistent
  BY ReplicationProperties, EventsInTwoParts DEF SystemInv, ClusterInv, RolesConsistent
<1> QED
  BY <1>1, SystemInvariance, PTL

\* A vote of consensus_request_vote stands for the rest of its term.
THEOREM SystemVotesStand == System => VoteStands
<1>1. SystemInv /\ [Step]_all =>
        [\A n \in Node :
           /\ current_term'[n] >= current_term[n]
           /\ current_term'[n] = current_term[n] /\ voted_for[n] # 0
                => voted_for'[n] = voted_for[n]]_vars
  BY StepParts, VoteKept DEF SystemInv, EngineInv
<1> QED
  BY <1>1, SystemInvariance, PTL DEF System, VoteStands

\* Terms and commit indices of distributed_consensus.c never go back and stay
\* within the log, whatever request arrives late, twice or out of order; nor
\* does what the engines have applied.
THEOREM SystemNothingRetreats == System => NothingRetreats
<1>1. SystemInv /\ [Step]_all =>
        [\A n \in Node :
           /\ dist_commit_index'[n] >= dist_commit_index[n]
           /\ SubSeq(log'[n], 1, dist_commit_index[n]) = SubSeq(log[n], 1, dist_commit_index[n])]_(Dist!vars)
  BY Zenon, StepParts, DistNeverRetreats DEF SystemInv
<1>2. SystemInv /\ [Step]_all =>
        [\A n \in Node :
           /\ dist_current_term'[n] >= dist_current_term[n]
           /\ dist_state'[n] = "LEADER" => dist_current_term'[n] = dist_current_term[n]]_(Dist!vars)
  BY Zenon, StepParts, DistNeverRetreats DEF SystemInv
<1>3. SystemInv /\ [Step]_all => [\A n \in Node : last_applied'[n] >= last_applied[n]]_vars
  BY StepParts, LogStepInv DEF SystemInv, EngineInv
<1>4. SystemInv => Dist!CommitWithinLog /\ AppliedWereCommitted
  BY DEF SystemInv, DistInv, EngineInv, LogInv, AppliedWereCommitted
<1>5. System => Dist!CommitNeverRetreats
  BY <1>1, SystemInvariance, PTL DEF System, Dist!CommitNeverRetreats
<1>6. System => Dist!TermsOnlyGrow
  BY <1>2, SystemInvariance, PTL DEF System, Dist!TermsOnlyGrow
<1>7. System => AppliedNeverRetreats
  BY <1>3, SystemInvariance, PTL DEF System, AppliedNeverRetreats
<1>8. System => []Dist!CommitWithinLog /\ []AppliedWereCommitted
  BY <1>4, SystemInvariance, PTL
<1> QED
  BY <1>5, <1>6, <1>7, <1>8, PTL DEF NothingRetreats

=============================================================================
