----------------------------- MODULE FsJournal -----------------------------
(***************************************************************************)
(* The journal of fs/fs_journal.c: transactions collect entries, commit    *)
(* marks the entries synced one by one between the states COMMITTING and   *)
(* COMMITTED, and journal_recover settles what an interrupted call left.   *)
(* Commit, abort and recovery are sequences of steps, because a crash may  *)
(* fall between two of them; no other call runs in between.  The crash is  *)
(* the one journal_recover is written for: the journal survives as the     *)
(* interrupted call left it, and data not marked synced may be damaged.    *)
(*                                                                         *)
(* Transaction ids are never reused and the array keeps them in order, so  *)
(* the array of transactions is modelled by the state of each id, ABSENT   *)
(* for ids not in it, and entry_ids by the entries that name the id.       *)
(***************************************************************************)
EXTENDS Naturals, FiniteSets

CONSTANTS
  MaxTransactions,  \* MAX_JOURNAL_TRANSACTIONS
  MaxEntries,       \* MAX_JOURNAL_ENTRIES
  MaxPerTrans,      \* capacity of entry_ids; callers stay below it
  MaxId,            \* bound: transactions ever begun
  Mode              \* the journal modes

ASSUME JournalAssumption ==
  MaxTransactions \in Nat /\ MaxEntries \in Nat /\ MaxPerTrans \in Nat /\ MaxId \in Nat

Id == 1..MaxId
Entry == 1..MaxEntries
State == {"ABSENT", "RUNNING", "COMMITTING", "COMMITTED", "ABORTED"}
None == 0

VARIABLES
  state,        \* per transaction id
  in_progress,  \* per transaction id
  next_id,      \* current_transaction_id
  owner,        \* transaction_id of each entry
  entry_count,
  synced,       \* entries with is_synced
  damaged,      \* entries whose data no longer matches their checksum
  mode,
  op,           \* the call under way: "none", "commit", "abort", "recover"
  cur,          \* the transaction it is working on
  todo,         \* entries of cur its loop has still to visit
  rest          \* transactions journal_recover has still to visit

call == <<op, cur, todo, rest>>
log == <<owner, entry_count>>
vars == <<state, in_progress, next_id, log, synced, damaged, mode, call>>

EntriesOf(t) == {e \in 1..entry_count : owner[e] = t}

Unsettled(t) == state[t] \in {"RUNNING", "COMMITTING"}

TypeOK ==
  /\ state \in [Id -> State] /\ in_progress \in [Id -> BOOLEAN]
  /\ next_id \in 1..(MaxId + 1)
  /\ owner \in [Entry -> Id \cup {None}] /\ entry_count \in 0..MaxEntries
  /\ synced \subseteq Entry /\ damaged \subseteq Entry
  /\ mode \in Mode
  /\ op \in {"none", "commit", "abort", "recover"}
  /\ cur \in Id \cup {None} /\ todo \subseteq Entry /\ rest \subseteq Id

Init ==
  /\ state = [t \in Id |-> "ABSENT"] /\ in_progress = [t \in Id |-> FALSE]
  /\ next_id = 1
  /\ owner = [e \in Entry |-> None] /\ entry_count = 0
  /\ synced = {} /\ damaged = {}
  /\ mode \in Mode
  /\ op = "none" /\ cur = None /\ todo = {} /\ rest = {}

-----------------------------------------------------------------------------

journal_begin_transaction ==
  /\ op = "none"
  /\ next_id <= MaxId
  /\ Cardinality({t \in Id : state[t] # "ABSENT"}) < MaxTransactions
  /\ state' = [state EXCEPT ![next_id] = "RUNNING"]
  /\ in_progress' = [in_progress EXCEPT ![next_id] = TRUE]
  /\ next_id' = next_id + 1
  /\ UNCHANGED <<log, synced, damaged, mode, call>>

AddPastTheEnd(t) ==         \* mistaken journal_add_entry: > for >=
  /\ op = "none" /\ state[t] = "RUNNING"
  /\ entry_count <= MaxEntries /\ Cardinality(EntriesOf(t)) < MaxPerTrans
  /\ entry_count' = entry_count + 1
  /\ owner' = [owner EXCEPT ![entry_count + 1] = t]
  /\ UNCHANGED <<state, in_progress, next_id, synced, damaged, mode, call>>

\* A fresh slot is used for each entry: it starts out unsynced, with a checksum
\* that matches its data.
journal_add_entry(t) ==
  /\ op = "none" /\ state[t] = "RUNNING"
  /\ entry_count < MaxEntries /\ Cardinality(EntriesOf(t)) < MaxPerTrans
  /\ entry_count' = entry_count + 1
  /\ owner' = [owner EXCEPT ![entry_count + 1] = t]
  /\ UNCHANGED <<state, in_progress, next_id, synced, damaged, mode, call>>

Enter(o, t) == op = "none" /\ op' = o /\ cur' = t /\ todo' = EntriesOf(t) /\ UNCHANGED rest

Return == op' = "none" /\ cur' = None /\ todo' = {} /\ rest' = {}

First(e) == e \in todo /\ \A f \in todo : e <= f

Visited(e) == todo' = todo \ {e} /\ UNCHANGED <<op, cur, rest>>

journal_commit_transaction(t) ==
  /\ state[t] = "RUNNING" /\ Enter("commit", t)
  /\ state' = [state EXCEPT ![t] = "COMMITTING"]
  /\ UNCHANGED <<in_progress, next_id, log, synced, damaged, mode>>

CommitEntry(e) ==
  /\ op = "commit" /\ First(e) /\ Visited(e)
  /\ synced' = synced \cup {e}
  /\ UNCHANGED <<state, in_progress, next_id, log, damaged, mode>>

CommitEarly ==              \* mistaken CommitEnd: the last entry is skipped
  /\ op = "commit" /\ Cardinality(todo) <= 1 /\ Return
  /\ state' = [state EXCEPT ![cur] = "COMMITTED"]
  /\ in_progress' = [in_progress EXCEPT ![cur] = FALSE]
  /\ UNCHANGED <<next_id, log, synced, damaged, mode>>

CommitEnd ==
  /\ op = "commit" /\ todo = {} /\ Return
  /\ state' = [state EXCEPT ![cur] = "COMMITTED"]
  /\ in_progress' = [in_progress EXCEPT ![cur] = FALSE]
  /\ UNCHANGED <<next_id, log, synced, damaged, mode>>

AbortInPlace(t) ==          \* mistaken journal_abort_transaction: the state is left alone
  /\ state[t] # "ABSENT" /\ Enter("abort", t)
  /\ UNCHANGED <<state, in_progress, next_id, log, synced, damaged, mode>>

\* Any transaction in the array can be aborted, a committed one included.
journal_abort_transaction(t) ==
  /\ state[t] # "ABSENT" /\ Enter("abort", t)
  /\ state' = [state EXCEPT ![t] = "ABORTED"]
  /\ in_progress' = [in_progress EXCEPT ![t] = FALSE]
  /\ UNCHANGED <<next_id, log, synced, damaged, mode>>

AbortEntry(e) ==
  /\ op = "abort" /\ First(e) /\ Visited(e)
  /\ synced' = synced \ {e}
  /\ UNCHANGED <<state, in_progress, next_id, log, damaged, mode>>

AbortEnd ==
  /\ op = "abort" /\ todo = {} /\ Return
  /\ UNCHANGED <<state, in_progress, next_id, log, synced, damaged, mode>>

CheckpointAll ==            \* mistaken journal_checkpoint: drops aborted ones too
  /\ op = "none"
  /\ state' = [t \in Id |-> IF ~in_progress[t] THEN "ABSENT" ELSE state[t]]
  /\ UNCHANGED <<in_progress, next_id, log, synced, damaged, mode, call>>

\* Committed transactions leave the array; their entries stay in the log.
journal_checkpoint ==
  /\ op = "none"
  /\ state' = [t \in Id |-> IF state[t] = "COMMITTED" /\ ~in_progress[t]
                              THEN "ABSENT" ELSE state[t]]
  /\ UNCHANGED <<in_progress, next_id, log, synced, damaged, mode, call>>

journal_sync_to_disk ==
  /\ op = "none"
  /\ synced' = 1..entry_count
  /\ UNCHANGED <<state, in_progress, next_id, log, damaged, mode, call>>

SetModeWhileCommitting(m) ==  \* mistaken journal_set_mode: looks at RUNNING only
  /\ op = "none"
  /\ \A t \in Id : state[t] # "RUNNING"
  /\ mode' = m
  /\ UNCHANGED <<state, in_progress, next_id, log, synced, damaged, call>>

journal_set_mode(m) ==
  /\ op = "none"
  /\ \A t \in Id : state[t] # "ABSENT" => ~in_progress[t]
  /\ mode' = m
  /\ UNCHANGED <<state, in_progress, next_id, log, synced, damaged, call>>

-----------------------------------------------------------------------------

\* journal_recover walks the array; a settled transaction is passed over.
journal_recover ==
  /\ op = "none"
  /\ op' = "recover" /\ rest' = {t \in Id : state[t] # "ABSENT"} /\ UNCHANGED <<cur, todo>>
  /\ UNCHANGED <<state, in_progress, next_id, log, synced, damaged, mode>>

VisitCommitting(t) ==       \* mistaken RecoverVisit: RUNNING is passed over
  /\ op = "recover" /\ cur = None
  /\ t \in rest /\ \A u \in rest : t <= u
  /\ rest' = rest \ {t}
  /\ IF state[t] = "COMMITTING" THEN cur' = t /\ todo' = EntriesOf(t)
                               ELSE UNCHANGED <<cur, todo>>
  /\ UNCHANGED <<state, in_progress, next_id, log, synced, damaged, mode, op>>

RecoverVisit(t) ==
  /\ op = "recover" /\ cur = None
  /\ t \in rest /\ \A u \in rest : t <= u
  /\ rest' = rest \ {t}
  /\ IF Unsettled(t) THEN cur' = t /\ todo' = EntriesOf(t)
                     ELSE UNCHANGED <<cur, todo>>
  /\ UNCHANGED <<state, in_progress, next_id, log, synced, damaged, mode, op>>

RecoverEntry(e) ==
  /\ op = "recover" /\ First(e) /\ Visited(e)
  /\ synced' = IF state[cur] = "COMMITTING" /\ e \notin damaged
                 THEN synced \cup {e} ELSE synced
  /\ UNCHANGED <<state, in_progress, next_id, log, damaged, mode>>

SettleAllCommitted ==       \* mistaken RecoverSettle: RUNNING is committed too
  /\ op = "recover" /\ cur # None /\ todo = {}
  /\ state' = [state EXCEPT ![cur] = "COMMITTED"]
  /\ cur' = None
  /\ UNCHANGED <<in_progress, next_id, log, synced, damaged, mode, op, todo, rest>>

\* The transaction is settled, but its in_progress flag stays set.
RecoverSettle ==
  /\ op = "recover" /\ cur # None /\ todo = {}
  /\ state' = [state EXCEPT ![cur] = IF @ = "COMMITTING" THEN "COMMITTED" ELSE "ABORTED"]
  /\ cur' = None
  /\ UNCHANGED <<in_progress, next_id, log, synced, damaged, mode, op, todo, rest>>

RecoverEnd ==
  /\ op = "recover" /\ cur = None /\ rest = {} /\ Return
  /\ UNCHANGED <<state, in_progress, next_id, log, synced, damaged, mode>>

\* The call under way, if any, is cut short; entries not yet synced may be torn.
Crash(torn) ==
  /\ torn \subseteq (1..entry_count) \ synced
  /\ damaged' = damaged \cup torn
  /\ Return
  /\ UNCHANGED <<state, in_progress, next_id, log, synced, mode>>

Next ==
  \/ journal_begin_transaction
  \/ \E t \in Id : \/ journal_add_entry(t)
                   \/ journal_commit_transaction(t)
                   \/ journal_abort_transaction(t)
                   \/ RecoverVisit(t)
  \/ \E e \in Entry : CommitEntry(e) \/ AbortEntry(e) \/ RecoverEntry(e)
  \/ CommitEnd \/ AbortEnd
  \/ journal_checkpoint \/ journal_sync_to_disk
  \/ \E m \in Mode : journal_set_mode(m)
  \/ journal_recover \/ RecoverSettle \/ RecoverEnd
  \/ \E torn \in SUBSET Entry : Crash(torn)

Spec == Init /\ [][Next]_vars

-----------------------------------------------------------------------------

\* Whether the commit ended normally or through crashes and recoveries, and
\* whatever happened to other transactions since: every entry of a COMMITTED
\* transaction is synced, unless a crash damaged it first.
CommittedIsSynced ==
  \A t \in Id : state[t] = "COMMITTED" => EntriesOf(t) \subseteq synced \cup damaged

\* journal_checkpoint forgets a transaction only when nothing is left to do for
\* it: it leaves the array committed, with no entry still to be synced.
ForgottenOnlyWhenDurable ==
  [][\A t \in Id : state[t] # "ABSENT" /\ state'[t] = "ABSENT" =>
       state[t] = "COMMITTED" /\ EntriesOf(t) \subseteq synced \cup damaged]_vars

\* The journal mode never changes under an open transaction, one that a crash
\* left open and no recovery has settled yet included.
ModeStableWhileOpen ==
  [][mode' # mode => \A t \in Id : ~Unsettled(t)]_vars

\* No call revives a transaction that ended, and only a commit that got past
\* its first step can end as COMMITTED: recovery never commits a RUNNING one.
\* What recovery settled keeps its in_progress flag, so no checkpoint reclaims it
\* and the mode is frozen until it is aborted by hand.
EndIsFinal ==
  [][\A t \in Id :
       /\ state[t] \in {"COMMITTED", "ABORTED"} => ~Unsettled(t)'
       /\ state[t] = "ABORTED" => state'[t] = "ABORTED"
       /\ state[t] = "RUNNING" => state'[t] # "COMMITTED"
       /\ state[t] \in {"COMMITTED", "ABORTED"} /\ in_progress[t] =>
            /\ mode' = mode
            /\ \/ state'[t] = state[t] /\ in_progress'[t]
               \/ state'[t] = "ABORTED" /\ ~in_progress'[t]]_vars

\* A transaction as seen from outside; ids below next_id were given out before.
View(s, given) ==
  IF s = "ABSENT" THEN (IF given THEN "gone" ELSE "none")
  ELSE IF s = "COMMITTED" THEN "committed" ELSE IF s = "ABORTED" THEN "aborted" ELSE "open"

Status == [t \in Id |-> View(state[t], t < next_id)]

Durable ==
  {e \in synced \ damaged : \E t \in Id : e \in EntriesOf(t) /\ Status[t] \in {"committed", "gone"}}

Log == INSTANCE DurableLog WITH
  status <- Status, members <- [t \in Id |-> EntriesOf(t)], lost <- damaged, durable <- Durable

\* Step by step as they are, and cut short by crashes anywhere, the calls of the
\* journal look like single instants from outside: a commit or its recovery makes
\* all undamaged entries of the transaction durable at once, an abort takes them
\* back at once, and nothing else, later crashes, recoveries and aborts of other
\* transactions included, adds to them or takes from them.
ImplementsDurableLog == Log!Spec

\* A recovery that reaches its end has missed no transaction, however often
\* earlier ones were cut short: none is left RUNNING or COMMITTING.
RecoverySettles ==
  op = "recover" /\ cur = None /\ rest = {} => \A t \in Id : ~Unsettled(t)
=============================================================================
