-------------------------- MODULE FsJournalProofs --------------------------
(***************************************************************************)
(* Theorems about FsJournal: what is committed is synced, through any      *)
(* number of crashes and recoveries, and the calls implement DurableLog,   *)
(* where transactions end at one instant.  CommittedIsSynced is not        *)
(* inductive: CommitEnd and RecoverSettle establish it from what the loops *)
(* have done so far, which CallInv records.  The refinement needs it of    *)
(* forgotten transactions, too (KeptIsSynced): then the synced marks tell  *)
(* nothing about what is durable that the states do not tell, and steps    *)
(* that only move marks are invisible.                                     *)
(***************************************************************************)
EXTENDS FsJournal, TLAPS

\* An open transaction counts as pending.
OpenIsPending == \A t \in Id : Unsettled(t) => in_progress[t]

\* Where the call under way stands: the entries its loop has passed are synced
\* (commit) or synced or damaged (recovery of a COMMITTING transaction), and
\* recovery still has every open transaction ahead of it.
CallInv ==
  /\ op = "none" => cur = None /\ todo = {}
  /\ op = "commit" => /\ cur \in Id /\ state[cur] = "COMMITTING"
                      /\ EntriesOf(cur) \subseteq synced \cup todo
  /\ op = "abort" => /\ cur \in Id /\ state[cur] = "ABORTED"
                     /\ todo \subseteq EntriesOf(cur)
  /\ op = "recover" =>
       /\ cur = None => todo = {}
       /\ cur \in Id => /\ Unsettled(cur)
                        /\ state[cur] = "COMMITTING" =>
                             EntriesOf(cur) \subseteq synced \cup damaged \cup todo
       /\ \A t \in Id : Unsettled(t) => t \in rest \cup {cur}

\* What journal_checkpoint has dropped is as durable as what is still COMMITTED.
KeptIsSynced ==
  \A t \in Id : state[t] \in {"COMMITTED", "ABSENT"} => EntriesOf(t) \subseteq synced \cup damaged

\* Ids that current_transaction_id has not reached name nothing.
FreshIds == \A t \in Id : t >= next_id => state[t] = "ABSENT" /\ EntriesOf(t) = {}

IInv == TypeOK /\ OpenIsPending /\ KeptIsSynced /\ FreshIds /\ CallInv

-----------------------------------------------------------------------------

\* The initial journal satisfies the invariant: it has no transactions.
LEMMA InitIInv == Init => IInv
<1> SUFFICES ASSUME Init PROVE IInv
  OBVIOUS
<1> USE JournalAssumption
<1>1. TypeOK BY DEF Init, TypeOK, Id, Entry, State, None
<1>2. \A t \in Id : state[t] = "ABSENT" BY DEF Init
<1>3. OpenIsPending /\ KeptIsSynced /\ FreshIds
  BY <1>2 DEF Init, OpenIsPending, KeptIsSynced, FreshIds, EntriesOf, Unsettled
<1>4. CallInv BY DEF Init, CallInv
<1> QED BY <1>1, <1>3, <1>4 DEF IInv

\* Ids start at one, so that None is not an id.
LEMMA NoneIsNoId == None \notin Id
BY JournalAssumption DEF None, Id

\* Every step keeps the journal well typed.
LEMMA TypeStep == TypeOK /\ CallInv /\ [Next]_vars => TypeOK'
<1> SUFFICES ASSUME TypeOK, CallInv, [Next]_vars PROVE TypeOK'
  OBVIOUS
<1> USE NoneIsNoId DEF TypeOK
<1>0. \A t : EntriesOf(t) \subseteq Entry
  BY JournalAssumption DEF EntriesOf, Entry
<1>1. CASE journal_begin_transaction
  <2>1. next_id \in Id /\ next_id + 1 \in 1..(MaxId + 1)
    BY <1>1, JournalAssumption DEF journal_begin_transaction, Id
  <2> QED BY <1>1, <2>1 DEF journal_begin_transaction, call, log, State
<1>2. ASSUME NEW t \in Id, journal_add_entry(t) PROVE TypeOK'
  <2>1. entry_count + 1 \in Entry /\ entry_count + 1 \in 0..MaxEntries
    BY <1>2, JournalAssumption DEF journal_add_entry, Entry
  <2> QED BY <1>2, <2>1 DEF journal_add_entry, call
<1>3. ASSUME NEW t \in Id, journal_commit_transaction(t) PROVE TypeOK'
  BY <1>3, <1>0 DEF journal_commit_transaction, Enter, log, State
<1>4. ASSUME NEW t \in Id, journal_abort_transaction(t) PROVE TypeOK'
  BY <1>4, <1>0 DEF journal_abort_transaction, Enter, log, State
<1>5. ASSUME NEW t \in Id, RecoverVisit(t) PROVE TypeOK'
  BY <1>5, <1>0 DEF RecoverVisit, log
<1>6. ASSUME NEW e \in Entry, CommitEntry(e) \/ AbortEntry(e) \/ RecoverEntry(e)
      PROVE TypeOK'
  BY <1>6 DEF CommitEntry, AbortEntry, RecoverEntry, Visited, log
<1>7. CASE CommitEnd
  BY <1>7 DEF CommitEnd, Return, log, State
<1>8. CASE AbortEnd \/ RecoverEnd
  BY <1>8 DEF AbortEnd, RecoverEnd, Return, log
<1>9. CASE journal_checkpoint
  BY <1>9 DEF journal_checkpoint, call, log, State
<1>10. CASE journal_sync_to_disk
  <2>1. 1..entry_count \subseteq Entry
    BY JournalAssumption DEF Entry
  <2> QED BY <1>10, <2>1 DEF journal_sync_to_disk, call, log
<1>11. ASSUME NEW m \in Mode, journal_set_mode(m) PROVE TypeOK'
  BY <1>11 DEF journal_set_mode, call, log
<1>12. CASE journal_recover
  BY <1>12 DEF journal_recover, log
<1>13. CASE RecoverSettle
  BY <1>13 DEF RecoverSettle, log, State
<1>14. ASSUME NEW torn \in SUBSET Entry, Crash(torn) PROVE TypeOK'
  BY <1>14 DEF Crash, Return, log
<1>15. CASE UNCHANGED vars
  BY <1>15 DEF vars, call, log
<1> QED
  BY <1>1, <1>2, <1>3, <1>4, <1>5, <1>6, <1>7, <1>8, <1>9, <1>10, <1>11, <1>12,
     <1>13, <1>14, <1>15 DEF Next

\* Every step keeps open transactions pending: a step that opens one sets its
\* flag and a step that clears the flag has ended the transaction.
LEMMA PendingStep == IInv /\ [Next]_vars => OpenIsPending'
<1> SUFFICES ASSUME IInv, [Next]_vars PROVE OpenIsPending'
  OBVIOUS
<1> USE DEF IInv, TypeOK, OpenIsPending, Unsettled
<1>1. CASE journal_begin_transaction
  BY <1>1 DEF journal_begin_transaction
<1>2. ASSUME NEW t \in Id, journal_commit_transaction(t) \/ journal_abort_transaction(t)
      PROVE OpenIsPending'
  BY <1>2 DEF journal_commit_transaction, journal_abort_transaction
<1>3. CASE CommitEnd \/ RecoverSettle
  BY <1>3 DEF CommitEnd, RecoverSettle
<1>4. CASE journal_checkpoint
  BY <1>4 DEF journal_checkpoint
<1>5. CASE UNCHANGED <<state, in_progress>>
  BY <1>5
<1> QED
  BY <1>1, <1>2, <1>3, <1>4, <1>5
  DEF Next, vars, journal_add_entry, RecoverVisit, CommitEntry, AbortEntry, RecoverEntry,
      AbortEnd, journal_sync_to_disk, journal_set_mode, journal_recover, RecoverEnd, Crash

\* A call that leaves the log alone leaves every transaction's entries alone.
LEMMA SameEntries == UNCHANGED log => \A t : EntriesOf(t)' = EntriesOf(t)
BY DEF log, EntriesOf

\* The entries of a transaction grow only through journal_add_entry, by the next
\* free slot of the log, which belonged to no transaction.
LEMMA AddedEntry ==
  ASSUME TypeOK, NEW t \in Id, journal_add_entry(t)
  PROVE  /\ entry_count + 1 \in Entry
         /\ \A u \in Id : entry_count + 1 \notin EntriesOf(u)
         /\ \A u \in Id : EntriesOf(u)' = IF u = t THEN EntriesOf(u) \cup {entry_count + 1}
                                                   ELSE EntriesOf(u)
<1>1. entry_count \in Nat /\ entry_count + 1 \in Entry
  BY JournalAssumption DEF journal_add_entry, TypeOK, Entry
<1>2. \A u \in Id : entry_count + 1 \notin EntriesOf(u)
  BY <1>1 DEF EntriesOf
<1>3. ASSUME NEW u \in Id
      PROVE EntriesOf(u)' = IF u = t THEN EntriesOf(u) \cup {entry_count + 1} ELSE EntriesOf(u)
  <2>1. 1..(entry_count + 1) = 1..entry_count \cup {entry_count + 1}
    BY <1>1
  <2>2. \A e \in 1..entry_count : e \in Entry /\ e # entry_count + 1
    BY <1>1, JournalAssumption DEF Entry
  <2> QED BY <1>1, <2>1, <2>2 DEF journal_add_entry, TypeOK, EntriesOf
<1> QED BY <1>1, <1>2, <1>3

\* Every step keeps committed and forgotten transactions synced.  CommitEnd and
\* RecoverSettle rely on CallInv; abort un-syncs entries of an ABORTED one only.
LEMMA KeptStep == IInv /\ [Next]_vars => KeptIsSynced'
<1> SUFFICES ASSUME IInv, [Next]_vars PROVE KeptIsSynced'
  OBVIOUS
<1> USE NoneIsNoId, SameEntries DEF IInv, TypeOK, KeptIsSynced
<1>1. CASE journal_begin_transaction
  BY <1>1 DEF journal_begin_transaction
<1>2. ASSUME NEW t \in Id, journal_add_entry(t) PROVE KeptIsSynced'
  BY <1>2, AddedEntry DEF journal_add_entry
<1>3. ASSUME NEW t \in Id, journal_commit_transaction(t) \/ journal_abort_transaction(t)
      PROVE KeptIsSynced'
  BY <1>3 DEF journal_commit_transaction, journal_abort_transaction
<1>4. ASSUME NEW t \in Id, RecoverVisit(t) PROVE KeptIsSynced'
  BY <1>4 DEF RecoverVisit
<1>5. ASSUME NEW e \in Entry, CommitEntry(e) \/ RecoverEntry(e) PROVE KeptIsSynced'
  BY <1>5 DEF CommitEntry, RecoverEntry
<1>6. ASSUME NEW e \in Entry, AbortEntry(e) PROVE KeptIsSynced'
  <2>1. state[cur] = "ABORTED" /\ e \in EntriesOf(cur)
    BY <1>6 DEF AbortEntry, First, CallInv
  <2>2. \A u \in Id : state[u] \in {"COMMITTED", "ABSENT"} => e \notin EntriesOf(u)
    BY <2>1 DEF EntriesOf
  <2> QED BY <1>6, <2>2 DEF AbortEntry
<1>7. CASE CommitEnd
  BY <1>7 DEF CommitEnd, CallInv
<1>8. CASE RecoverSettle
  <2>1. cur \in Id /\ Unsettled(cur)
    BY <1>8 DEF RecoverSettle, CallInv
  <2>2. state[cur] = "COMMITTING" => EntriesOf(cur) \subseteq synced \cup damaged
    BY <1>8, <2>1 DEF RecoverSettle, CallInv
  <2> QED BY <1>8, <2>1, <2>2 DEF RecoverSettle, Unsettled
<1>9. CASE journal_checkpoint
  BY <1>9 DEF journal_checkpoint
<1>10. CASE journal_sync_to_disk
  <2>1. synced' = 1..entry_count /\ \A t : EntriesOf(t)' = EntriesOf(t)
    BY <1>10 DEF journal_sync_to_disk
  <2>2. \A t : EntriesOf(t) \subseteq 1..entry_count
    BY DEF EntriesOf
  <2> QED BY <2>1, <2>2
<1>11. ASSUME NEW torn \in SUBSET Entry, Crash(torn) PROVE KeptIsSynced'
  BY <1>11 DEF Crash
<1>12. CASE UNCHANGED <<state, log, synced, damaged>>
  BY <1>12
<1> QED
  BY <1>1, <1>2, <1>3, <1>4, <1>5, <1>6, <1>7, <1>8, <1>9, <1>10, <1>11, <1>12
  DEF Next, vars, AbortEnd, journal_set_mode, journal_recover, RecoverEnd

\* Every step leaves ids that were not given out yet unused.
LEMMA FreshStep == IInv /\ [Next]_vars => FreshIds'
<1> SUFFICES ASSUME IInv, [Next]_vars PROVE FreshIds'
  OBVIOUS
<1> USE NoneIsNoId, SameEntries DEF IInv, TypeOK, FreshIds
<1>0. Id \subseteq Nat /\ next_id \in Nat
  BY JournalAssumption DEF Id
<1>1. CASE journal_begin_transaction
  BY <1>0, <1>1 DEF journal_begin_transaction
<1>2. ASSUME NEW t \in Id, journal_add_entry(t) PROVE FreshIds'
  BY <1>2, AddedEntry DEF journal_add_entry
<1>3. ASSUME NEW t \in Id, journal_commit_transaction(t) \/ journal_abort_transaction(t)
      PROVE FreshIds'
  BY <1>3 DEF journal_commit_transaction, journal_abort_transaction
<1>4. CASE CommitEnd \/ RecoverSettle
  <2>1. cur \in Id /\ state[cur] # "ABSENT"
    BY <1>4 DEF CommitEnd, RecoverSettle, CallInv, Unsettled
  <2> QED BY <1>4, <2>1 DEF CommitEnd, RecoverSettle
<1>5. CASE journal_checkpoint
  BY <1>5 DEF journal_checkpoint
<1>6. CASE UNCHANGED <<state, next_id, log>>
  BY <1>6
<1> QED
  BY <1>1, <1>2, <1>3, <1>4, <1>5, <1>6
  DEF Next, vars, RecoverVisit, CommitEntry, AbortEntry, RecoverEntry,
      AbortEnd, journal_sync_to_disk, journal_set_mode, journal_recover, RecoverEnd, Crash

\* Every step keeps the record of where the call under way stands.
LEMMA CallStep == IInv /\ [Next]_vars => CallInv'
<1> SUFFICES ASSUME IInv, [Next]_vars PROVE CallInv'
  OBVIOUS
<1> USE NoneIsNoId, SameEntries DEF IInv, TypeOK, CallInv
<1>1. CASE journal_begin_transaction
  BY <1>1 DEF journal_begin_transaction, call
<1>2. ASSUME NEW t \in Id, journal_add_entry(t) PROVE CallInv'
  BY <1>2 DEF journal_add_entry, call
<1>3. ASSUME NEW t \in Id, journal_commit_transaction(t) PROVE CallInv'
  BY <1>3 DEF journal_commit_transaction, Enter
<1>4. ASSUME NEW t \in Id, journal_abort_transaction(t) PROVE CallInv'
  BY <1>4 DEF journal_abort_transaction, Enter
<1>5. ASSUME NEW t \in Id, RecoverVisit(t) PROVE CallInv'
  BY <1>5 DEF RecoverVisit, Unsettled
<1>6. ASSUME NEW e \in Entry, CommitEntry(e) PROVE CallInv'
  BY <1>6 DEF CommitEntry, Visited
<1>7. ASSUME NEW e \in Entry, AbortEntry(e) PROVE CallInv'
  BY <1>7 DEF AbortEntry, Visited
<1>8. ASSUME NEW e \in Entry, RecoverEntry(e) PROVE CallInv'
  BY <1>8 DEF RecoverEntry, Visited, First, Unsettled
<1>9. CASE CommitEnd \/ AbortEnd \/ RecoverEnd
  BY <1>9 DEF CommitEnd, AbortEnd, RecoverEnd, Return
<1>10. CASE journal_checkpoint
  BY <1>10 DEF journal_checkpoint, call
<1>11. CASE journal_sync_to_disk
  BY <1>11 DEF journal_sync_to_disk, call
<1>12. ASSUME NEW m \in Mode, journal_set_mode(m) PROVE CallInv'
  BY <1>12 DEF journal_set_mode, call
<1>13. CASE journal_recover
  BY <1>13 DEF journal_recover, Unsettled
<1>14. CASE RecoverSettle
  BY <1>14 DEF RecoverSettle, Unsettled
<1>15. ASSUME NEW torn \in SUBSET Entry, Crash(torn) PROVE CallInv'
  BY <1>15 DEF Crash, Return
<1>16. CASE UNCHANGED vars
  BY <1>16 DEF vars, call, log, Unsettled, EntriesOf
<1> QED
  BY <1>1, <1>2, <1>3, <1>4, <1>5, <1>6, <1>7, <1>8, <1>9, <1>10, <1>11, <1>12,
     <1>13, <1>14, <1>15, <1>16 DEF Next

-----------------------------------------------------------------------------

\* The inductive invariant holds in every state of fs_journal.c's journal.
THEOREM Invariance == Spec => []IInv
<1>1. IInv /\ [Next]_vars => IInv'
  BY TypeStep, PendingStep, KeptStep, FreshStep, CallStep DEF IInv
<1> QED BY InitIInv, <1>1, PTL DEF Spec

\* The journal stays within its arrays, for every size of them.
THEOREM TypeCorrect == Spec => []TypeOK
BY Invariance, PTL DEF IInv

\* After a commit, or after any crashes and recoveries that ended in COMMITTED,
\* every entry of the transaction is synced or was damaged by a crash.
THEOREM Durability == Spec => []CommittedIsSynced
<1>1. IInv => CommittedIsSynced
  BY DEF IInv, KeptIsSynced, CommittedIsSynced
<1> QED BY Invariance, <1>1, PTL

\* journal_recover misses no open transaction.
THEOREM RecoveryComplete == Spec => []RecoverySettles
<1>1. IInv => RecoverySettles
  BY NoneIsNoId DEF IInv, CallInv, RecoverySettles
<1> QED BY Invariance, <1>1, PTL

\* journal_checkpoint forgets durable transactions only.
THEOREM CheckpointSafe == Spec => ForgottenOnlyWhenDurable
<1>1. IInv /\ [Next]_vars =>
        [\A t \in Id : state[t] # "ABSENT" /\ state'[t] = "ABSENT" =>
           state[t] = "COMMITTED" /\ EntriesOf(t) \subseteq synced \cup damaged]_vars
  <2> SUFFICES ASSUME IInv, [Next]_vars, NEW t \in Id,
                      state[t] # "ABSENT", state'[t] = "ABSENT"
               PROVE  state[t] = "COMMITTED"
    BY DEF IInv, KeptIsSynced
  <2>1. journal_checkpoint
    BY DEF IInv, TypeOK, Next, vars, journal_begin_transaction, journal_add_entry,
           journal_commit_transaction, journal_abort_transaction, RecoverVisit, CommitEntry,
           AbortEntry, RecoverEntry, CommitEnd, AbortEnd, journal_sync_to_disk,
           journal_set_mode, journal_recover, RecoverSettle, RecoverEnd, Crash
  <2> QED BY <2>1 DEF journal_checkpoint
<1> QED BY Invariance, <1>1, PTL DEF Spec, ForgottenOnlyWhenDurable

\* The mode is never changed under an open transaction.
THEOREM ModeStable == Spec => ModeStableWhileOpen
<1>1. IInv /\ [Next]_vars => [mode' # mode => \A t \in Id : ~Unsettled(t)]_vars
  <2> SUFFICES ASSUME IInv, [Next]_vars, mode' # mode
               PROVE  \A t \in Id : ~Unsettled(t)
    OBVIOUS
  <2>1. PICK m \in Mode : journal_set_mode(m)
    BY DEF Next, vars, journal_begin_transaction, journal_add_entry,
           journal_commit_transaction, journal_abort_transaction, RecoverVisit, CommitEntry,
           AbortEntry, RecoverEntry, CommitEnd, AbortEnd, journal_sync_to_disk,
           journal_checkpoint, journal_recover, RecoverSettle, RecoverEnd, Crash
  <2> QED BY <2>1 DEF journal_set_mode, IInv, OpenIsPending, Unsettled
<1> QED BY Invariance, <1>1, PTL DEF Spec, ModeStableWhileOpen

\* EndIsFinal for one transaction and one step.
Final(t) ==
  /\ state[t] \in {"COMMITTED", "ABORTED"} => ~Unsettled(t)'
  /\ state[t] = "ABORTED" => state'[t] = "ABORTED"
  /\ state[t] = "RUNNING" => state'[t] # "COMMITTED"
  /\ state[t] \in {"COMMITTED", "ABORTED"} /\ in_progress[t] =>
       /\ mode' = mode
       /\ \/ state'[t] = state[t] /\ in_progress'[t]
          \/ state'[t] = "ABORTED" /\ ~in_progress'[t]

\* A step ends a transaction for good, one that recovery settled included.
LEMMA FinalStep == ASSUME IInv, Next, NEW t \in Id PROVE Final(t)
<1> USE DEF Final, Unsettled
<1>0. state \in [Id -> State] /\ in_progress \in [Id -> BOOLEAN] BY DEF IInv, TypeOK
<1>1. CASE UNCHANGED <<state, in_progress, mode>> BY <1>1
<1>2. CASE journal_begin_transaction
  <2>1. next_id \in Id /\ next_id >= next_id BY <1>2, JournalAssumption DEF journal_begin_transaction, IInv, TypeOK, Id
  <2>2. state[next_id] = "ABSENT" BY <2>1 DEF IInv, FreshIds
  <2> QED BY <1>0, <1>2, <2>1, <2>2 DEF journal_begin_transaction
<1>3. ASSUME NEW u \in Id, journal_commit_transaction(u) PROVE Final(t)
  BY <1>0, <1>3 DEF journal_commit_transaction
<1>4. ASSUME NEW u \in Id, journal_abort_transaction(u) PROVE Final(t)
  BY <1>0, <1>4 DEF journal_abort_transaction
<1>5. CASE CommitEnd
  <2>1. cur \in Id /\ state[cur] = "COMMITTING" BY <1>5 DEF CommitEnd, IInv, CallInv
  <2> QED BY <1>0, <1>5, <2>1 DEF CommitEnd
<1>6. CASE journal_checkpoint BY <1>0, <1>6 DEF journal_checkpoint
<1>7. CASE RecoverSettle
  <2>1. cur \in Id BY <1>7 DEF RecoverSettle, IInv, TypeOK
  <2>2. state[cur] \in {"RUNNING", "COMMITTING"} BY <1>7, <2>1 DEF RecoverSettle, IInv, CallInv
  <2> QED BY <1>0, <1>7, <2>1, <2>2 DEF RecoverSettle
<1>8. ASSUME NEW m \in Mode, journal_set_mode(m) PROVE Final(t)
  <2>1. state[t] # "ABSENT" => ~in_progress[t] BY <1>8 DEF journal_set_mode
  <2>2. UNCHANGED <<state, in_progress>> BY <1>8 DEF journal_set_mode
  <2> QED BY <2>1, <2>2
<1> QED
  BY <1>1, <1>2, <1>3, <1>4, <1>5, <1>6, <1>7, <1>8
  DEF Next, journal_add_entry, RecoverVisit, CommitEntry, AbortEntry, RecoverEntry, AbortEnd,
      journal_sync_to_disk, journal_recover, RecoverEnd, Crash

\* No call revives a transaction that ended, recovery commits none that was still
\* running, and what it settled stays with its in_progress flag until it is aborted.
THEOREM EndFinal == Spec => EndIsFinal
<1>1. IInv /\ [Next]_vars => [\A t \in Id : Final(t)]_vars BY FinalStep
<1> QED BY Invariance, <1>1, PTL DEF Spec, EndIsFinal, Final

-----------------------------------------------------------------------------

\* How the state of a transaction is seen from outside.
LEMMA StatusOf ==
  ASSUME TypeOK, NEW t \in Id
  PROVE  /\ Unsettled(t) <=> Status[t] = "open"
         /\ state[t] = "COMMITTED" <=> Status[t] = "committed"
         /\ state[t] = "ABORTED" <=> Status[t] = "aborted"
         /\ state[t] = "ABSENT" /\ t < next_id <=> Status[t] = "gone"
         /\ state[t] = "ABSENT" /\ ~(t < next_id) <=> Status[t] = "none"
BY DEF TypeOK, State, Status, View, Unsettled

\* An entry belongs to one transaction and lies in the log.
LEMMA OneOwner ==
  ASSUME TypeOK
  PROVE  /\ \A t \in Id : EntriesOf(t) \subseteq Entry
         /\ \A t, u \in Id : t # u => EntriesOf(t) \cap EntriesOf(u) = {}
BY JournalAssumption DEF TypeOK, EntriesOf, Entry

\* What is durable is all that committed and forgotten transactions have, except
\* what a crash damaged: which entries are marked synced tells nothing more.
DurableIsKept ==
  \A e : e \in Durable <=>
    /\ e \notin damaged
    /\ \E t \in Id : e \in EntriesOf(t) /\ Status[t] \in {"committed", "gone"}

\* Marks on open and aborted transactions do not show, and those on the others
\* are complete.
LEMMA DurableKept == IInv => DurableIsKept
<1> SUFFICES ASSUME IInv PROVE DurableIsKept
  OBVIOUS
<1>1. ASSUME NEW t \in Id, Status[t] \in {"committed", "gone"}
      PROVE  EntriesOf(t) \subseteq synced \cup damaged
  BY <1>1, StatusOf DEF IInv, KeptIsSynced
<1> QED BY <1>1 DEF Durable, DurableIsKept

Seen == <<Status, [t \in Id |-> EntriesOf(t)], damaged, Durable>>

\* A step that changes neither the states nor the log nor what is damaged is
\* invisible from outside, whatever it marks synced or not.
LEMMA Invisible ==
  ASSUME DurableIsKept, DurableIsKept', UNCHANGED <<Status, log, damaged>>
  PROVE  UNCHANGED Seen
<1>1. \A t \in Id : EntriesOf(t)' = EntriesOf(t)
  BY SameEntries
<1>2. Durable' = Durable
  BY <1>1 DEF DurableIsKept
<1> QED BY <1>1, <1>2 DEF Seen

\* A step that changes the state of one transaction is seen as that.
LEMMA OneSeen ==
  ASSUME NEW t \in Id,
         \A u \in Id \ {t} : state'[u] = state[u] /\ (u < next_id' <=> u < next_id)
  PROVE  /\ Status' = [Status EXCEPT ![t] = View(state'[t], t < next_id')]
         /\ Status'[t] = View(state'[t], t < next_id')
         /\ \A u \in Id \ {t} : Status'[u] = Status[u]
BY DEF Status, View

\* What a change in how one transaction is seen does to what is durable.
LEMMA OneChange ==
  ASSUME TypeOK, DurableIsKept, DurableIsKept', UNCHANGED <<log, damaged>>,
         NEW t \in Id, \A u \in Id \ {t} : Status'[u] = Status[u]
  PROVE  /\ Status'[t] \in {"committed", "gone"} => Durable' = Durable \cup (EntriesOf(t) \ damaged)
         /\ Status'[t] \notin {"committed", "gone"} => Durable' = Durable \ EntriesOf(t)
         /\ Status[t] \notin {"committed", "gone"} => Durable \ EntriesOf(t) = Durable
<1>1. \A u \in Id : EntriesOf(u)' = EntriesOf(u)
  BY SameEntries
<1>2. \A e \in EntriesOf(t) : \A u \in Id \ {t} : e \notin EntriesOf(u)
  BY OneOwner
<1>3. Status'[t] \in {"committed", "gone"} => Durable' = Durable \cup (EntriesOf(t) \ damaged)
  BY <1>1, <1>2 DEF DurableIsKept
<1>4. Status'[t] \notin {"committed", "gone"} => Durable' = Durable \ EntriesOf(t)
  BY <1>1, <1>2 DEF DurableIsKept
<1>5. Status[t] \notin {"committed", "gone"} => Durable \ EntriesOf(t) = Durable
  BY <1>1, <1>2 DEF DurableIsKept
<1> QED BY <1>3, <1>4, <1>5

\* Every step of the journal is one instant of the log, or does not show.
LEMMA LogStep ==
  ASSUME IInv, IInv', DurableIsKept, DurableIsKept', [Next]_vars
  PROVE  [Log!Next]_Seen
<1>a. Id \subseteq Nat /\ next_id \in Nat
  BY JournalAssumption DEF Id, IInv, TypeOK
<1>b. TypeOK /\ CallInv /\ FreshIds /\ state \in [Id -> State]
  BY DEF IInv, TypeOK
<1>c. UNCHANGED log => UNCHANGED [t \in Id |-> EntriesOf(t)]
  BY SameEntries
<1>1. CASE journal_begin_transaction
  <2>1. next_id \in Id
    BY <1>1, <1>a, <1>b, JournalAssumption DEF journal_begin_transaction, Id, TypeOK
  <2>2. Status[next_id] = "none"
    BY <1>a, <1>b, <2>1 DEF FreshIds, Status, View
  <2>3. /\ Status' = [Status EXCEPT ![next_id] = "open"] /\ Status'[next_id] = "open"
        /\ \A u \in Id \ {next_id} : Status'[u] = Status[u]
    <3>1. \A u \in Id \ {next_id} : state'[u] = state[u] /\ (u < next_id' <=> u < next_id)
      BY <1>1, <1>a, <1>b DEF journal_begin_transaction
    <3>2. View(state'[next_id], next_id < next_id') = "open"
      BY <1>1, <1>b, <2>1 DEF journal_begin_transaction, View
    <3> QED BY <2>1, <3>1, <3>2, OneSeen
  <2>4. UNCHANGED <<log, damaged>>
    BY <1>1 DEF journal_begin_transaction
  <2>5. Durable' = Durable
    BY <1>b, <2>1, <2>2, <2>3, <2>4, OneChange
  <2>6. Log!Begin(next_id)
    BY <1>c, <2>2, <2>3, <2>4, <2>5 DEF Log!Begin
  <2> QED BY <2>1, <2>6 DEF Log!Next
<1>2. ASSUME NEW t \in Id, journal_add_entry(t) PROVE Log!Next
  <2> DEFINE e == entry_count + 1
  <2>1. /\ e \in Entry /\ \A u \in Id : e \notin EntriesOf(u)
        /\ \A u \in Id : EntriesOf(u)' = IF u = t THEN EntriesOf(u) \cup {e} ELSE EntriesOf(u)
    BY <1>b, <1>2, AddedEntry
  <2>2. Status' = Status /\ damaged' = damaged
    BY <1>2 DEF journal_add_entry, Status
  <2>3. Status[t] = "open"
    BY <1>2, <1>b, StatusOf DEF journal_add_entry, Unsettled
  <2> HIDE DEF e
  <2>4. Durable' = Durable
    <3>1. \A u \in Id : Status[u] \in {"committed", "gone"} => EntriesOf(u)' = EntriesOf(u)
      BY <2>1, <2>3
    <3> QED BY <3>1, <2>2 DEF DurableIsKept
  <2>5. Log!Add(t, e)
    BY <2>1, <2>2, <2>3, <2>4 DEF Log!Add
  <2> QED BY <2>1, <2>5 DEF Log!Next
<1>3. ASSUME NEW t \in Id, journal_commit_transaction(t) PROVE UNCHANGED Seen
  <2>1. \A u \in Id : View(state'[u], u < next_id') = View(state[u], u < next_id)
    BY <1>3, <1>b DEF journal_commit_transaction, View
  <2>2. UNCHANGED <<Status, log, damaged>>
    BY <1>3, <2>1 DEF journal_commit_transaction, Status
  <2> QED BY <2>2, Invisible
<1>4. ASSUME NEW t \in Id, UNCHANGED <<next_id, log, damaged>>,
             state[t] # "ABSENT", state' = [state EXCEPT ![t] = "ABORTED"]
      PROVE  Log!Next
  <2>1. /\ Status' = [Status EXCEPT ![t] = "aborted"] /\ Status'[t] = "aborted"
        /\ \A u \in Id \ {t} : Status'[u] = Status[u]
    <3>1. View(state'[t], t < next_id') = "aborted"
      BY <1>4, <1>b DEF View
    <3>2. \A u \in Id \ {t} : state'[u] = state[u] /\ (u < next_id' <=> u < next_id)
      BY <1>4, <1>b
    <3> QED BY <3>1, <3>2, OneSeen
  <2>2. Durable' = Durable \ EntriesOf(t)
    BY <1>b, <1>4, <2>1, OneChange
  <2>3. Status[t] \in {"open", "committed", "aborted"}
    BY <1>4, <1>b DEF Status, View
  <2>4. Log!Abort(t)
    BY <1>4, <1>c, <2>1, <2>2, <2>3 DEF Log!Abort
  <2> QED BY <2>4 DEF Log!Next
<1>5. ASSUME cur \in Id, UNCHANGED <<next_id, log, damaged>>,
             Unsettled(cur), state' = [state EXCEPT ![cur] = "COMMITTED"]
      PROVE  Log!Next
  <2>1. /\ Status' = [Status EXCEPT ![cur] = "committed"] /\ Status'[cur] = "committed"
        /\ \A u \in Id \ {cur} : Status'[u] = Status[u]
    <3>1. View(state'[cur], cur < next_id') = "committed"
      BY <1>5, <1>b DEF View
    <3>2. \A u \in Id \ {cur} : state'[u] = state[u] /\ (u < next_id' <=> u < next_id)
      BY <1>5, <1>b
    <3> QED BY <1>5, <3>1, <3>2, OneSeen
  <2>2. Durable' = Durable \cup (EntriesOf(cur) \ damaged)
    BY <1>b, <1>5, <2>1, OneChange
  <2>3. Status[cur] = "open"
    BY <1>5, <1>b, StatusOf
  <2>4. Log!Commit(cur)
    BY <1>5, <1>c, <2>1, <2>2, <2>3 DEF Log!Commit
  <2> QED BY <1>5, <2>4 DEF Log!Next
<1>6. ASSUME NEW t \in Id, journal_abort_transaction(t) PROVE Log!Next
  BY <1>4, <1>6 DEF journal_abort_transaction, Enter
<1>7. CASE CommitEnd
  BY <1>5, <1>7, <1>b DEF CommitEnd, CallInv, Unsettled
<1>8. CASE RecoverSettle
  <2>1. cur \in Id /\ Unsettled(cur)
    BY <1>8, <1>b DEF RecoverSettle, CallInv, TypeOK
  <2>2. CASE state[cur] = "COMMITTING"
    BY <1>5, <1>8, <1>b, <2>1, <2>2 DEF RecoverSettle
  <2>3. CASE state[cur] = "RUNNING"
    BY <1>4, <1>8, <1>b, <2>1, <2>3 DEF RecoverSettle
  <2> QED BY <2>1, <2>2, <2>3 DEF Unsettled
<1>9. CASE journal_checkpoint
  <2> DEFINE ended == {t \in Id : state[t] = "COMMITTED" /\ ~in_progress[t]}
  <2>1. \A t \in ended : Status[t] = "committed"
    BY <1>b, StatusOf
  <2>2. \A t \in Id : state[t] # "ABSENT" => t < next_id
    BY <1>a, <1>b DEF FreshIds
  <2>3. \A t \in Id : Status'[t] = IF t \in ended THEN "gone" ELSE Status[t]
    BY <1>9, <1>b, <2>2 DEF journal_checkpoint, Status, View
  <2>4. Status' = [t \in Id |-> IF t \in ended THEN "gone" ELSE Status[t]]
    BY <2>3 DEF Status
  <2>5. UNCHANGED <<log, damaged>>
    BY <1>9 DEF journal_checkpoint
  <2>6. ended \subseteq Id
    OBVIOUS
  <2> HIDE DEF ended
  <2>7. \A t \in Id : EntriesOf(t)' = EntriesOf(t)
    BY <2>5, SameEntries
  <2>8. Durable' = Durable
    BY <2>1, <2>3, <2>5, <2>7 DEF DurableIsKept
  <2>9. Log!Forget(ended)
    BY <1>c, <2>1, <2>4, <2>5, <2>8 DEF Log!Forget
  <2> QED BY <2>6, <2>9 DEF Log!Next
<1>10. ASSUME NEW torn \in SUBSET Entry, Crash(torn) PROVE Log!Next
  <2>1. UNCHANGED <<Status, log, synced>> /\ damaged' = damaged \cup torn /\ torn \cap synced = {}
    BY <1>10 DEF Crash, Status
  <2>2. torn \cap Durable = {}
    BY <2>1 DEF Durable
  <2>3. \A t \in Id : EntriesOf(t)' = EntriesOf(t)
    BY <2>1, SameEntries
  <2>a. (synced \ damaged)' = synced \ damaged
    BY <2>1
  <2>4. Durable' = Durable
    BY <2>1, <2>3, <2>a, Zenon DEF Durable
  <2>5. Log!Tear(torn)
    BY <1>c, <2>1, <2>2, <2>4 DEF Log!Tear
  <2> QED BY <2>5 DEF Log!Next
<1>11. CASE UNCHANGED <<state, next_id, log, damaged>>
  <2>1. UNCHANGED <<Status, log, damaged>>
    BY <1>11 DEF Status
  <2> QED BY <2>1, Invisible
<1> QED
  BY <1>1, <1>2, <1>3, <1>6, <1>7, <1>8, <1>9, <1>10, <1>11
  DEF Next, vars, RecoverVisit, CommitEntry, AbortEntry, RecoverEntry,
      AbortEnd, journal_sync_to_disk, journal_set_mode, journal_recover, RecoverEnd

\* The journal with its steps and crashes implements a log whose transactions end
\* at one instant, for every size of its tables.
THEOREM ImplementsLog == Spec => ImplementsDurableLog
<1>1. Init => Log!Init
  <2> SUFFICES ASSUME Init PROVE Log!Init
    OBVIOUS
  <2>1. \A t \in Id : state[t] = "ABSENT" /\ ~(t < next_id) /\ EntriesOf(t) = {}
    BY JournalAssumption DEF Init, Id, EntriesOf
  <2>2. Status = [t \in Id |-> "none"]
    BY <2>1 DEF Status, View
  <2> QED BY <2>1, <2>2 DEF Init, Durable, Log!Init
<1>2. IInv /\ IInv' /\ DurableIsKept /\ DurableIsKept' /\ [Next]_vars => [Log!Next]_Seen
  BY LogStep
<1> QED BY <1>1, <1>2, Invariance, DurableKept, PTL DEF Spec, ImplementsDurableLog, Log!Spec, Seen
=============================================================================
