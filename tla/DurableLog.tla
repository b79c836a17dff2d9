----------------------------- MODULE DurableLog -----------------------------
(***************************************************************************)
(* What the journal of fs/fs_journal.c promises to whoever never looks     *)
(* inside a call: a transaction ends at one instant.  Its entries become   *)
(* durable all together, except those a crash destroyed before, and stop   *)
(* being durable only all together, when the transaction is aborted; a     *)
(* crash takes nothing that is durable.                                    *)
(***************************************************************************)
CONSTANTS Id, Entry

VARIABLES
  status,    \* per transaction: "none", "open", "committed", "aborted" or "gone"
  members,   \* the entries of each transaction
  lost,      \* entries whose data a crash destroyed
  durable    \* entries that survive every later crash

Init ==
  /\ status = [t \in Id |-> "none"] /\ members = [t \in Id |-> {}]
  /\ lost = {} /\ durable = {}

Begin(t) ==
  /\ status[t] = "none" /\ status' = [status EXCEPT ![t] = "open"]
  /\ UNCHANGED <<members, lost, durable>>

Add(t, e) ==
  /\ status[t] = "open" /\ \A u \in Id : e \notin members[u]
  /\ members' = [members EXCEPT ![t] = @ \cup {e}]
  /\ UNCHANGED <<status, lost, durable>>

Commit(t) ==
  /\ status[t] = "open" /\ status' = [status EXCEPT ![t] = "committed"]
  /\ durable' = durable \cup (members[t] \ lost)
  /\ UNCHANGED <<members, lost>>

\* A committed transaction may be taken back as long as it is not forgotten.
Abort(t) ==
  /\ status[t] \in {"open", "committed", "aborted"}
  /\ status' = [status EXCEPT ![t] = "aborted"]
  /\ durable' = durable \ members[t]
  /\ UNCHANGED <<members, lost>>

Forget(ended) ==
  /\ \A t \in ended : status[t] = "committed"
  /\ status' = [t \in Id |-> IF t \in ended THEN "gone" ELSE status[t]]
  /\ UNCHANGED <<members, lost, durable>>

Tear(torn) ==
  /\ torn \cap durable = {} /\ lost' = lost \cup torn
  /\ UNCHANGED <<status, members, durable>>

Next ==
  \/ \E t \in Id : Begin(t) \/ Commit(t) \/ Abort(t) \/ \E e \in Entry : Add(t, e)
  \/ \E ended \in SUBSET Id : Forget(ended)
  \/ \E torn \in SUBSET Entry : Tear(torn)

Spec == Init /\ [][Next]_<<status, members, lost, durable>>
=============================================================================
