---------------------------- MODULE ThreadTable ----------------------------
(***************************************************************************)
(* The thread table of core-services/thread_manager.c: slots are handed    *)
(* out in order and never given back, and every operation may be called    *)
(* with any thread id by anyone.  Calls answered -1 change nothing and are *)
(* stuttering steps.                                                       *)
(***************************************************************************)
EXTENDS Naturals

CONSTANT MaxThreads    \* MAX_THREADS

\* THREAD_BLOCKED is declared too, but no operation ever assigns it.
State == {"CREATED", "RUNNING", "WAITING", "SUSPENDED", "TERMINATED"}

Slot == 1..MaxThreads

VARIABLES
  thread_count,           \* slots 1..thread_count are threads
  thread_id,              \* the id stored in each slot, 0 when never written
  state,
  terminated,             \* slots whose terminated_time is set
  total_threads_created,
  starts                  \* history: calls of thread_start answered 0

vars == <<thread_count, thread_id, state, terminated, total_threads_created, starts>>

TypeOK ==
  /\ thread_count \in 0..MaxThreads
  /\ thread_id \in [Slot -> 0..MaxThreads]
  /\ state \in [Slot -> State]
  /\ terminated \subseteq Slot
  /\ total_threads_created \in Nat
  /\ starts \in [Slot -> Nat]

Init ==
  /\ thread_count = 0
  /\ thread_id = [i \in Slot |-> 0]
  /\ state = [i \in Slot |-> "CREATED"]
  /\ terminated = {}
  /\ total_threads_created = 0
  /\ starts = [i \in Slot |-> 0]

Fill(i) ==
  /\ thread_count < MaxThreads
  /\ i = thread_count + 1
  /\ thread_id' = [thread_id EXCEPT ![i] = i]
  /\ state' = [state EXCEPT ![i] = "CREATED"]

thread_create(i) ==
  /\ Fill(i)
  /\ thread_count' = i
  /\ terminated' = terminated \ {i}
  /\ total_threads_created' = total_threads_created + 1
  /\ UNCHANGED starts

thread_create_no_memory(i) ==
  /\ Fill(i)
  /\ UNCHANGED <<thread_count, terminated, total_threads_created, starts>>

Known(i) == i <= thread_count

Become(i, s) ==
  /\ state' = [state EXCEPT ![i] = s]
  /\ UNCHANGED <<thread_count, thread_id, total_threads_created>>

thread_start(i) ==
  /\ Known(i) /\ state[i] = "CREATED"
  /\ Become(i, "RUNNING")
  /\ starts' = [starts EXCEPT ![i] = @ + 1]
  /\ UNCHANGED terminated

\* The joined thread itself is put into WAITING; the caller is not recorded.
thread_join(i) ==
  /\ Known(i) /\ state[i] # "TERMINATED"
  /\ Become(i, "WAITING") /\ UNCHANGED <<terminated, starts>>

thread_detach(i) ==
  Known(i) /\ Become(i, "RUNNING") /\ UNCHANGED <<terminated, starts>>

thread_exit(i) ==
  /\ Known(i) /\ Become(i, "TERMINATED")
  /\ terminated' = terminated \cup {i} /\ UNCHANGED starts

thread_cancel(i) ==
  /\ Known(i) /\ state[i] # "TERMINATED"
  /\ Become(i, "TERMINATED")
  /\ terminated' = terminated \cup {i} /\ UNCHANGED starts

thread_suspend(i) ==
  /\ Known(i) /\ state[i] # "TERMINATED"
  /\ Become(i, "SUSPENDED") /\ UNCHANGED <<terminated, starts>>

thread_resume(i) ==
  /\ Known(i) /\ state[i] = "SUSPENDED"
  /\ Become(i, "RUNNING") /\ UNCHANGED <<terminated, starts>>

Next ==
  \E i \in Slot :
    \/ thread_create(i) \/ thread_create_no_memory(i)
    \/ thread_start(i) \/ thread_join(i) \/ thread_detach(i)
    \/ thread_exit(i) \/ thread_cancel(i)
    \/ thread_suspend(i) \/ thread_resume(i)

Spec == Init /\ [][Next]_vars

-----------------------------------------------------------------------------

\* A thread id stays the number of its slot, also after creations that failed
\* half way, so the ids callers hold never come to mean another thread.
IdsNameSlots ==
  /\ total_threads_created = thread_count
  /\ \A i \in Slot : Known(i) => thread_id[i] = i

\* thread_start succeeds at most once in a thread's life, and not at all once
\* it was joined, detached, suspended or ended before being started.
StartedAtMostOnce ==
  \A i \in Slot : starts[i] <= 1 /\ (state[i] = "CREATED" => starts[i] = 0)

\* A thread in TERMINATED has its end recorded; before its first end the
\* record is blank.
EndIsRecorded == \A i \in Slot : state[i] = "TERMINATED" => i \in terminated

=============================================================================
