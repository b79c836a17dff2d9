--------------------------- MODULE SemaphoreTable ---------------------------
(***************************************************************************)
(* The counting semaphores of core-services/thread_manager.c.              *)
(* semaphore_wait answers 0 (a permit was taken) or -1 (none left, the     *)
(* caller is noted as a waiter); semaphore_post, by whomever, adds a       *)
(* permit and forgets the first waiter, or answers -1 at the maximum.      *)
(*                                                                         *)
(* Next is any use of the table.  ClientNext is threads that share one     *)
(* semaphore as a pool of permits: each asks until semaphore_wait answers  *)
(* 0, uses its permit and posts it back.  A thread that was answered -1 is *)
(* not suspended by the code; it has to ask again.                         *)
(***************************************************************************)
EXTENDS Integers, Sequences, FiniteSets

CONSTANTS
  Thread,         \* the threads that use the semaphores
  MaxSemaphores,  \* MAX_SEMAPHORES
  MaxThreads,     \* MAX_THREADS, the capacity of a waiting list
  MaxCount        \* bound: largest initial_count and max_count passed

Slot == 1..MaxSemaphores

VARIABLES
  semaphore_count,  \* slots 1..semaphore_count have been created
  semaphore_id,     \* the slot's number; 0 before creation, after destruction
  count,
  max_count,
  waiting_threads,  \* waiting_threads[0 .. waiting_count - 1]
  initial,          \* history: initial_count of the slot's creation
  out,              \* history: waits answered 0 minus posts answered 0
  pc                \* the clients: "idle", "asking" or "inside", per thread

table == <<semaphore_count, semaphore_id, max_count, initial>>
calls == <<table, count, waiting_threads, out>>
vars == <<calls, pc>>

TypeOK ==
  /\ semaphore_count \in 0..MaxSemaphores
  /\ semaphore_id \in [Slot -> Nat]
  /\ count \in [Slot -> Nat] /\ max_count \in [Slot -> Nat]
  /\ waiting_threads \in [Slot -> Seq(Thread)]
  /\ \A m \in Slot : Len(waiting_threads[m]) <= MaxThreads
  /\ initial \in [Slot -> Nat]
  /\ out \in [Slot -> Int]
  /\ pc \in [Thread -> {"idle", "asking", "inside"}]

Init ==
  /\ semaphore_count = 0
  /\ semaphore_id = [m \in Slot |-> 0]
  /\ count = [m \in Slot |-> 0] /\ max_count = [m \in Slot |-> 0]
  /\ waiting_threads = [m \in Slot |-> << >>]
  /\ initial = [m \in Slot |-> 0]
  /\ out = [m \in Slot |-> 0]
  /\ pc = [t \in Thread |-> "idle"]

\* The two counts are not compared: a semaphore may start above its maximum.
semaphore_create(i, max) ==
  /\ semaphore_count < MaxSemaphores
  /\ semaphore_count' = semaphore_count + 1
  /\ semaphore_id' = [semaphore_id EXCEPT ![semaphore_count'] = semaphore_count']
  /\ count' = [count EXCEPT ![semaphore_count'] = i]
  /\ initial' = [initial EXCEPT ![semaphore_count'] = i]
  /\ max_count' = [max_count EXCEPT ![semaphore_count'] = max]
  /\ waiting_threads' = [waiting_threads EXCEPT ![semaphore_count'] = << >>]
  /\ UNCHANGED out

GrantPastZero(m) ==           \* mistaken Grant: a permit too many
  /\ count[m] >= 0
  /\ count' = [count EXCEPT ![m] = IF @ > 0 THEN @ - 1 ELSE 0]
  /\ out' = [out EXCEPT ![m] = @ + 1]
  /\ UNCHANGED waiting_threads

Grant(m) ==
  /\ count[m] > 0
  /\ count' = [count EXCEPT ![m] = @ - 1]
  /\ out' = [out EXCEPT ![m] = @ + 1]
  /\ UNCHANGED waiting_threads

\* The caller is answered -1; a full list does not note it.
Note(m, t) ==
  /\ count[m] = 0
  /\ waiting_threads' = [waiting_threads EXCEPT ![m] =
                           IF Len(@) < MaxThreads THEN Append(@, t) ELSE @]
  /\ UNCHANGED <<count, out>>

semaphore_wait(m, t) ==
  /\ m <= semaphore_count
  /\ Grant(m) \/ Note(m, t)
  /\ UNCHANGED table

semaphore_post(m) ==
  /\ m <= semaphore_count
  /\ count[m] < max_count[m]
  /\ count' = [count EXCEPT ![m] = @ + 1]
  /\ waiting_threads' =
       [waiting_threads EXCEPT ![m] = IF @ = << >> THEN @ ELSE Tail(@)]
  /\ out' = [out EXCEPT ![m] = @ - 1]
  /\ UNCHANGED table

\* Permits still out do not keep the code from destroying a semaphore.
semaphore_destroy(m) ==
  /\ m <= semaphore_count /\ waiting_threads[m] = << >>
  /\ semaphore_id' = [semaphore_id EXCEPT ![m] = 0]
  /\ UNCHANGED <<semaphore_count, max_count, initial, count, waiting_threads, out>>

Next ==
  /\ \/ \E i, max \in 0..MaxCount : semaphore_create(i, max)
     \/ \E m \in Slot, t \in Thread : semaphore_wait(m, t)
     \/ \E m \in Slot : semaphore_post(m) \/ semaphore_destroy(m)
  /\ UNCHANGED pc

Spec == Init /\ [][Next]_vars

-----------------------------------------------------------------------------

\* Permits are neither made nor lost by waiting, failing to wait, forgetting
\* waiters or destroying: the free permits and the ones out add up to the
\* initial count, and posts alone never carry the count past max_count.
PermitsConserved ==
  \A m \in Slot :
    /\ count[m] + out[m] = initial[m]
    /\ count[m] <= IF initial[m] > max_count[m] THEN initial[m] ELSE max_count[m]

-----------------------------------------------------------------------------

Pool == 1

Goto(t, from, to) == pc[t] = from /\ pc' = [pc EXCEPT ![t] = to]

\* The pool is created with as many permits as it may ever have.
Open(n) == semaphore_create(n, n) /\ UNCHANGED pc

Ask(t) == semaphore_count = Pool /\ Goto(t, "idle", "asking") /\ UNCHANGED calls

Wait(t) ==
  /\ pc[t] = "asking"
  /\ semaphore_wait(Pool, t)
  /\ IF out'[Pool] > out[Pool] THEN Goto(t, "asking", "inside") ELSE UNCHANGED pc

Post(t) == semaphore_post(Pool) /\ Goto(t, "inside", "idle")

ClientNext ==
  \/ \E n \in 1..MaxCount : Open(n)
  \/ \E t \in Thread : Ask(t) \/ Wait(t) \/ Post(t)

\* Threads keep running: one that holds a permit posts it in the end, and one
\* that was refused asks again.
ClientFairness == \A t \in Thread : WF_vars(Wait(t)) /\ WF_vars(Post(t))

ClientSpec == Init /\ [][ClientNext]_vars /\ ClientFairness

Inside == {t \in Thread : pc[t] = "inside"}

\* No more threads are inside than the pool has permits.
PoolNotOversubscribed == Cardinality(Inside) <= initial[Pool]

\* A thread that was let in can always post: semaphore_post never refuses it
\* at max_count, so the pool does not shrink.
PostNeverRefused == Inside # {} => count[Pool] < max_count[Pool]

\* Although the code forgets waiters without waking them, the pool never comes
\* to a standstill: whenever a thread asks, some thread is or gets inside.
PoolKeepsServing == (\E t \in Thread : pc[t] = "asking") ~> (Inside # {})
=============================================================================
