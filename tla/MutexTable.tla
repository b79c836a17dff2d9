----------------------------- MODULE MutexTable -----------------------------
(***************************************************************************)
(* The mutexes of core-services/thread_manager.c: a table of recursive     *)
(* locks that never block the caller.  mutex_lock answers 0 (taken) or -1  *)
(* (busy, the caller is noted as a waiter); mutex_unlock gives the lock up *)
(* and forgets the first waiter without granting it anything.  A call that *)
(* answers -1 and changes nothing is a stuttering step.                    *)
(***************************************************************************)
EXTENDS Naturals, Sequences

CONSTANTS
  Thread,      \* thread ids callers pass; 0 is the table's "no owner"
  MaxMutexes,  \* MAX_MUTEXES
  MaxThreads,  \* MAX_THREADS, here the capacity of a waiting list
  MaxDepth     \* bound: deepest recursive locking considered

ASSUME MutexAssumption ==
  /\ Thread \subseteq Nat \ {0}
  /\ MaxMutexes \in Nat /\ MaxThreads \in Nat
  /\ MaxDepth \in Nat \ {0}

NoOwner == 0

Slot == 1..MaxMutexes

VARIABLES
  mutex_count,      \* slots 1..mutex_count have been created
  mutex_id,         \* the slot's number; 0 before creation, after destruction
  owner_thread_id,
  is_locked,
  lock_count,
  waiting_threads,  \* waiting_threads[0 .. waiting_count - 1]
  held              \* history: locks answered 0 minus unlocks answered 0

table == <<mutex_count, mutex_id>>
vars == <<table, owner_thread_id, is_locked, lock_count, waiting_threads, held>>

TypeOK ==
  /\ mutex_count \in 0..MaxMutexes
  /\ mutex_id \in [Slot -> Nat]
  /\ owner_thread_id \in [Slot -> Thread \cup {NoOwner}]
  /\ is_locked \in [Slot -> BOOLEAN]
  /\ lock_count \in [Slot -> Nat]
  /\ waiting_threads \in [Slot -> Seq(Thread)]
  /\ \A m \in Slot : Len(waiting_threads[m]) <= MaxThreads
  /\ held \in [Slot -> [Thread -> Nat]]

-----------------------------------------------------------------------------

Init ==
  /\ mutex_count = 0
  /\ mutex_id = [m \in Slot |-> 0]
  /\ owner_thread_id = [m \in Slot |-> NoOwner]
  /\ is_locked = [m \in Slot |-> FALSE]
  /\ lock_count = [m \in Slot |-> 0]
  /\ waiting_threads = [m \in Slot |-> << >>]
  /\ held = [m \in Slot |-> [t \in Thread |-> 0]]

mutex_create ==
  /\ mutex_count < MaxMutexes
  /\ mutex_count' = mutex_count + 1
  /\ mutex_id' = [mutex_id EXCEPT ![mutex_count'] = mutex_count']
  /\ owner_thread_id' = [owner_thread_id EXCEPT ![mutex_count'] = NoOwner]
  /\ is_locked' = [is_locked EXCEPT ![mutex_count'] = FALSE]
  /\ lock_count' = [lock_count EXCEPT ![mutex_count'] = 0]
  /\ waiting_threads' = [waiting_threads EXCEPT ![mutex_count'] = << >>]
  /\ UNCHANGED held

\* The owner locks again.
Relock(m, t) ==
  /\ owner_thread_id[m] = t
  /\ lock_count[m] < MaxDepth
  /\ lock_count' = [lock_count EXCEPT ![m] = @ + 1]
  /\ held' = [held EXCEPT ![m][t] = @ + 1]
  /\ UNCHANGED <<owner_thread_id, is_locked, waiting_threads>>

\* The caller becomes the owner.
Own(m, t) ==
  /\ is_locked' = [is_locked EXCEPT ![m] = TRUE]
  /\ owner_thread_id' = [owner_thread_id EXCEPT ![m] = t]
  /\ lock_count' = [lock_count EXCEPT ![m] = 1]
  /\ held' = [held EXCEPT ![m][t] = @ + 1]
  /\ UNCHANGED waiting_threads

TakeWithoutLooking(m, t) ==      \* mistaken Take: is_locked is not tested
  owner_thread_id[m] # t /\ Own(m, t)

\* A free mutex is taken, whether or not the caller was the first to wait.
Take(m, t) == owner_thread_id[m] # t /\ ~is_locked[m] /\ Own(m, t)

EnqueuePastTheEnd(m, t) ==       \* mistaken Enqueue: the limit is off by one
  /\ owner_thread_id[m] # t /\ is_locked[m]
  /\ Len(waiting_threads[m]) <= MaxThreads
  /\ waiting_threads' = [waiting_threads EXCEPT ![m] = Append(@, t)]
  /\ UNCHANGED <<owner_thread_id, is_locked, lock_count, held>>

\* Another thread holds the mutex: the caller is noted and is answered -1.
Enqueue(m, t) ==
  /\ owner_thread_id[m] # t /\ is_locked[m]
  /\ Len(waiting_threads[m]) < MaxThreads
  /\ waiting_threads' = [waiting_threads EXCEPT ![m] = Append(@, t)]
  /\ UNCHANGED <<owner_thread_id, is_locked, lock_count, held>>

mutex_lock(m, t) ==
  /\ m <= mutex_count
  /\ Relock(m, t) \/ Enqueue(m, t) \/ Take(m, t)
  /\ UNCHANGED table

mutex_trylock(m, t) ==
  /\ m <= mutex_count
  /\ Relock(m, t) \/ Take(m, t)
  /\ UNCHANGED table

DropFirst(s) == IF s = << >> THEN s ELSE Tail(s)

ReleaseKeepingOwner(m) ==        \* mistaken Release: owner_thread_id stays
  /\ is_locked' = [is_locked EXCEPT ![m] = FALSE]
  /\ waiting_threads' = [waiting_threads EXCEPT ![m] = DropFirst(@)]
  /\ UNCHANGED owner_thread_id

ReleaseToFirst(m) ==             \* mistaken Release: the first waiter becomes the owner
  /\ is_locked' = [is_locked EXCEPT ![m] = waiting_threads[m] # << >>]
  /\ owner_thread_id' = [owner_thread_id EXCEPT
       ![m] = IF waiting_threads[m] = << >> THEN NoOwner ELSE Head(waiting_threads[m])]
  /\ waiting_threads' = [waiting_threads EXCEPT ![m] = DropFirst(@)]

Release(m) ==
  /\ is_locked' = [is_locked EXCEPT ![m] = FALSE]
  /\ owner_thread_id' = [owner_thread_id EXCEPT ![m] = NoOwner]
  /\ waiting_threads' = [waiting_threads EXCEPT ![m] = DropFirst(@)]

mutex_unlock(m, t) ==
  /\ m <= mutex_count
  /\ owner_thread_id[m] = t /\ is_locked[m]
  /\ lock_count' = [lock_count EXCEPT ![m] = @ - 1]
  /\ held' = [held EXCEPT ![m][t] = @ - 1]
  /\ \/ lock_count[m] = 1 /\ Release(m)
     \/ lock_count[m] # 1 /\ UNCHANGED <<owner_thread_id, is_locked, waiting_threads>>
  /\ UNCHANGED table

\* The slot keeps its place: a later call with its number still reaches it.
mutex_destroy(m) ==
  /\ m <= mutex_count
  /\ ~is_locked[m] /\ waiting_threads[m] = << >>
  /\ mutex_id' = [mutex_id EXCEPT ![m] = 0]
  /\ UNCHANGED <<mutex_count, owner_thread_id, is_locked, lock_count, waiting_threads, held>>

Next ==
  \/ mutex_create
  \/ \E m \in Slot, t \in Thread :
       mutex_lock(m, t) \/ mutex_trylock(m, t) \/ mutex_unlock(m, t)
  \/ \E m \in Slot : mutex_destroy(m)

Spec == Init /\ [][Next]_vars

-----------------------------------------------------------------------------

\* Threads whose calls of mutex_lock or mutex_trylock were answered 0, and that
\* have not unlocked as often since, never hold the same mutex at once.
MutualExclusion ==
  \A m \in Slot, s, t \in Thread : held[m][s] > 0 /\ held[m][t] > 0 => s = t

\* What the table records is what the callers were told: is_locked, owner and
\* lock_count agree, and lock_count is exactly what the owner has still to
\* unlock, through every mix of recursive, failed and repeated calls.
LockAgreement ==
  \A m \in Slot :
    /\ is_locked[m] <=> owner_thread_id[m] # NoOwner
    /\ is_locked[m] <=> lock_count[m] > 0
    /\ \A t \in Thread :
         held[m][t] = IF owner_thread_id[m] = t THEN lock_count[m] ELSE 0

\* A mutex never passes from one thread straight to another: its owner leaves
\* it free, and only by the unlock that matches the owner's first lock.
NoDirectHandover ==
  [][\A m \in Slot :
       owner_thread_id[m] \notin {NoOwner, owner_thread_id'[m]}
         => /\ owner_thread_id'[m] = NoOwner
            /\ held'[m][owner_thread_id[m]] = 0]_vars

-----------------------------------------------------------------------------
\* Threads that take every mutex in the order of their numbers and give them
\* back in reverse.  mutex_lock never suspends its caller, so a thread that is
\* answered -1 calls again; nothing in the table reserves a freed mutex for the
\* thread that waited longest.

VARIABLES
  phase,    \* "idle", "locking" or "unlocking", per thread
  level     \* number of mutexes the thread was told it has

clientVars == <<vars, phase, level>>

ClientInit ==
  Init /\ phase = [t \in Thread |-> "idle"] /\ level = [t \in Thread |-> 0]

Create == mutex_create /\ UNCHANGED <<phase, level>>

Begin(t) ==
  /\ mutex_count = MaxMutexes /\ phase[t] = "idle"
  /\ phase' = [phase EXCEPT ![t] = "locking"]
  /\ UNCHANGED <<vars, level>>

\* The answer 0 shows in held; any other answer leaves the thread locking.
Lock(t) ==
  /\ phase[t] = "locking" /\ level[t] < MaxMutexes
  /\ mutex_lock(level[t] + 1, t)
  /\ level' = [level EXCEPT ![t] = IF held' = held THEN @ ELSE @ + 1]
  /\ UNCHANGED phase

Finish(t) ==
  /\ phase[t] = "locking" /\ level[t] = MaxMutexes
  /\ phase' = [phase EXCEPT ![t] = "unlocking"]
  /\ UNCHANGED <<vars, level>>

Unlock(t) ==
  /\ phase[t] = "unlocking" /\ mutex_unlock(level[t], t)
  /\ level' = [level EXCEPT ![t] = @ - 1]
  /\ phase' = [phase EXCEPT ![t] = IF level[t] = 1 THEN "idle" ELSE @]

ClientNext ==
  \/ Create
  \/ \E t \in Thread : Begin(t) \/ Lock(t) \/ Finish(t) \/ Unlock(t)

\* Every thread keeps being scheduled: it calls again after a -1 and does not
\* stop while it holds a mutex.
ClientFairness ==
  \A t \in Thread : WF_clientVars(Lock(t)) /\ WF_clientVars(Finish(t)) /\ WF_clientVars(Unlock(t))

ClientSpec == ClientInit /\ [][ClientNext]_clientVars /\ ClientFairness

\* A thread with every mutex is alone, and holds each of them exactly once.
HoldersAreAlone ==
  \A s, t \in Thread :
    level[s] = MaxMutexes =>
      /\ s # t => level[t] = 0
      /\ \A m \in Slot : held[m][s] = 1

\* Threads that lock in one order never all wait for each other, although an
\* unlock wakes nobody: while some thread is locking, some thread gets them all.
SomeoneGetsAll ==
  (\E t \in Thread : phase[t] = "locking") ~> (\E t \in Thread : level[t] = MaxMutexes)
=============================================================================
