----------------------------- MODULE MCThreads -----------------------------
(*****************************************************************************)
(* The tables of core-services/thread_manager.c and threads that use them,   *)
(* the run queues of resource-scheduling and the deadlock detector of        *)
(* fault-tolerance. The components share no state: no function of one        *)
(* touches another, so their steps interleave freely and each property       *)
(* speaks of one of them. A behaviour therefore exercises one component,     *)
(* and a run has the sum of their states instead of the product.             *)
(*****************************************************************************)
EXTENDS MutexTable

CONSTANTS
  MaxSemaphores,    \* MAX_SEMAPHORES
  MaxCount,         \* bound on the counts a semaphore is created with
  Id,               \* the threads that are scheduled
  Priority,
  Policy,           \* scheduling policies
  MaxRunqueues,     \* MAX_RUNQUEUES
  MaxSchedulable,   \* MAX_SCHEDULABLE_THREADS
  MaxRuntime,       \* bound on vruntime_ns
  Process,          \* processes that hold and wait for locks
  LockId,
  MaxDeps,          \* MAX_LOCK_DEPENDENCIES
  MaxCycles         \* MAX_DEADLOCK_CYCLES

ASSUME TablesAssumption ==
  /\ MaxMutexes # 0 /\ MaxSemaphores \in Nat \ {0} /\ MaxCount \in Nat
  /\ Priority \subseteq Nat /\ MaxRunqueues \in Nat /\ MaxSchedulable \in Nat /\ MaxRuntime \in Nat
  /\ MaxDeps \in Nat /\ MaxCycles \in Nat

VARIABLES
  subject,   \* the component this behaviour exercises
  semaphore_count, semaphore_id, count, max_count, semaphores_waiting_threads,
  initial, out, pc,
  thread_count, thread_id, state, terminated, total_threads_created, starts,
  policy, runqueues, threads, placed,
  lock_deps, deadlock_cycles, detected

Semaphores == INSTANCE SemaphoreTable WITH
  waiting_threads <- semaphores_waiting_threads

Threads == INSTANCE ThreadTable

Cpus == INSTANCE CpuScheduler WITH
  MaxThreads <- MaxSchedulable

Deadlocks == INSTANCE DeadlockDetector

semaphoresVars == <<
  semaphore_count, semaphore_id, count, max_count, semaphores_waiting_threads,
  initial, out, pc>>

threadsVars == <<
  thread_count, thread_id, state, terminated, total_threads_created, starts>>

cpusVars == <<
  policy, runqueues, threads, placed>>

deadlocksVars == <<
  lock_deps, deadlock_cycles, detected>>

all == <<subject, clientVars, semaphoresVars, threadsVars, cpusVars, deadlocksVars>>

\* A component that is not exercised waits in one of its initial states.
Start ==
  /\ subject \in {"mutexes", "holders", "semaphores", "permits", "threads", "cpus", "deadlocks"}
  /\ ClientInit /\ Semaphores!Init /\ Threads!Init /\ Cpus!Init /\ Deadlocks!Init
  /\ subject # "cpus" => policy = "FIFO" /\ runqueues = << >>

\* One component moves, the others wait in their initial states.
Step ==
  \/ subject = "mutexes" /\ (Next /\ UNCHANGED <<phase, level>>) /\ UNCHANGED <<subject, semaphoresVars, threadsVars, cpusVars, deadlocksVars>>
  \/ subject = "holders" /\ ClientNext /\ UNCHANGED <<subject, semaphoresVars, threadsVars, cpusVars, deadlocksVars>>
  \/ subject = "semaphores" /\ Semaphores!Next /\ UNCHANGED <<subject, clientVars, threadsVars, cpusVars, deadlocksVars>>
  \/ subject = "permits" /\ Semaphores!ClientNext /\ UNCHANGED <<subject, clientVars, threadsVars, cpusVars, deadlocksVars>>
  \/ subject = "threads" /\ Threads!Next /\ UNCHANGED <<subject, clientVars, semaphoresVars, cpusVars, deadlocksVars>>
  \/ subject = "cpus" /\ Cpus!Next /\ UNCHANGED <<subject, clientVars, semaphoresVars, threadsVars, deadlocksVars>>
  \/ subject = "deadlocks" /\ Deadlocks!Next /\ UNCHANGED <<subject, clientVars, semaphoresVars, threadsVars, cpusVars>>

System == Start /\ [][Step]_all

-----------------------------------------------------------------------------

\* What a detection reports is a deadlock, each of the two processes waits for
\* the other, directly or through others; and two processes that wait for each
\* other directly are reported, unless the table is full.
DetectionExact == Deadlocks!DetectionExact

\* The tables tell one story in every interleaving. An unlocked mutex has no
\* owner and no depth, a locked one both; the free permits of a semaphore and
\* the ones out add up to its initial count. The id of a thread is the number
\* of its slot, also after creations that failed half way; it was started at
\* most once, and not after it was joined, detached, suspended or ended; in
\* TERMINATED its end is recorded.
TablesTruthful ==
  /\ LockAgreement
  /\ Semaphores!PermitsConserved
  /\ Threads!StartedAtMostOnce
  /\ Threads!IdsNameSlots
  /\ Threads!EndIsRecorded

\* A thread with every mutex is alone and holds each exactly once; no more
\* threads are inside than the pool has permits, and none of those inside can
\* find its semaphore_post refused at max_count.
ClientsExcluded ==
  /\ Semaphores!PoolNotOversubscribed
  /\ HoldersAreAlone
  /\ Semaphores!PostNeverRefused

\* No thread is lost or doubled between the run queues, the processor found for
\* a new thread has a shortest queue, and without priorities the head of a
\* queue is next, however long threads ran.
QueuesSound ==
  /\ Cpus!BalancedCpuIsShortest
  /\ Cpus!NoThreadLost
  /\ Cpus!HeadIsNext

\* Every component stays within its types and the sizes of its tables.
TypesOK == TypeOK /\ Semaphores!TypeOK /\ Threads!TypeOK /\ Cpus!TypeOK /\ Deadlocks!TypeOK
=============================================================================
