--------------------------- MODULE MCLockClients ---------------------------
(*****************************************************************************)
(* Threads using the mutexes and a semaphore of core-                        *)
(* services/thread_manager.c, and programs that run the reactor and the      *)
(* operations of async-io-multiplexing, for TLC. The components share no     *)
(* state: no function of one touches another, so their steps interleave      *)
(* freely and each property speaks of one of them. A behaviour therefore     *)
(* exercises one component, and a run has the sum of their states instead    *)
(* of the product.                                                           *)
(*****************************************************************************)
EXTENDS Integers

VARIABLES
  subject,   \* the component this behaviour exercises
  mutex_count, mutex_id, owner_thread_id, is_locked, lock_count,
  locks_waiting_threads, held, phase, level,
  semaphore_count, semaphore_id, count, max_count, permits_waiting_threads, initial,
  out, pc,
  sources, next_id, ring, front, rear, pending, loop, owed, overrun, own_touched,
  earlier_left, extra, ops, queued, in_progress, completed, polls, called, fds,
  ready, wants, twice

Locks == INSTANCE MutexTable WITH
  Thread <- {1, 2, 3}, MaxMutexes <- 2, MaxThreads <- 2, MaxDepth <- 2,
  waiting_threads <- locks_waiting_threads

Permits == INSTANCE SemaphoreTable WITH
  Thread <- {1, 2, 3}, MaxSemaphores <- 1, MaxThreads <- 3, MaxCount <- 2,
  waiting_threads <- permits_waiting_threads

Async == INSTANCE AsyncIo WITH
  Fd <- {1, 2}, MaxSources <- 3, QueueSize <- 2, MaxId <- 2, MaxPending <- 3, MaxOps <- 3,
  Work <- {"w1", "w2"}, MaxNesting <- 2, MaxFds <- 1

locksVars == <<
  mutex_count, mutex_id, owner_thread_id, is_locked, lock_count,
  locks_waiting_threads, held, phase, level>>

permitsVars == <<
  semaphore_count, semaphore_id, count, max_count, permits_waiting_threads, initial,
  out, pc>>

asyncVars == <<
  sources, next_id, ring, front, rear, pending, loop, owed, overrun, own_touched,
  earlier_left, extra, ops, queued, in_progress, completed, polls, called, fds,
  ready, wants, twice>>

all == <<subject, locksVars, permitsVars, asyncVars>>

Start ==
  /\ subject \in {"mutexes", "semaphores", "reactor", "operations"}
  /\ Locks!ClientInit /\ Permits!Init /\ Async!Init

\* One component moves, the others wait in their initial states.
Step ==
  \/ subject = "mutexes" /\ Locks!ClientNext /\ UNCHANGED <<subject, permitsVars, asyncVars>>
  \/ subject = "semaphores" /\ Permits!ClientNext /\ UNCHANGED <<subject, locksVars, asyncVars>>
  \/ subject = "reactor" /\ Async!ReactorNext /\ UNCHANGED <<subject, locksVars, permitsVars>>
  \/ subject = "operations" /\ Async!OpsNext /\ UNCHANGED <<subject, locksVars, permitsVars>>

System ==
  /\ Start /\ [][Step]_all
  /\ SF_asyncVars(\/ subject = "reactor" /\ Async!Dispatches
                  \/ subject = "operations" /\ Async!CallbackEnds)
  /\ WF_asyncVars(\/ subject = "reactor" /\ Async!LoopRuns
                  \/ subject = "operations" /\ Async!PollRuns)
  /\ WF_asyncVars(subject = "operations" /\ Async!PollStarts)
  /\ \A t \in {1, 2, 3} :
       /\ WF_locksVars(subject = "mutexes" /\ Locks!Lock(t))
       /\ WF_locksVars(subject = "mutexes" /\ Locks!Unlock(t))
       /\ WF_locksVars(subject = "mutexes" /\ Locks!Finish(t))
       /\ WF_permitsVars(subject = "semaphores" /\ Permits!Wait(t))
       /\ WF_permitsVars(subject = "semaphores" /\ Permits!Post(t))

-----------------------------------------------------------------------------

\* A source among the first of the table has its handler called and an
\* operation is completed or cancelled in the end, while the program goes on
\* dispatching and polling, although handlers and callbacks make new work.
AsyncProgress ==
  /\ Async!EarlySourcesServed
  /\ Async!OperationsEnd

\* Among threads that go on asking, some thread gets every mutex and some
\* thread gets a permit, although nobody is woken.
SomeoneServed ==
  /\ Locks!SomeoneGetsAll
  /\ Permits!PoolKeepsServing
=============================================================================
