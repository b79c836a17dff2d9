----------------------------- MODULE CpuScheduler -----------------------------
(***************************************************************************)
(* resource-scheduling/cpu_scheduler.c: run queues of processors and the    *)
(* table of all threads ever enqueued.  A queue holds copies of the table's *)
(* entries; running changes the copy, sleeping, waking and accounting       *)
(* change the table.                                                        *)
(***************************************************************************)
EXTENDS Naturals, Sequences, FiniteSets

CONSTANTS
  Id,            \* thread ids
  Priority,
  Policy,        \* the policies cpu_scheduler_init may be given
  MaxRunqueues,  \* MAX_RUNQUEUES
  MaxThreads,    \* MAX_SCHEDULABLE_THREADS
  MaxRuntime     \* bound on vruntime_ns

VARIABLES
  policy,
  runqueues,     \* queue and load of each processor; processor 0 is runqueues[1]
  threads,       \* the table; thread_count is its length
  placed         \* history: for each id, the copies enqueued and not taken out

vars == <<policy, runqueues, threads, placed>>

State == {"RUNNABLE", "RUNNING", "SLEEPING"}
ScheduleEntry == [id : Id, priority : Priority, state : State, vruntime : 0..MaxRuntime]
RunQueue == [queue : Seq(ScheduleEntry), load : 0..MaxThreads]

TypeOK ==
  /\ policy \in Policy
  /\ runqueues \in Seq(RunQueue) /\ Len(runqueues) <= MaxRunqueues
  /\ threads \in Seq(ScheduleEntry) /\ Len(threads) <= MaxThreads
  /\ placed \in [Id -> 0..MaxThreads]

Empty == [queue |-> << >>, load |-> 0]

\* cpu_scheduler_init with any number of processors
Init ==
  /\ policy \in Policy
  /\ \E n \in 0..MaxRunqueues : runqueues = [c \in 1..n |-> Empty]
  /\ threads = << >> /\ placed = [id \in Id |-> 0]

Copies(q, id) == {i \in 1..Len(q) : q[i].id = id}
First(S) == {i \in S : \A j \in S : i <= j}

\* s after memmove over its entry at i: the ones behind it move up.
MovedUp(s, i) == [j \in 1..(Len(s) - 1) |-> IF j < i THEN s[j] ELSE s[j + 1]]

cpu_scheduler_add_runqueue ==
  /\ Len(runqueues) < MaxRunqueues
  /\ runqueues' = Append(runqueues, Empty)
  /\ UNCHANGED <<policy, threads, placed>>

\* The threads of the queue go with it.
cpu_scheduler_remove_runqueue(c) ==
  /\ runqueues' = MovedUp(runqueues, c)
  /\ placed' = [id \in Id |-> placed[id] - Cardinality(Copies(runqueues[c].queue, id))]
  /\ UNCHANGED <<policy, threads>>

\* The remainder by the number of run queues is undefined without any.
cpu_scheduler_enqueue_thread(id, priority, affinity) ==
  LET entry == [id |-> id, priority |-> priority, state |-> "RUNNABLE", vruntime |-> 0]
      c == (affinity % Len(runqueues)) + 1
  IN
  /\ Len(threads) < MaxThreads /\ Len(runqueues) > 0
  /\ threads' = Append(threads, entry)
  /\ IF Len(runqueues[c].queue) < MaxThreads
     THEN /\ runqueues' = [runqueues EXCEPT ![c] = [queue |-> Append(@.queue, entry), load |-> @.load + 1]]
          /\ placed' = [placed EXCEPT ![id] = @ + 1]
     ELSE UNCHANGED <<runqueues, placed>>
  /\ UNCHANGED policy

WithoutKeepingLoad(c, i) == [runqueues EXCEPT ![c].queue = MovedUp(@, i)]  \* mistaken: load stays

\* The queues without the entry at i of queue c.
Without(c, i) == [runqueues EXCEPT ![c] = [queue |-> MovedUp(@.queue, i), load |-> @.load - 1]]

cpu_scheduler_dequeue_thread(c, id) ==
  \E i \in First(Copies(runqueues[c].queue, id)) :
    /\ runqueues' = Without(c, i) /\ placed' = [placed EXCEPT ![id] = @ - 1]
    /\ UNCHANGED <<policy, threads>>

cpu_scheduler_run_thread(c, id) ==
  \E i \in First(Copies(runqueues[c].queue, id)) :
    /\ runqueues' = [runqueues EXCEPT ![c].queue[i].state = "RUNNING"]
    /\ UNCHANGED <<policy, threads, placed>>

\* A full target loses the thread: it has left its queue already.
cpu_scheduler_migrate_thread(id, target) ==
  \E c \in First({c \in 1..Len(runqueues) : Copies(runqueues[c].queue, id) # {}}) :
  \E i \in First(Copies(runqueues[c].queue, id)) :
    LET entry == runqueues[c].queue[i]
        rest == Without(c, i)
    IN
    /\ runqueues' = IF Len(rest[target].queue) < MaxThreads
                    THEN [rest EXCEPT ![target] = [queue |-> Append(@.queue, entry), load |-> @.load + 1]]
                    ELSE rest
    /\ UNCHANGED <<policy, threads, placed>>

cpu_scheduler_update_runqueue_loads ==
  /\ runqueues' = [c \in 1..Len(runqueues) |-> [runqueues[c] EXCEPT !.load = Len(runqueues[c].queue)]]
  /\ UNCHANGED <<policy, threads, placed>>

\* Only the table is told how long a thread ran.
cpu_scheduler_update_vruntime(id) ==
  \E i \in First(Copies(threads, id)) :
    /\ threads[i].vruntime < MaxRuntime
    /\ threads' = [threads EXCEPT ![i].vruntime = @ + 1]
    /\ UNCHANGED <<policy, runqueues, placed>>

\* The first entry of the thread in state s is put into state t.
Turn(id, s, t) ==
  \E i \in First({i \in Copies(threads, id) : threads[i].state = s}) :
    /\ threads' = [threads EXCEPT ![i].state = t]
    /\ UNCHANGED <<policy, runqueues, placed>>

cpu_scheduler_sleep_thread(id) == Turn(id, "RUNNABLE", "SLEEPING")
cpu_scheduler_wake_up_thread(id) == Turn(id, "SLEEPING", "RUNNABLE")

Cpu == 1..Len(runqueues)

Next ==
  \/ cpu_scheduler_add_runqueue \/ cpu_scheduler_update_runqueue_loads
  \/ \E c \in Cpu : cpu_scheduler_remove_runqueue(c)
  \/ \E id \in Id :
       \/ cpu_scheduler_update_vruntime(id)
       \/ cpu_scheduler_sleep_thread(id) \/ cpu_scheduler_wake_up_thread(id)
       \/ \E c \in Cpu : \/ cpu_scheduler_dequeue_thread(c, id) \/ cpu_scheduler_run_thread(c, id)
                         \/ cpu_scheduler_migrate_thread(id, c)
       \/ \E p \in Priority, a \in 0..MaxRunqueues : cpu_scheduler_enqueue_thread(id, p, a)

Spec == Init /\ [][Next]_vars

-----------------------------------------------------------------------------

\* The entry of queue q that cpu_scheduler_select_next_thread picks.
Selected(q) ==
  LET better(i, j) == \/ policy = "CFS" /\ q[i].vruntime < q[j].vruntime
                      \/ policy = "RT" /\ q[i].priority > q[j].priority
  IN First({i \in 1..Len(q) : \A j \in 1..Len(q) : ~better(j, i)})

\* The processors cpu_scheduler_find_load_balanced_cpu may name.
cpu_scheduler_find_load_balanced_cpu == First({c \in Cpu : \A d \in Cpu : runqueues[c].load <= runqueues[d].load})

\* The processor found for a new thread has a shortest queue, whatever was
\* enqueued, dequeued, migrated and removed before: load counts the queue.
BalancedCpuIsShortest ==
  \A c \in cpu_scheduler_find_load_balanced_cpu, d \in Cpu :
    Len(runqueues[c].queue) <= Len(runqueues[d].queue)

\* No thread gets lost or doubled on its way between queues: the copies of an id
\* in all queues are the ones enqueued, less the ones dequeued or gone with their
\* queue. In particular no migration meets a full queue, as every copy has an
\* entry of its own in the table.
NoThreadLost ==
  \A id \in Id :
    placed[id] = Cardinality({ci \in Cpu \X (1..MaxThreads) :
                                ci[2] \in Copies(runqueues[ci[1]].queue, id)})

\* The choice of a queue without priorities is its head, however long threads ran:
\* vruntime_ns grows in the table and not in the copies the CFS policy compares.
HeadIsNext ==
  policy # "RT" => \A c \in Cpu : runqueues[c].queue # << >> => Selected(runqueues[c].queue) = {1}
=============================================================================
