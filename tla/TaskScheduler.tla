----------------------------- MODULE TaskScheduler -----------------------------
(***************************************************************************)
(* advanced-scheduling/task_scheduler.c: the run queues of the cores, which  *)
(* only ever grow, and advanced-scheduling/deadline_scheduler.c: tasks with  *)
(* deadlines, their admission and the misses found.  The two parts share no  *)
(* state.  Names, priorities, the policy and averages are read by nothing    *)
(* that decides; processor time is counted in slices.  Balancing and         *)
(* migration do nothing in the code.                                         *)
(***************************************************************************)
EXTENDS Integers, Sequences, FiniteSets, SequencesExt

CONSTANTS
  CoreCount,       \* core_count
  MaxTasks,        \* MAX_TASKS: the table, and each run queue
  Masks,           \* the sets of cores given to scheduler_set_cpu_affinity
  AllCores,        \* the affinity 0xFFFFFFFF a task starts with
  MaxSlices,       \* bound on the slices of one task
  MaxPeriodic,     \* MAX_PERIODIC_TASKS
  MaxAperiodic,    \* MAX_APERIODIC_TASKS
  Width,           \* times are computed modulo this, 2^64 in the code
  Arrival, Relative, Period, Computation,   \* the times tasks are added with
  MaxMissed        \* bound on tasks_missed_deadline

VARIABLES
  tasks,           \* the task table; task_id is the place
  queues,          \* per run queue the places of its tasks
  current,         \* current_task_index of each run queue
  pinned,          \* history: an affinity was ever set
  periodic, aperiodic, next_deadline_task_id, tasks_missed_deadline

queueVars == <<tasks, queues, current, pinned>>
deadlineVars == <<periodic, aperiodic, next_deadline_task_id, tasks_missed_deadline>>
vars == <<tasks, queues, current, pinned, periodic, aperiodic, next_deadline_task_id, tasks_missed_deadline>>

Queue == 0..(IF CoreCount > 2 THEN CoreCount - 1 ELSE 1)    \* run queue 1 is used on one core, too
Core == 0..(CoreCount - 1)
State == {"CREATED", "READY", "RUNNING", "SUSPENDED", "TERMINATED"}
Task == [state : State, affinity : Masks \union {AllCores}, slices : 0..MaxSlices]

Time == 0..(Width - 1)
DeadlineTask ==
  [id : 1..(MaxPeriodic + MaxAperiodic), absolute : Time, period : Period \union {0}, computation : Computation,
   end : Time, feasible : BOOLEAN, completed : BOOLEAN, missed : BOOLEAN]

TypeOK ==
  /\ tasks \in Seq(Task) /\ Len(tasks) <= MaxTasks
  /\ queues \in [Queue -> Seq(DOMAIN tasks)] /\ \A q \in Queue : Len(queues[q]) <= MaxTasks
  /\ current \in [Queue -> 0..(MaxTasks - 1)] /\ pinned \in BOOLEAN
  /\ periodic \in Seq(DeadlineTask) /\ Len(periodic) <= MaxPeriodic
  /\ aperiodic \in Seq(DeadlineTask) /\ Len(aperiodic) <= MaxAperiodic
  /\ next_deadline_task_id \in 1..(MaxPeriodic + MaxAperiodic + 1)
  /\ tasks_missed_deadline \in 0..MaxMissed

Init ==
  /\ tasks = << >> /\ queues = [q \in Queue |-> << >>] /\ current = [q \in Queue |-> 0] /\ pinned = FALSE
  /\ periodic = << >> /\ aperiodic = << >> /\ next_deadline_task_id = 1 /\ tasks_missed_deadline = 0

-----------------------------------------------------------------------------
(* Run queues *)

scheduler_create_task ==
  /\ Len(tasks) < MaxTasks
  /\ tasks' = Append(tasks, [state |-> "CREATED", affinity |-> AllCores, slices |-> 0])
  /\ UNCHANGED <<queues, current, pinned>>

SetState(t, state) ==
  /\ tasks' = [tasks EXCEPT ![t].state = state]
  /\ UNCHANGED <<queues, current, pinned>>

scheduler_destroy_task(t) == SetState(t, "TERMINATED")
scheduler_terminate_task(t) == SetState(t, "TERMINATED")
scheduler_suspend_task(t) == SetState(t, "SUSPENDED")

scheduler_set_cpu_affinity(t, mask) ==
  /\ tasks' = [tasks EXCEPT ![t].affinity = mask] /\ pinned' = TRUE
  /\ UNCHANGED <<queues, current>>

FirstCore(mask) ==          \* the first of the cores in the mask; 0 when it has none
  IF mask \intersect Core = {} THEN 0 ELSE CHOOSE c \in mask \intersect Core : \A d \in mask \intersect Core : c <= d

TargetQueue(t) ==
  IF tasks[t].affinity # AllCores THEN FirstCore(tasks[t].affinity)
  ELSE IF Len(queues[0]) < Len(queues[1]) THEN 0 ELSE 1

\* The task becomes READY even if its queue is full and the call fails.
scheduler_enqueue_task(t) ==
  LET q == TargetQueue(t)
  IN /\ tasks' = [tasks EXCEPT ![t].state = "READY"]
     /\ queues' = IF Len(queues[q]) < MaxTasks THEN [queues EXCEPT ![q] = Append(@, t)] ELSE queues
     /\ UNCHANGED <<current, pinned>>

scheduler_resume_task(t) == tasks[t].state = "SUSPENDED" /\ scheduler_enqueue_task(t)

Advanced(q) == (current[q] + 1) % Len(queues[q])

\* Nothing leaves the queue: only the place of the current task moves on.
scheduler_dequeue_task(q) ==
  /\ queues[q] # << >>
  /\ current' = [current EXCEPT ![q] = Advanced(q)]
  /\ UNCHANGED <<tasks, queues, pinned>>

ReadyTask(q) == IF queues[q] = << >> THEN {} ELSE {queues[q][current[q] + 1]}

Dispatch(table, q) ==
  [t \in DOMAIN table |->
     IF t \in ReadyTask(q) /\ table[t].state = "READY"
     THEN [table[t] EXCEPT !.state = "RUNNING", !.slices = @ + 1] ELSE table[t]]

\* Core after core, each on the table the ones before it left.
scheduler_run_scheduling_cycle ==
  /\ \A t \in DOMAIN tasks : tasks[t].slices < MaxSlices
  /\ tasks' = FoldLeft(Dispatch, tasks, [i \in 1..CoreCount |-> i - 1])
  /\ UNCHANGED <<queues, current, pinned>>

\* A task switched to itself ends RUNNING.
scheduler_context_switch(from, to) ==
  /\ tasks' = [[tasks EXCEPT ![from].state = "READY"] EXCEPT ![to].state = "RUNNING"]
  /\ UNCHANGED <<queues, current, pinned>>

QueuesNext ==
  /\ \/ scheduler_create_task
     \/ \E t \in DOMAIN tasks :
          \/ scheduler_destroy_task(t) \/ scheduler_terminate_task(t) \/ scheduler_suspend_task(t)
          \/ \E mask \in Masks : scheduler_set_cpu_affinity(t, mask)
          \/ scheduler_enqueue_task(t) \/ scheduler_resume_task(t)
          \/ \E to \in DOMAIN tasks : scheduler_context_switch(t, to)
     \/ \E q \in Core : scheduler_dequeue_task(q)
     \/ scheduler_run_scheduling_cycle
  /\ UNCHANGED deadlineVars

-----------------------------------------------------------------------------
(* Deadlines *)

NewTask(arrival, deadline, period, computation) ==
  [id |-> next_deadline_task_id, absolute |-> (arrival + deadline) % Width, period |-> period,
   computation |-> computation, end |-> 0, feasible |-> TRUE, completed |-> FALSE, missed |-> FALSE]

deadline_add_periodic_task(arrival, deadline, period, computation) ==
  /\ Len(periodic) < MaxPeriodic
  /\ periodic' = Append(periodic, NewTask(arrival, deadline, period, computation))
  /\ next_deadline_task_id' = next_deadline_task_id + 1
  /\ UNCHANGED <<aperiodic, tasks_missed_deadline>>

deadline_add_aperiodic_task(arrival, deadline, computation) ==
  /\ Len(aperiodic) < MaxAperiodic
  /\ aperiodic' = Append(aperiodic, NewTask(arrival, deadline, 0, computation))
  /\ next_deadline_task_id' = next_deadline_task_id + 1
  /\ UNCHANGED <<periodic, tasks_missed_deadline>>

RunAll(list) ==             \* mistaken: completed tasks run again
  [i \in DOMAIN list |-> [list[i] EXCEPT !.end = list[i].computation]]

Run(list) ==                \* actual_start_time is always 0
  [i \in DOMAIN list |-> IF list[i].completed THEN list[i] ELSE [list[i] EXCEPT !.end = list[i].computation]]

deadline_scheduler_run_cycle ==
  /\ periodic' = Run(periodic) /\ aperiodic' = Run(aperiodic)
  /\ UNCHANGED <<next_deadline_task_id, tasks_missed_deadline>>

\* The utilisation in parts of Unit, a multiple of every period; the code adds
\* up floats.
Unit == FoldSet(LAMBDA p, product : p * product, 1, Period \ {0})
Utilization ==
  FoldSeq(LAMBDA task, sum : sum + (IF task.period > 0 THEN task.computation * (Unit \div task.period) ELSE 0), 0, periodic)

Overloaded == Utilization > Unit

deadline_check_feasibility ==
  /\ periodic' = [i \in DOMAIN periodic |-> [periodic[i] EXCEPT !.feasible = @ /\ ~Overloaded]]
  /\ UNCHANGED <<aperiodic, next_deadline_task_id, tasks_missed_deadline>>

deadline_update_task_status(id) ==
  LET Completed(list) == [i \in DOMAIN list |-> IF list[i].id = id THEN [list[i] EXCEPT !.completed = TRUE] ELSE list[i]]
  IN /\ periodic' = Completed(periodic) /\ aperiodic' = Completed(aperiodic)
     /\ UNCHANGED <<next_deadline_task_id, tasks_missed_deadline>>

Late(list) == {i \in DOMAIN list : list[i].end > list[i].absolute}
Detected(list) == [i \in DOMAIN list |-> [list[i] EXCEPT !.missed = @ \/ i \in Late(list)]]

\* A task found late before is counted again.
deadline_detect_deadline_miss ==
  LET late == Cardinality(Late(periodic)) + Cardinality(Late(aperiodic))
  IN /\ tasks_missed_deadline + late <= MaxMissed
     /\ periodic' = Detected(periodic) /\ aperiodic' = Detected(aperiodic)
     /\ tasks_missed_deadline' = tasks_missed_deadline + late
     /\ UNCHANGED next_deadline_task_id

DeadlinesNext ==
  /\ \/ \E arrival \in Arrival, deadline \in Relative, computation \in Computation :
          \/ \E period \in Period : deadline_add_periodic_task(arrival, deadline, period, computation)
          \/ deadline_add_aperiodic_task(arrival, deadline, computation)
     \/ deadline_scheduler_run_cycle
     \/ deadline_check_feasibility
     \/ \E id \in 1..(next_deadline_task_id - 1) : deadline_update_task_status(id)
     \/ deadline_detect_deadline_miss
  /\ UNCHANGED queueVars

QueuesSpec == Init /\ [][QueuesNext]_vars
DeadlinesSpec == Init /\ [][DeadlinesNext]_vars

-----------------------------------------------------------------------------

\* Suspending and resuming puts a task into several queues, where it may be the
\* current one of two cores: a cycle still gives it one slice, for the second
\* core finds it RUNNING (scheduler_run_scheduling_cycle).
DispatchedOnce == [][\A t \in DOMAIN tasks : tasks'[t].slices <= tasks[t].slices + 1]_vars

\* The current place of a queue always is the place of an entry, however queues
\* grew between two calls of scheduler_dequeue_task, and no terminated task loses
\* its entry: scheduler_run_scheduling_cycle never reads an empty place.
CurrentInside == \A q \in Queue : current[q] < Len(queues[q]) \/ (queues[q] = << >> /\ current[q] = 0)

\* As long as nobody sets an affinity the first two queues are filled in turn,
\* the second one first, and an enqueue fails only when both are full.
DefaultsBalanced == ~pinned => Len(queues[1]) - Len(queues[0]) \in {0, 1}

\* A periodic task marked infeasible still belongs to a set that overloads the
\* processor: the mark is never taken back, and never has to be, since tasks are
\* only added.  A processor used fully is feasible.
InfeasibleIsTrue == (\E i \in DOMAIN periodic : ~periodic[i].feasible) => Utilization > Unit

\* Misses are true and none is missing from the count: a task marked late was run
\* past its deadline and not completed before it ran, and each was counted once
\* or more.
MissesSound ==
  /\ \A list \in {periodic, aperiodic} : \A i \in DOMAIN list : list[i].missed => list[i].end > list[i].absolute
  /\ tasks_missed_deadline >= Cardinality({i \in DOMAIN periodic : periodic[i].missed}) + Cardinality({i \in DOMAIN aperiodic : aperiodic[i].missed})

\* A task completed before it ran keeps its end time, 0, and is never found late;
\* nothing a completed task did changes afterwards.
CompletedIsFinal ==
  [][\A i \in DOMAIN periodic : periodic[i].completed => periodic'[i].completed /\ periodic'[i].end = periodic[i].end]_vars
=============================================================================
