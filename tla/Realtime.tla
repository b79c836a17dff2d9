------------------------------ MODULE Realtime ------------------------------
(***************************************************************************)
(* The real-time manager of kernel/realtime.c: tasks with a reservation of  *)
(* processor time for the hard ones, and timers.  Utilisations are whole    *)
(* percentages; a task whose period is 0 has an infinite one, and taking an *)
(* infinity from an infinity leaves NaN, for which every comparison fails.  *)
(***************************************************************************)
EXTENDS Naturals, Sequences, SequencesExt

CONSTANTS
  TaskId,
  Util,       \* worst_case_us / period_us of hard tasks, in percent
  MaxTasks,   \* MAX_RT_TASKS
  MaxTimers,  \* MAX_RT_TIMERS
  Inf, NaN,   \* the two doubles that are no numbers
  Soft        \* stands for the utilisation of a task that is not hard

VARIABLES
  tasks,        \* the table, up to task_count
  reservation,  \* cpu_reservation_percent
  finite,       \* history: no hard task was given the period 0
  admitted,     \* history: hard tasks of the table that rt_admit_task let in
  timers,       \* the timer table: timer_id and is_active
  newest_first  \* history: every timer deleted so far was the last of the table

taskVars == <<tasks, reservation, finite, admitted>>
timerVars == <<timers, newest_first>>
vars == <<taskVars, timerVars>>

RTTask ==
  [id : TaskId, util : Util \cup {Soft}, state : {"PENDING", "READY", "MISSED"},
   late : BOOLEAN] \* actual_runtime_us > deadline_us

RTTimer == [id : 1..MaxTimers, active : BOOLEAN]

TypeOK ==
  /\ tasks \in Seq(RTTask) /\ Len(tasks) <= MaxTasks
  /\ reservation \in Nat \cup {Inf, NaN}
  /\ finite \in BOOLEAN /\ newest_first \in BOOLEAN /\ admitted \subseteq TaskId
  /\ timers \in Seq(RTTimer) /\ Len(timers) <= MaxTimers

Init ==
  /\ tasks = << >> /\ reservation = 0 /\ finite = TRUE /\ admitted = {}
  /\ timers = << >> /\ newest_first = TRUE

Plus(x, y) == CASE NaN \in {x, y} -> NaN [] Inf \in {x, y} -> Inf [] OTHER -> x + y
Minus(x, y) ==
  CASE x = NaN \/ (x = Inf /\ y = Inf) -> NaN [] x = Inf -> Inf [] OTHER -> x - y
Exceeds100(x) == x = Inf \/ (x \in Nat /\ x > 100)

Find(id) == {i \in 1..Len(tasks) : tasks[i].id = id}

rt_create_task(id, util) ==
  /\ Len(tasks) < MaxTasks /\ Find(id) = {}
  /\ tasks' = Append(tasks, [id |-> id, util |-> util, state |-> "PENDING", late |-> FALSE])
  /\ reservation' = IF util = Soft THEN reservation ELSE Plus(reservation, util)
  /\ finite' = (finite /\ util # Inf)
  /\ UNCHANGED <<admitted, timerVars>>

rt_delete_task(id) ==
  \E i \in Find(id) :
    /\ reservation' = IF tasks[i].util = Soft THEN reservation
                      ELSE Minus(reservation, tasks[i].util)
    /\ tasks' = RemoveAt(tasks, i) /\ admitted' = admitted \ {id}
    /\ UNCHANGED <<finite, timerVars>>

rt_task_start(id) ==
  \E i \in Find(id) :
    /\ tasks[i].state = "PENDING"
    /\ tasks' = [tasks EXCEPT ![i].state = "READY"]
    /\ UNCHANGED <<reservation, finite, admitted, timerVars>>

\* The time that is added may or may not take the task past its deadline;
\* once past, every further call reports a miss.
rt_task_update_runtime(id) ==
  \E i \in Find(id) :
    /\ tasks' = [tasks EXCEPT ![i].state = "MISSED", ![i].late = TRUE]
    /\ UNCHANGED <<reservation, finite, admitted, timerVars>>

Admits(t) == t.util # Soft => ~Exceeds100(Plus(reservation, t.util))

rt_admit_task(id) ==
  \E i \in Find(id) :
    /\ Admits(tasks[i])
    /\ tasks' = [tasks EXCEPT ![i].state = "READY"]
    /\ admitted' = IF tasks[i].util = Soft THEN admitted ELSE admitted \cup {id}
    /\ UNCHANGED <<reservation, finite, timerVars>>

FindTimer(id) ==              \* the first timer with the id
  {i \in 1..Len(timers) : timers[i].id = id /\ \A j \in 1..(i - 1) : timers[j].id # id}

rt_create_timer ==
  /\ Len(timers) < MaxTimers
  /\ timers' = Append(timers, [id |-> Len(timers) + 1, active |-> FALSE])
  /\ UNCHANGED <<newest_first, taskVars>>

Switch(id, on) ==
  \E i \in FindTimer(id) :
    /\ timers' = [timers EXCEPT ![i].active = on]
    /\ UNCHANGED <<newest_first, taskVars>>

rt_start_timer(id) == Switch(id, TRUE)
rt_stop_timer(id) == Switch(id, FALSE)

rt_delete_timer(id) ==
  \E i \in FindTimer(id) :
    /\ timers' = RemoveAt(timers, i)
    /\ newest_first' = (newest_first /\ i = Len(timers))
    /\ UNCHANGED taskVars

TaskNext ==
  \E id \in TaskId :
    \/ \E util \in Util \cup {Soft} : rt_create_task(id, util)
    \/ rt_delete_task(id) \/ rt_task_start(id) \/ rt_task_update_runtime(id) \/ rt_admit_task(id)

TimerNext ==
  \/ rt_create_timer
  \/ \E id \in 1..MaxTimers : rt_start_timer(id) \/ rt_stop_timer(id) \/ rt_delete_timer(id)

TaskSpec == Init /\ [][TaskNext]_vars
TimerSpec == Init /\ [][TimerNext]_vars

-----------------------------------------------------------------------------

UtilOf(S) ==
  FoldSeq(LAMBDA t, sum : IF t.id \in S /\ t.util # Soft THEN sum + t.util ELSE sum, 0, tasks)

\* Unless a period was 0, the reservation is what the hard tasks of the table
\* need together: creating and deleting in any order neither loses nor keeps time.
ReservationIsSum == finite => reservation = UtilOf(TaskId)

\* Unless a period was 0, the hard tasks that rt_admit_task let in fit the
\* processor together, whichever tasks were created, started without admission
\* or deleted in between.
AdmittedFit == finite => UtilOf(admitted) <= 100

\* As long as only the last timer of the table is deleted, no two timers have
\* the same id, so that starting, stopping and deleting reach the right one.
TimerIdsUnique ==
  newest_first => \A i, j \in 1..Len(timers) : timers[i].id = timers[j].id => i = j
=============================================================================
