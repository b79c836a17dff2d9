--------------------------- MODULE DeadlockDetector ---------------------------
(***************************************************************************)
(* The deadlock half of fault-tolerance/watchdog_deadlock_detector.c: which *)
(* process waits for which, and the cycles the last detection found.  The   *)
(* watchdog half measures an elapsed time that is always 0 and never finds  *)
(* a timeout.                                                               *)
(***************************************************************************)
EXTENDS Naturals, Sequences

CONSTANTS
  Process, LockId,
  MaxDeps,     \* MAX_LOCK_DEPENDENCIES
  MaxCycles    \* MAX_DEADLOCK_CYCLES

VARIABLES
  lock_deps,        \* lock, holder and waiter of each dependency
  deadlock_cycles,  \* the two processes of each cycle, and is_resolved
  detected          \* history: the last step was a detection

vars == <<lock_deps, deadlock_cycles, detected>>

LockDependency == [lock : LockId, holder : Process, waiter : Process]
DeadlockCycle == [holder : Process, waiter : Process, is_resolved : BOOLEAN]

TypeOK ==
  /\ lock_deps \in Seq(LockDependency) /\ Len(lock_deps) <= MaxDeps
  /\ deadlock_cycles \in Seq(DeadlockCycle) /\ Len(deadlock_cycles) <= MaxCycles
  /\ detected \in BOOLEAN

Init == lock_deps = << >> /\ deadlock_cycles = << >> /\ detected = FALSE

lock_dependency_add(l, h, w) ==
  /\ Len(lock_deps) < MaxDeps
  /\ lock_deps' = Append(lock_deps, [lock |-> l, holder |-> h, waiter |-> w])
  /\ detected' = FALSE /\ UNCHANGED deadlock_cycles

\* s after memmove over its entry at i: the ones behind it move up.
MovedUp(s, i) == [j \in 1..(Len(s) - 1) |-> IF j < i THEN s[j] ELSE s[j + 1]]

\* The first dependency of the lock goes, other waiters of it stay.
lock_dependency_remove(l) ==
  \E i \in 1..Len(lock_deps) :
    /\ lock_deps[i].lock = l /\ \A j \in 1..(i - 1) : lock_deps[j].lock # l
    /\ lock_deps' = MovedUp(lock_deps, i)
    /\ detected' = FALSE /\ UNCHANGED deadlock_cycles

HalfMutual(d, e) == e.holder = d.waiter      \* mistaken Mutual: one direction only

\* The two dependencies wait for each other; longer cycles are not looked for.
Mutual(d, e) == e.holder = d.waiter /\ e.waiter = d.holder

\* The places of the dependencies that have a mutual one.
MutualPlaces == {i \in 1..Len(lock_deps) : \E j \in 1..Len(lock_deps) : Mutual(lock_deps[i], lock_deps[j])}

\* The outer loop comes to place[1], place[2], ... in the order of the table and
\* leaves one out only when the cycles found before it fill the table.
Visits(place, n) ==
  /\ \A k, l \in 1..n : k < l => place[k] < place[l]
  /\ \A i \in MutualPlaces :
       (\A k \in 1..n : place[k] # i) => n = MaxCycles /\ \A k \in 1..n : place[k] < i

deadlock_detect_cycles ==
  \E n \in 0..MaxCycles : \E place \in [1..n -> MutualPlaces] :
    /\ Visits(place, n)
    /\ deadlock_cycles' = [k \in 1..n |->
         [holder |-> lock_deps[place[k]].holder, waiter |-> lock_deps[place[k]].waiter, is_resolved |-> FALSE]]
    /\ detected' = TRUE /\ UNCHANGED lock_deps

\* cycle_id is the place in the table. Killing a process is left to the system:
\* deadlock_kill_process does nothing.
deadlock_resolve_cycle(id) ==
  /\ deadlock_cycles' = [deadlock_cycles EXCEPT ![id].is_resolved = TRUE]
  /\ detected' = FALSE /\ UNCHANGED lock_deps

Next ==
  \/ deadlock_detect_cycles
  \/ \E l \in LockId : lock_dependency_remove(l) \/ \E h, w \in Process : lock_dependency_add(l, h, w)
  \/ \E id \in 1..Len(deadlock_cycles) : deadlock_resolve_cycle(id)

Spec == Init /\ [][Next]_vars

-----------------------------------------------------------------------------

\* p waits for a lock q holds.
Waits(p, q) == \E i \in 1..Len(lock_deps) : lock_deps[i].waiter = p /\ lock_deps[i].holder = q

\* p waits for q directly or through others: q is in every set of processes that
\* has whatever p or one of its members waits for.
WaitsInTheEnd(p, q) ==
  \A S \in SUBSET Process :
    (\A r, s \in Process : r \in S \cup {p} /\ Waits(r, s) => s \in S) => q \in S

\* What a detection reports is a deadlock, each of the two processes waits for
\* the other, directly or through others; and two processes that wait for each
\* other directly are reported, unless the table is full.
DetectionExact ==
  detected =>
    LET reported == {{deadlock_cycles[i].holder, deadlock_cycles[i].waiter} : i \in 1..Len(deadlock_cycles)}
    IN
    /\ \A pair \in reported : \A p, q \in pair : WaitsInTheEnd(p, q)
    /\ \A p, q \in Process :
         Waits(p, q) /\ Waits(q, p) => {p, q} \in reported \/ Len(deadlock_cycles) = MaxCycles
=============================================================================
