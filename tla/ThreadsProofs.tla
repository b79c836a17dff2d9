--------------------------- MODULE ThreadsProofs ---------------------------
(***************************************************************************)
(* The tables of MCThreads for any set of threads, any table sizes and any *)
(* depth of recursive locking: mutexes and the threads that hold them,     *)
(* semaphores and the threads that use one as a pool of permits, the       *)
(* thread table, the deadlock detector and the run queues.                 *)
(***************************************************************************)
EXTENDS MCThreads, Integers, FiniteSets, TLAPS

-----------------------------------------------------------------------------
(* Mutexes *)

\* Slots that mutex_create has not reached yet are untouched.
FreshSlots ==
  \A m \in Slot : m > mutex_count =>
    ~is_locked[m] /\ owner_thread_id[m] = NoOwner

IInv == TypeOK /\ LockAgreement /\ FreshSlots

\* NoOwner is no thread's id.
LEMMA ThreadIds == NoOwner \notin Thread
BY MutexAssumption DEF NoOwner

\* The slot mutex_create fills is a slot of the table, and slots are numbers.
LEMMA NewSlot ==
  /\ \A m \in Slot : m \in Nat
  /\ mutex_count \in 0..MaxMutexes /\ mutex_count < MaxMutexes
       => mutex_count + 1 \in Slot
BY MutexAssumption DEF Slot

\* The waiting list that an unlock leaves is no longer than before.
LEMMA DropFirstType ==
  ASSUME NEW S, NEW s \in Seq(S)
  PROVE  DropFirst(s) \in Seq(S) /\ Len(DropFirst(s)) <= Len(s)
BY DEF DropFirst

\* The empty table satisfies the inductive invariant.
LEMMA InitIInv == Init => IInv
BY MutexAssumption
   DEF Init, IInv, TypeOK, LockAgreement, FreshSlots, NoOwner, Slot

\* Every call keeps the types.
LEMMA TypeStep == TypeOK /\ LockAgreement /\ [Next]_vars => TypeOK'
<1> SUFFICES ASSUME TypeOK, LockAgreement, [Next]_vars PROVE TypeOK'
  OBVIOUS
<1> USE DEF TypeOK
<1>1. CASE mutex_create
  <2>1. mutex_count' \in Slot /\ mutex_count' \in Nat /\ mutex_count' \in 0..MaxMutexes
    BY <1>1, NewSlot, MutexAssumption DEF mutex_create
  <2> QED
    BY <1>1, <2>1, MutexAssumption DEF mutex_create
<1>2. ASSUME NEW m \in Slot, NEW t \in Thread, Relock(m, t), UNCHANGED table
      PROVE  TypeOK'
  BY <1>2 DEF Relock, table
<1>3. ASSUME NEW m \in Slot, NEW t \in Thread, Take(m, t), UNCHANGED table
      PROVE  TypeOK'
  BY <1>3 DEF Take, Own, table
<1>4. ASSUME NEW m \in Slot, NEW t \in Thread, Enqueue(m, t), UNCHANGED table
      PROVE  TypeOK'
  <2>1. waiting_threads[m] \in Seq(Thread) /\ Len(waiting_threads[m]) + 1 <= MaxThreads
    BY <1>4, MutexAssumption DEF Enqueue
  <2>2. Append(waiting_threads[m], t) \in Seq(Thread)
        /\ Len(Append(waiting_threads[m], t)) <= MaxThreads
    BY <2>1
  <2> QED
    BY <1>4, <2>2 DEF Enqueue, table
<1>5. ASSUME NEW m \in Slot, NEW t \in Thread, mutex_unlock(m, t)
      PROVE  TypeOK'
  <2>1. DropFirst(waiting_threads[m]) \in Seq(Thread)
        /\ Len(DropFirst(waiting_threads[m])) <= MaxThreads
    <3>1. waiting_threads[m] \in Seq(Thread) /\ Len(waiting_threads[m]) <= MaxThreads
      OBVIOUS
    <3> QED
      BY <3>1, DropFirstType, MutexAssumption
  <2>2. lock_count[m] - 1 \in Nat /\ held[m][t] - 1 \in Nat
    BY <1>5, ThreadIds DEF mutex_unlock, LockAgreement
  <2> QED
    BY Zenon, <1>5, <2>1, <2>2 DEF mutex_unlock, Release, table
<1>6. ASSUME NEW m \in Slot, mutex_destroy(m) PROVE TypeOK'
  BY <1>6 DEF mutex_destroy, table
<1>7. CASE UNCHANGED vars
  BY <1>7 DEF vars, table
<1> QED
  BY Zenon, <1>1, <1>2, <1>3, <1>4, <1>5, <1>6, <1>7 DEF Next, mutex_lock, mutex_trylock

\* Every call keeps the table in agreement with what the callers were told.
LEMMA AgreementStep == IInv /\ [Next]_vars => (LockAgreement /\ FreshSlots)'
<1> SUFFICES ASSUME IInv, [Next]_vars PROVE (LockAgreement /\ FreshSlots)'
  OBVIOUS
<1> USE ThreadIds DEF IInv, TypeOK, LockAgreement, FreshSlots
<1>1. CASE mutex_create
  BY <1>1, NewSlot DEF mutex_create
<1>2. ASSUME NEW m \in Slot, NEW t \in Thread, Relock(m, t),
             m <= mutex_count, UNCHANGED table
      PROVE  (LockAgreement /\ FreshSlots)'
  BY <1>2 DEF Relock, table
<1>3. ASSUME NEW m \in Slot, NEW t \in Thread, Take(m, t),
             m <= mutex_count, UNCHANGED table
      PROVE  (LockAgreement /\ FreshSlots)'
  <2>1. FreshSlots'
    BY <1>3, NewSlot DEF Take, Own, table
  <2>2. ASSUME NEW n \in Slot, n # m PROVE
          /\ is_locked'[n] = is_locked[n] /\ owner_thread_id'[n] = owner_thread_id[n]
          /\ lock_count'[n] = lock_count[n] /\ held'[n] = held[n]
    BY <1>3, <2>2 DEF Take, Own
  <2>3. /\ is_locked'[m] /\ owner_thread_id'[m] = t /\ lock_count'[m] = 1
        /\ \A u \in Thread : held'[m][u] = IF u = t THEN 1 ELSE 0
    <3>1. \A u \in Thread : held[m][u] = 0
      BY <1>3 DEF Take
    <3> QED
      BY <1>3, <3>1 DEF Take, Own
  <2>4. t # NoOwner
    BY ThreadIds
  <2>5. ASSUME NEW n \in Slot PROVE
          /\ is_locked'[n] <=> owner_thread_id'[n] # NoOwner
          /\ is_locked'[n] <=> lock_count'[n] > 0
          /\ \A u \in Thread :
               held'[n][u] = IF owner_thread_id'[n] = u THEN lock_count'[n] ELSE 0
    <3>1. CASE n = m
      BY <2>3, <2>4, <3>1
    <3>2. CASE n # m
      BY <2>2, <3>2
    <3> QED
      BY <3>1, <3>2
  <2> QED
    BY <2>1, <2>5
<1>4. ASSUME NEW m \in Slot, NEW t \in Thread, Enqueue(m, t),
             m <= mutex_count, UNCHANGED table
      PROVE  (LockAgreement /\ FreshSlots)'
  BY <1>4 DEF Enqueue, table
<1>5. ASSUME NEW m \in Slot, NEW t \in Thread, mutex_unlock(m, t)
      PROVE  (LockAgreement /\ FreshSlots)'
  <2>1. FreshSlots'
    BY <1>5, NewSlot DEF mutex_unlock, Release, table
  <2>2. ASSUME NEW n \in Slot, n # m PROVE
          /\ is_locked'[n] = is_locked[n] /\ owner_thread_id'[n] = owner_thread_id[n]
          /\ lock_count'[n] = lock_count[n] /\ held'[n] = held[n]
    BY <1>5, <2>2 DEF mutex_unlock, Release
  <2>3. /\ lock_count'[m] = lock_count[m] - 1
        /\ is_locked'[m] <=> lock_count[m] # 1
        /\ owner_thread_id'[m] = IF lock_count[m] = 1 THEN NoOwner ELSE t
        /\ \A u \in Thread : held'[m][u] = IF u = t THEN lock_count[m] - 1 ELSE 0
    BY <1>5 DEF mutex_unlock, Release
  <2> QED
    BY <1>5, <2>1, <2>2, <2>3 DEF mutex_unlock
<1>6. ASSUME NEW m \in Slot, mutex_destroy(m)
      PROVE  (LockAgreement /\ FreshSlots)'
  BY <1>6 DEF mutex_destroy, table
<1>7. CASE UNCHANGED vars
  BY <1>7 DEF vars, table
<1> QED
  BY <1>1, <1>2, <1>3, <1>4, <1>5, <1>6, <1>7 DEF Next, mutex_lock, mutex_trylock

\* The inductive invariant holds in every state of the table.
THEOREM Invariance == Spec => []IInv
<1>1. IInv /\ [Next]_vars => IInv'
  BY TypeStep, AgreementStep DEF IInv
<1> QED
  BY InitIInv, <1>1, PTL DEF Spec

\* The types of the table.
THEOREM TypeCorrect == Spec => []TypeOK
BY Invariance, PTL DEF IInv

\* mutex_lock, mutex_trylock and mutex_unlock exclude each other's callers.
THEOREM Exclusion == Spec => []MutualExclusion
<1>1. IInv => MutualExclusion
  BY DEF IInv, LockAgreement, MutualExclusion
<1> QED
  BY Invariance, <1>1, PTL

\* The lock records agree with the answers the callers were given.
THEOREM Agreement == Spec => []LockAgreement
BY Invariance, PTL DEF IInv

\* A step that takes a mutex from its owner leaves it free, given back in full.
FreedByOwner ==
  \A m \in Slot :
    owner_thread_id[m] \notin {NoOwner, owner_thread_id'[m]}
      => /\ owner_thread_id'[m] = NoOwner
         /\ held'[m][owner_thread_id[m]] = 0

\* Every call is such a step.
LEMMA HandoverStep == IInv /\ [Next]_vars => [FreedByOwner]_vars
<1> SUFFICES ASSUME IInv, Next, NEW m \in Slot,
                    owner_thread_id[m] \notin {NoOwner, owner_thread_id'[m]}
             PROVE  /\ owner_thread_id'[m] = NoOwner
                    /\ held'[m][owner_thread_id[m]] = 0
  BY DEF FreedByOwner
<1> USE ThreadIds DEF IInv, TypeOK, LockAgreement
<1>1. CASE mutex_create
  BY <1>1 DEF mutex_create, FreshSlots
<1>2. ASSUME NEW n \in Slot, NEW t \in Thread, Relock(n, t) \/ Take(n, t) \/ Enqueue(n, t)
      PROVE  FALSE
  BY <1>2 DEF Relock, Take, Own, Enqueue
<1>3. ASSUME NEW n \in Slot, NEW t \in Thread, mutex_unlock(n, t)
      PROVE  /\ owner_thread_id'[m] = NoOwner
             /\ held'[m][owner_thread_id[m]] = 0
  BY <1>3 DEF mutex_unlock, Release, table
<1>4. ASSUME NEW n \in Slot, mutex_destroy(n) PROVE FALSE
  BY <1>4 DEF mutex_destroy, table
<1> QED
  BY <1>1, <1>2, <1>3, <1>4 DEF Next, mutex_lock, mutex_trylock

\* Only the owner's last unlock frees a mutex, and nothing hands it over.
THEOREM Handover == Spec => NoDirectHandover
<1>1. IInv /\ [Next]_vars => [FreedByOwner]_vars
  BY HandoverStep
<1> QED
  BY Invariance, <1>1, PTL DEF Spec, NoDirectHandover, FreedByOwner

-----------------------------------------------------------------------------
(* The composition *)

\* A step of the system is a step of one component: the others keep all they have.
LEMMA OneMoves ==
  [Step]_all =>
    /\ subject' = subject
    /\ \/ subject = "mutexes" /\ Next /\ UNCHANGED <<phase, level>>
       \/ subject = "holders" /\ ClientNext
       \/ UNCHANGED clientVars
    /\ \/ subject = "semaphores" /\ Semaphores!Next
       \/ subject = "permits" /\ Semaphores!ClientNext
       \/ UNCHANGED semaphoresVars
    /\ [Threads!Next]_threadsVars
    /\ [Cpus!Next]_cpusVars
    /\ [Deadlocks!Next]_deadlocksVars
BY DEF Step, all, clientVars, vars, table, semaphoresVars, threadsVars, cpusVars, deadlocksVars

-----------------------------------------------------------------------------
(* The thread table *)

\* What the thread table keeps: its slots beyond thread_count were never started
\* and have no end, whatever a creation that failed half way left in them.
ThreadsInv ==
  /\ Threads!TypeOK /\ Threads!IdsNameSlots /\ Threads!StartedAtMostOnce /\ Threads!EndIsRecorded
  /\ \A i \in Threads!Slot : i > thread_count => starts[i] = 0 /\ state[i] = "CREATED"

\* Every call of the thread table keeps its invariant.
LEMMA ThreadsStep == ThreadsInv /\ [Threads!Next]_threadsVars => ThreadsInv'
<1> SUFFICES ASSUME ThreadsInv, [Threads!Next]_threadsVars PROVE ThreadsInv'
  OBVIOUS
<1> USE MutexAssumption
    DEF ThreadsInv, Threads!TypeOK, Threads!IdsNameSlots, Threads!StartedAtMostOnce,
        Threads!EndIsRecorded, Threads!Known, Threads!Slot, Threads!State
<1>1. ASSUME NEW i \in Threads!Slot, Threads!Fill(i), UNCHANGED starts,
             \/ thread_count' = i /\ terminated' = terminated \ {i}
                /\ total_threads_created' = total_threads_created + 1
             \/ UNCHANGED <<thread_count, terminated, total_threads_created>>
      PROVE  ThreadsInv'
  <2>1. /\ i = thread_count + 1 /\ i \in Nat /\ i <= MaxThreads
        /\ \A j \in Threads!Slot : thread_id'[j] = IF j = i THEN i ELSE thread_id[j]
        /\ \A j \in Threads!Slot : state'[j] = IF j = i THEN "CREATED" ELSE state[j]
    BY <1>1 DEF Threads!Fill
  <2>2. /\ thread_id' \in [Threads!Slot -> 0..MaxThreads] /\ state' \in [Threads!Slot -> Threads!State]
        /\ starts' \in [Threads!Slot -> Nat]
    BY <1>1, <2>1 DEF Threads!Fill
  <2>3. CASE /\ thread_count' = i /\ terminated' = terminated \ {i}
             /\ total_threads_created' = total_threads_created + 1
    BY <1>1, <2>1, <2>2, <2>3
  <2>4. CASE UNCHANGED <<thread_count, terminated, total_threads_created>>
    BY <1>1, <2>1, <2>2, <2>4
  <2> QED
    BY <1>1, <2>3, <2>4
<1>2. ASSUME NEW i \in Threads!Slot, Threads!thread_start(i) PROVE ThreadsInv'
  BY <1>2 DEF Threads!thread_start, Threads!Become
<1>3. ASSUME NEW i \in Threads!Slot, NEW s \in {"RUNNING", "WAITING", "SUSPENDED"},
             Threads!Known(i), Threads!Become(i, s), UNCHANGED <<terminated, starts>>
      PROVE  ThreadsInv'
  <2>1. \A j \in Threads!Slot : state'[j] = IF j = i THEN s ELSE state[j]
    BY <1>3 DEF Threads!Become
  <2>2. Threads!TypeOK'
    BY <1>3 DEF Threads!Become
  <2> QED
    BY <1>3, <2>1, <2>2 DEF Threads!Become
<1>4. ASSUME NEW i \in Threads!Slot, Threads!Known(i), Threads!Become(i, "TERMINATED"),
             terminated' = terminated \cup {i}, UNCHANGED starts
      PROVE  ThreadsInv'
  <2>1. \A j \in Threads!Slot : state'[j] = IF j = i THEN "TERMINATED" ELSE state[j]
    BY <1>4 DEF Threads!Become
  <2>2. Threads!TypeOK'
    BY <1>4 DEF Threads!Become
  <2> QED
    BY <1>4, <2>1, <2>2 DEF Threads!Become
<1>5. CASE UNCHANGED threadsVars
  BY <1>5 DEF threadsVars
<1> QED
  BY Zenon, <1>1, <1>2, <1>3, <1>4, <1>5
     DEF Threads!Next, Threads!thread_create, Threads!thread_create_no_memory,
         Threads!thread_join, Threads!thread_detach, Threads!thread_exit,
         Threads!thread_cancel, Threads!thread_suspend, Threads!thread_resume

\* The empty thread table satisfies it.
LEMMA ThreadsInit == Start => ThreadsInv
BY MutexAssumption
   DEF Start, Threads!Init, ThreadsInv, Threads!TypeOK, Threads!IdsNameSlots,
       Threads!StartedAtMostOnce, Threads!EndIsRecorded, Threads!Known, Threads!Slot, Threads!State

-----------------------------------------------------------------------------
(* Semaphores *)

\* What the semaphore table keeps: its slots beyond semaphore_count were never used.
PermitsInv ==
  /\ Semaphores!TypeOK /\ Semaphores!PermitsConserved
  /\ \A m \in Semaphores!Slot :
       m > semaphore_count => out[m] = 0 /\ initial[m] = 0 /\ max_count[m] = 0

\* The slot semaphore_create fills is a slot, the pool is one, and slots are numbers.
LEMMA SemaphoreSlots ==
  /\ \A m \in Semaphores!Slot : m \in Nat
  /\ Semaphores!Pool \in Semaphores!Slot
  /\ semaphore_count \in 0..MaxSemaphores /\ semaphore_count < MaxSemaphores
       => /\ semaphore_count + 1 \in Semaphores!Slot
          /\ semaphore_count + 1 \in 0..MaxSemaphores /\ semaphore_count + 1 \in Nat
BY TablesAssumption DEF Semaphores!Slot, Semaphores!Pool

\* The program counters of threads that use a pool stay what they are.
LEMMA GotoType ==
  ASSUME pc \in [Thread -> {"idle", "asking", "inside"}], NEW t \in Thread, NEW from,
         NEW to \in {"idle", "asking", "inside"}, Semaphores!Goto(t, from, to)
  PROVE  pc' \in [Thread -> {"idle", "asking", "inside"}]
BY DEF Semaphores!Goto

\* The empty semaphore table satisfies the invariant.
LEMMA PermitsInit == Start => PermitsInv
BY MutexAssumption, TablesAssumption
   DEF Start, Semaphores!Init, PermitsInv, Semaphores!TypeOK, Semaphores!PermitsConserved,
       Semaphores!Slot

\* What PermitsInv says of one slot.
Account(m) ==
  /\ count[m] + out[m] = initial[m]
  /\ count[m] <= IF initial[m] > max_count[m] THEN initial[m] ELSE max_count[m]
  /\ m > semaphore_count => out[m] = 0 /\ initial[m] = 0 /\ max_count[m] = 0

\* The numbers of a slot.
LEMMA SlotNumbers ==
  Semaphores!TypeOK => \A m \in Semaphores!Slot :
    /\ count[m] \in Nat /\ max_count[m] \in Nat /\ initial[m] \in Nat /\ out[m] \in Int
    /\ semaphores_waiting_threads[m] \in Seq(Thread)
    /\ Len(semaphores_waiting_threads[m]) <= MaxThreads /\ semaphore_count \in Nat
BY DEF Semaphores!TypeOK

\* PermitsInv, slot by slot.
LEMMA SlotBySlot ==
  PermitsInv <=> Semaphores!TypeOK /\ \A m \in Semaphores!Slot : Account(m)
BY DEF PermitsInv, Semaphores!PermitsConserved, Account

\* Every call keeps it, by whomever it is made.
LEMMA PermitsStep ==
  PermitsInv /\ (Semaphores!Next \/ Semaphores!ClientNext \/ UNCHANGED semaphoresVars) => PermitsInv'
<1> SUFFICES ASSUME PermitsInv,
                    Semaphores!Next \/ Semaphores!ClientNext \/ UNCHANGED semaphoresVars
             PROVE  PermitsInv'
  OBVIOUS
<1>0. pc' \in [Thread -> {"idle", "asking", "inside"}]
  BY GotoType DEF PermitsInv, Semaphores!TypeOK, Semaphores!Next, Semaphores!ClientNext, Semaphores!Open,
       Semaphores!Ask, Semaphores!Wait, Semaphores!Post, semaphoresVars
<1>t. Semaphores!TypeOK /\ \A m \in Semaphores!Slot : Account(m)
  BY SlotBySlot
<1>q. Semaphores!TypeOK' /\ (\A m \in Semaphores!Slot : Account(m)') => PermitsInv'
  BY DEF PermitsInv, Semaphores!PermitsConserved, Account
<1>1. ASSUME NEW i \in 0..MaxCount, NEW max \in 0..MaxCount, Semaphores!semaphore_create(i, max)
      PROVE  PermitsInv'
  <2>1. /\ semaphore_count' = semaphore_count + 1 /\ semaphore_count \in Nat /\ i \in Nat /\ max \in Nat
        /\ semaphore_count + 1 \in Semaphores!Slot /\ semaphore_count' \in 0..MaxSemaphores
    BY <1>1, <1>t, SemaphoreSlots, TablesAssumption DEF Semaphores!semaphore_create, Semaphores!TypeOK
  <2>2. Semaphores!TypeOK'
    <3>1. << >> \in Seq(Thread) /\ Len(<< >>) <= MaxThreads
      BY MutexAssumption
    <3> QED
      BY <1>0, <1>1, <1>t, <2>1, <3>1 DEF Semaphores!semaphore_create, Semaphores!TypeOK
  <2>3. ASSUME NEW m \in Semaphores!Slot PROVE Account(m)'
    <3>1. /\ out'[m] = out[m]
          /\ count'[m] = IF m = semaphore_count + 1 THEN i ELSE count[m]
          /\ initial'[m] = IF m = semaphore_count + 1 THEN i ELSE initial[m]
          /\ max_count'[m] = IF m = semaphore_count + 1 THEN max ELSE max_count[m]
      BY <1>1, <1>t, <2>1 DEF Semaphores!semaphore_create, Semaphores!TypeOK
    <3>2. Account(m) /\ m \in Nat
      BY <1>t, SemaphoreSlots
    <3>3. CASE m = semaphore_count + 1
      BY <2>1, <3>1, <3>2, <3>3 DEF Account
    <3>4. CASE m # semaphore_count + 1
      BY <2>1, <3>1, <3>2, <3>4 DEF Account
    <3> QED
      BY <3>3, <3>4
  <2> QED
    BY <1>q, <2>2, <2>3
<1>2. ASSUME NEW m \in Semaphores!Slot, m <= semaphore_count, Semaphores!Grant(m),
             UNCHANGED Semaphores!table
      PROVE  PermitsInv'
  <2>1. count[m] - 1 \in Nat /\ out[m] + 1 \in Int
    BY <1>2, <1>t, SlotNumbers DEF Semaphores!Grant
  <2>2. Semaphores!TypeOK'
    BY <1>0, <1>2, <1>t, <2>1 DEF Semaphores!Grant, Semaphores!table, Semaphores!TypeOK
  <2>3. ASSUME NEW n \in Semaphores!Slot PROVE Account(n)'
    <3>1. /\ count'[n] = IF n = m THEN count[n] - 1 ELSE count[n]
          /\ out'[n] = IF n = m THEN out[n] + 1 ELSE out[n]
          /\ UNCHANGED <<semaphore_count, initial, max_count>>
      BY <1>2, <1>t DEF Semaphores!Grant, Semaphores!table, Semaphores!TypeOK
    <3>2. /\ Account(n) /\ n \in Nat /\ semaphore_count \in Nat /\ count[n] \in Nat
          /\ out[n] \in Int /\ initial[n] \in Nat /\ max_count[n] \in Nat
      BY <1>t, SlotNumbers, SemaphoreSlots
    <3> QED
      BY <1>2, <3>1, <3>2 DEF Account
  <2> QED
    BY <1>q, <2>2, <2>3
<1>3. ASSUME NEW m \in Semaphores!Slot, NEW t \in Thread, Semaphores!Note(m, t),
             UNCHANGED Semaphores!table
      PROVE  PermitsInv'
  <2>1. semaphores_waiting_threads[m] \in Seq(Thread) /\ Len(semaphores_waiting_threads[m]) <= MaxThreads
    BY <1>t, SlotNumbers
  <2>2. Len(semaphores_waiting_threads[m]) < MaxThreads =>
          /\ Append(semaphores_waiting_threads[m], t) \in Seq(Thread)
          /\ Len(Append(semaphores_waiting_threads[m], t)) <= MaxThreads
    BY <2>1, MutexAssumption
  <2>3. Semaphores!TypeOK'
    BY <1>0, <1>3, <1>t, <2>1, <2>2 DEF Semaphores!Note, Semaphores!table, Semaphores!TypeOK
  <2> QED
    BY <1>3, <1>q, <1>t, <2>3 DEF Semaphores!Note, Semaphores!table, Account
<1>4. ASSUME NEW m \in Semaphores!Slot, Semaphores!semaphore_post(m)
      PROVE  PermitsInv'
  <2> DEFINE w == semaphores_waiting_threads[m]
  <2>1. w \in Seq(Thread) /\ Len(w) <= MaxThreads /\ MaxThreads \in Nat
    BY <1>t, SlotNumbers, MutexAssumption
  <2>2. /\ (IF w = << >> THEN w ELSE Tail(w)) \in Seq(Thread)
        /\ Len(IF w = << >> THEN w ELSE Tail(w)) <= MaxThreads
    <3> HIDE DEF w
    <3> QED
      BY <2>1
  <2>3. count[m] + 1 \in Nat /\ out[m] - 1 \in Int
    BY <1>t, SlotNumbers
  <2>4. Semaphores!TypeOK'
    BY <1>0, <1>4, <1>t, <2>2, <2>3 DEF Semaphores!semaphore_post, Semaphores!table, Semaphores!TypeOK
  <2>5. ASSUME NEW n \in Semaphores!Slot PROVE Account(n)'
    <3>1. /\ count'[n] = IF n = m THEN count[n] + 1 ELSE count[n]
          /\ out'[n] = IF n = m THEN out[n] - 1 ELSE out[n]
          /\ UNCHANGED <<semaphore_count, initial, max_count>>
          /\ m <= semaphore_count /\ count[m] < max_count[m]
      BY <1>4, <1>t DEF Semaphores!semaphore_post, Semaphores!table, Semaphores!TypeOK
    <3>2. /\ Account(n) /\ n \in Nat /\ semaphore_count \in Nat /\ count[n] \in Nat
          /\ out[n] \in Int /\ initial[n] \in Nat /\ max_count[n] \in Nat
      BY <1>t, SlotNumbers, SemaphoreSlots
    <3> QED
      BY <3>1, <3>2 DEF Account
  <2> QED
    BY <1>q, <2>4, <2>5
<1>5. ASSUME NEW m \in Semaphores!Slot, Semaphores!semaphore_destroy(m)
      PROVE  PermitsInv'
  <2>1. Semaphores!TypeOK'
    BY <1>0, <1>5, <1>t DEF Semaphores!semaphore_destroy, Semaphores!TypeOK
  <2> QED
    BY <1>5, <1>q, <1>t, <2>1 DEF Semaphores!semaphore_destroy, Account
<1>6. ASSUME UNCHANGED Semaphores!calls PROVE PermitsInv'
  BY <1>0, <1>6, <1>q, <1>t DEF Semaphores!calls, Semaphores!table, Semaphores!TypeOK, Account
<1>7. CASE UNCHANGED semaphoresVars
  BY <1>6, <1>7 DEF semaphoresVars, Semaphores!calls, Semaphores!table
<1>8. CASE Semaphores!Next
  BY <1>1, <1>2, <1>3, <1>4, <1>5, <1>8 DEF Semaphores!Next, Semaphores!semaphore_wait
<1>9. CASE Semaphores!ClientNext
  <2>1. \A n \in 1..MaxCount : n \in 0..MaxCount
    BY TablesAssumption
  <2>2. ASSUME NEW n \in 1..MaxCount, Semaphores!Open(n) PROVE PermitsInv'
    BY <1>1, <2>1, <2>2 DEF Semaphores!Open
  <2>3. ASSUME NEW t \in Thread, Semaphores!Ask(t) PROVE PermitsInv'
    BY <1>6, <2>3 DEF Semaphores!Ask
  <2>4. ASSUME NEW t \in Thread, Semaphores!Wait(t) PROVE PermitsInv'
    BY <1>2, <1>3, <2>4, SemaphoreSlots DEF Semaphores!Wait, Semaphores!semaphore_wait
  <2>5. ASSUME NEW t \in Thread, Semaphores!Post(t) PROVE PermitsInv'
    BY <1>4, <2>5, SemaphoreSlots DEF Semaphores!Post
  <2> QED
    BY <1>9, <2>2, <2>3, <2>4, <2>5 DEF Semaphores!ClientNext
<1> QED
  BY <1>7, <1>8, <1>9

-----------------------------------------------------------------------------
(* Threads that hold mutexes in order *)

\* A thread was answered 0 once for each of the first level[t] mutexes and for
\* no other; threads that are not exercised hold none.
HoldersInv ==
  /\ level \in [Thread -> 0..MaxMutexes]
  /\ phase \in [Thread -> {"idle", "locking", "unlocking"}]
  /\ \A t \in Thread : phase[t] = "unlocking" => level[t] >= 1
  /\ subject = "holders" =>
       \A m \in Slot, t \in Thread : held[m][t] = IF m <= level[t] THEN 1 ELSE 0
  /\ subject # "holders" => \A t \in Thread : level[t] = 0

\* The mutexes a thread asks for or gives back are slots.
LEMMA Levels ==
  /\ \A n \in 0..MaxMutexes : n < MaxMutexes => n + 1 \in Slot /\ n + 1 \in 0..MaxMutexes
  /\ \A n \in 0..MaxMutexes : n >= 1 => n \in Slot /\ n - 1 \in 0..MaxMutexes
  /\ \A n \in 0..MaxMutexes : n \in Nat
  /\ MaxMutexes \in 0..MaxMutexes /\ MaxMutexes >= 1 /\ 0 \in 0..MaxMutexes
BY MutexAssumption, TablesAssumption DEF Slot

\* Initially nothing is held.
LEMMA HoldersInit == Start => IInv /\ HoldersInv
<1>1. Start => Init /\ IInv
  BY InitIInv DEF Start, ClientInit
<1> QED
  BY <1>1, MutexAssumption, Levels DEF Start, ClientInit, Init, HoldersInv, Slot

\* A call of mutex_lock for the next mutex is answered 0 exactly when the thread's
\* own count of it becomes 1: it never meets a mutex it already has.
LEMMA NextMutex ==
  ASSUME IInv, NEW t \in Thread, NEW m \in Slot, held[m][t] = 0, mutex_lock(m, t)
  PROVE  \/ held' = held
         \/ held' # held /\ held' = [held EXCEPT ![m][t] = 1]
<1> USE DEF IInv, TypeOK
<1>1. ~Relock(m, t)
  BY ThreadIds DEF Relock, LockAgreement
<1>2. CASE Enqueue(m, t)
  BY <1>2 DEF Enqueue
<1>3. CASE Take(m, t)
  <2>1. held' = [held EXCEPT ![m][t] = 1]
    BY <1>3 DEF Take, Own
  <2>2. held'[m][t] = 1
    BY <2>1
  <2> QED
    BY <2>1, <2>2
<1> QED
  BY <1>1, <1>2, <1>3 DEF mutex_lock

\* The threads' calls are calls of the table.
LEMMA HoldersCall ==
  HoldersInv /\ ClientNext => [Next]_vars
<1> SUFFICES ASSUME HoldersInv, ClientNext PROVE [Next]_vars
  OBVIOUS
<1>1. ASSUME NEW t \in Thread, Lock(t) PROVE Next
  <2>1. level[t] + 1 \in Slot
    BY <1>1, Levels DEF HoldersInv, Lock
  <2> QED
    BY <1>1, <2>1 DEF Lock, Next
<1>2. ASSUME NEW t \in Thread, Unlock(t) PROVE Next
  <2>1. level[t] \in Slot
    BY <1>2, Levels DEF HoldersInv, Unlock
  <2> QED
    BY <1>2, <2>1 DEF Unlock, Next
<1> QED
  BY <1>1, <1>2 DEF ClientNext, Create, Begin, Finish, Next

\* Every call of the threads keeps their levels in step with the answers.
LEMMA HoldersStep ==
  ASSUME IInv, HoldersInv, subject = "holders", subject' = subject, ClientNext
  PROVE  HoldersInv'
<1> USE Levels
<1>0. \A t \in Thread : level[t] \in 0..MaxMutexes /\ level[t] \in Nat
  BY DEF HoldersInv
<1>1. CASE Create
  BY <1>1 DEF Create, mutex_create, HoldersInv
<1>2. ASSUME NEW t \in Thread, Begin(t) PROVE HoldersInv'
  BY <1>2 DEF Begin, vars, HoldersInv
<1>3. ASSUME NEW t \in Thread, Finish(t) PROVE HoldersInv'
  BY <1>3 DEF Finish, vars, HoldersInv
<1>4. ASSUME NEW t \in Thread, Lock(t) PROVE HoldersInv'
  <2> DEFINE m == level[t] + 1
  <2>1. m \in Slot /\ m \in 0..MaxMutexes /\ held[m][t] = 0 /\ mutex_lock(m, t)
    BY <1>0, <1>4 DEF Lock, HoldersInv
  <2>2. CASE held' = held
    <3>1. level' = level /\ phase' = phase
      BY <1>0, <1>4, <2>2 DEF Lock, HoldersInv
    <3> QED
      BY <2>2, <3>1 DEF HoldersInv
  <2>3. CASE held' # held /\ held' = [held EXCEPT ![m][t] = 1]
    <3>1. level' = [level EXCEPT ![t] = m] /\ phase' = phase
      BY Zenon, <1>4, <2>3 DEF Lock
    <3>2. level' \in [Thread -> 0..MaxMutexes]
      BY <2>1, <3>1 DEF HoldersInv
    <3>3. \A u \in Thread : phase'[u] = "unlocking" => level'[u] >= 1
      BY <1>0, <3>1 DEF HoldersInv
    <3>4. ASSUME NEW n \in Slot, NEW u \in Thread
          PROVE  held'[n][u] = IF n <= level'[u] THEN 1 ELSE 0
      <4>1. held'[n][u] = IF n = m /\ u = t THEN 1 ELSE held[n][u]
        BY Zenon, <2>1, <2>3 DEF IInv, TypeOK
      <4>2. level'[u] = IF u = t THEN m ELSE level[u]
        BY <3>1 DEF HoldersInv
      <4>3. n \in Nat /\ held[n][u] = IF n <= level[u] THEN 1 ELSE 0
        BY NewSlot DEF HoldersInv
      <4>4. CASE u = t
        BY <1>0, <4>1, <4>2, <4>3, <4>4
      <4>5. CASE u # t
        BY <4>1, <4>2, <4>3, <4>5
      <4> QED
        BY <4>4, <4>5
    <3> QED
      BY <3>1, <3>2, <3>3, <3>4 DEF HoldersInv
  <2> QED
    BY <2>1, <2>2, <2>3, NextMutex
<1>5. ASSUME NEW t \in Thread, Unlock(t) PROVE HoldersInv'
  <2> DEFINE m == level[t]
  <2>1. m \in Slot /\ m - 1 \in 0..MaxMutexes /\ held[m][t] = 1 /\ m \in Nat /\ m >= 1
    BY <1>0, <1>5 DEF Unlock, HoldersInv
  <2>2. held' = [held EXCEPT ![m][t] = 0]
    BY <1>5, <2>1 DEF Unlock, mutex_unlock, IInv, TypeOK
  <2>3. level' = [level EXCEPT ![t] = m - 1] /\ phase' = [phase EXCEPT ![t] = IF m = 1 THEN "idle" ELSE @]
    BY <1>5 DEF Unlock
  <2>4. level' \in [Thread -> 0..MaxMutexes] /\ phase' \in [Thread -> {"idle", "locking", "unlocking"}]
    BY <2>1, <2>3 DEF HoldersInv
  <2>5. \A u \in Thread : phase'[u] = "unlocking" => level'[u] >= 1
    BY <1>0, <2>1, <2>3 DEF HoldersInv
  <2>6. ASSUME NEW n \in Slot, NEW u \in Thread
        PROVE  held'[n][u] = IF n <= level'[u] THEN 1 ELSE 0
    <3>1. held'[n][u] = IF n = m /\ u = t THEN 0 ELSE held[n][u]
      BY Zenon, <2>1, <2>2 DEF IInv, TypeOK
    <3>2. level'[u] = IF u = t THEN m - 1 ELSE level[u]
      BY <2>3 DEF HoldersInv
    <3>3. n \in Nat /\ held[n][u] = IF n <= level[u] THEN 1 ELSE 0
      BY NewSlot DEF HoldersInv
    <3>4. CASE u = t
      BY <2>1, <3>1, <3>2, <3>3, <3>4
    <3>5. CASE u # t
      BY <3>1, <3>2, <3>3, <3>5
    <3> QED
      BY <3>4, <3>5
  <2> QED
    BY <2>4, <2>5, <2>6 DEF HoldersInv
<1> QED
  BY <1>1, <1>2, <1>3, <1>4, <1>5 DEF ClientNext

\* A thread that holds all mutexes is alone.
LEMMA Alone == IInv /\ HoldersInv => HoldersAreAlone
<1> SUFFICES ASSUME IInv, HoldersInv, NEW s \in Thread, NEW t \in Thread, level[s] = MaxMutexes
             PROVE  (s # t => level[t] = 0) /\ \A m \in Slot : held[m][s] = 1
  BY DEF HoldersAreAlone
<1>1. subject = "holders" /\ level[t] \in 0..MaxMutexes
  BY Levels DEF HoldersInv
<1>2. \A m \in Slot : held[m][s] = 1
  BY <1>1, MutexAssumption DEF HoldersInv, Slot
<1>3. ASSUME s # t, level[t] # 0 PROVE FALSE
  <2>1. 1 \in Slot /\ 1 <= level[t]
    BY <1>1, <1>3, MutexAssumption, Levels DEF Slot
  <2>2. held[1][t] = 1 /\ held[1][s] = 1
    BY <1>1, <1>2, <2>1 DEF HoldersInv
  <2> QED
    BY <1>3, <2>1, <2>2 DEF IInv, LockAgreement
<1> QED
  BY <1>2, <1>3

\* Mutexes, however they are used, in the composition.
LEMMA MutexesStep == IInv /\ HoldersInv /\ [Step]_all => (IInv /\ HoldersInv)'
<1> SUFFICES ASSUME IInv, HoldersInv, [Step]_all PROVE (IInv /\ HoldersInv)'
  OBVIOUS
<1>0. IInv /\ [Next]_vars => IInv'
  BY TypeStep, AgreementStep DEF IInv
<1>1. CASE subject = "mutexes" /\ Next /\ UNCHANGED <<phase, level>>
  BY <1>0, <1>1, OneMoves DEF HoldersInv
<1>2. CASE subject = "holders" /\ ClientNext
  BY <1>0, <1>2, OneMoves, HoldersCall, HoldersStep
<1>3. CASE UNCHANGED clientVars
  <2>1. UNCHANGED vars /\ UNCHANGED <<phase, level>>
    BY <1>3 DEF clientVars
  <2>2. UNCHANGED held
    BY <2>1 DEF vars
  <2> QED
    BY <1>0, <2>1, <2>2, OneMoves DEF HoldersInv
<1> QED
  BY <1>1, <1>2, <1>3, OneMoves

-----------------------------------------------------------------------------
(* The deadlock detector *)

\* memmove over an entry leaves a list that is one shorter.
LEMMA MovedUpType ==
  ASSUME NEW S, NEW s \in Seq(S), NEW i \in 1..Len(s)
  PROVE  Deadlocks!MovedUp(s, i) \in Seq(S) /\ Len(Deadlocks!MovedUp(s, i)) = Len(s) - 1
<1>1. Len(s) \in Nat /\ Len(s) - 1 \in Nat /\ \A j \in 1..Len(s) : s[j] \in S
  OBVIOUS
<1>2. ASSUME NEW j \in 1..(Len(s) - 1) PROVE (IF j < i THEN s[j] ELSE s[j + 1]) \in S
  BY <1>1
<1> QED
  BY <1>1, <1>2 DEF Deadlocks!MovedUp

\* Both tables of the detector keep their types and sizes.
LEMMA DeadlocksTypes == Deadlocks!TypeOK /\ [Deadlocks!Next]_deadlocksVars => Deadlocks!TypeOK'
<1> SUFFICES ASSUME Deadlocks!TypeOK, [Deadlocks!Next]_deadlocksVars PROVE Deadlocks!TypeOK'
  OBVIOUS
<1>0. /\ lock_deps \in Seq(Deadlocks!LockDependency) /\ Len(lock_deps) \in Nat /\ Len(lock_deps) <= MaxDeps
      /\ deadlock_cycles \in Seq(Deadlocks!DeadlockCycle) /\ Len(deadlock_cycles) <= MaxCycles
      /\ Len(deadlock_cycles) \in Nat /\ MaxDeps \in Nat /\ MaxCycles \in Nat
  BY TablesAssumption DEF Deadlocks!TypeOK
<1>1. CASE Deadlocks!deadlock_detect_cycles
  <2>1. PICK n \in 0..MaxCycles : \E place \in [1..n -> Deadlocks!MutualPlaces] :
          /\ deadlock_cycles' = [k \in 1..n |->
               [holder |-> lock_deps[place[k]].holder, waiter |-> lock_deps[place[k]].waiter, is_resolved |-> FALSE]]
          /\ detected' = TRUE /\ UNCHANGED lock_deps
    BY Zenon, <1>1 DEF Deadlocks!deadlock_detect_cycles
  <2>2. PICK place \in [1..n -> Deadlocks!MutualPlaces] :
          /\ deadlock_cycles' = [k \in 1..n |->
               [holder |-> lock_deps[place[k]].holder, waiter |-> lock_deps[place[k]].waiter, is_resolved |-> FALSE]]
          /\ detected' = TRUE /\ UNCHANGED lock_deps
    BY Zenon, <2>1
  <2>3. ASSUME NEW k \in 1..n
        PROVE  [holder |-> lock_deps[place[k]].holder, waiter |-> lock_deps[place[k]].waiter, is_resolved |-> FALSE]
                 \in Deadlocks!DeadlockCycle
    <3>1. place[k] \in 1..Len(lock_deps)
      BY DEF Deadlocks!MutualPlaces
    <3>2. lock_deps[place[k]] \in Deadlocks!LockDependency
      BY <1>0, <3>1
    <3> QED
      BY <3>2 DEF Deadlocks!LockDependency, Deadlocks!DeadlockCycle
  <2>4. deadlock_cycles' \in Seq(Deadlocks!DeadlockCycle) /\ Len(deadlock_cycles') = n /\ n \in Nat /\ n <= MaxCycles
    BY <1>0, <2>2, <2>3
  <2> QED
    BY <1>0, <2>2, <2>4 DEF Deadlocks!TypeOK
<1>2. ASSUME NEW l \in LockId, Deadlocks!lock_dependency_remove(l) PROVE Deadlocks!TypeOK'
  <2>1. PICK i \in 1..Len(lock_deps) :
          lock_deps' = Deadlocks!MovedUp(lock_deps, i) /\ detected' = FALSE /\ UNCHANGED deadlock_cycles
    BY <1>2 DEF Deadlocks!lock_dependency_remove
  <2>2. lock_deps' \in Seq(Deadlocks!LockDependency) /\ Len(lock_deps') = Len(lock_deps) - 1
    BY <1>0, <2>1, MovedUpType
  <2>3. Len(lock_deps') <= MaxDeps
    BY <1>0, <2>2
  <2>4. detected' = FALSE /\ deadlock_cycles' = deadlock_cycles
    BY <2>1
  <2> QED
    BY Zenon, <1>0, <2>2, <2>3, <2>4 DEF Deadlocks!TypeOK
<1>3. ASSUME NEW l \in LockId, NEW h \in Process, NEW w \in Process, Deadlocks!lock_dependency_add(l, h, w)
      PROVE  Deadlocks!TypeOK'
  <2> DEFINE d == [lock |-> l, holder |-> h, waiter |-> w]
  <2>1. d \in Deadlocks!LockDependency
    BY DEF Deadlocks!LockDependency
  <2>2. Append(lock_deps, d) \in Seq(Deadlocks!LockDependency) /\ Len(Append(lock_deps, d)) = Len(lock_deps) + 1
    <3> HIDE DEF d
    <3> QED
      BY <1>0, <2>1
  <2>3. /\ lock_deps' = Append(lock_deps, d) /\ Len(lock_deps) < MaxDeps
        /\ detected' = FALSE /\ UNCHANGED deadlock_cycles
    BY <1>3 DEF Deadlocks!lock_dependency_add
  <2> HIDE DEF d
  <2>4. lock_deps' \in Seq(Deadlocks!LockDependency) /\ Len(lock_deps') <= MaxDeps
    BY <1>0, <2>2, <2>3
  <2>5. detected' = FALSE /\ deadlock_cycles' = deadlock_cycles
    BY <2>3
  <2> QED
    BY Zenon, <1>0, <2>4, <2>5 DEF Deadlocks!TypeOK
<1>4. ASSUME NEW id \in 1..Len(deadlock_cycles), Deadlocks!deadlock_resolve_cycle(id)
      PROVE  Deadlocks!TypeOK'
  <2>1. [deadlock_cycles[id] EXCEPT !.is_resolved = TRUE] \in Deadlocks!DeadlockCycle
    <3>1. deadlock_cycles[id] \in Deadlocks!DeadlockCycle
      BY <1>0
    <3> QED
      BY Zenon, <3>1 DEF Deadlocks!DeadlockCycle
  <2>2. deadlock_cycles' = [deadlock_cycles EXCEPT ![id] = [deadlock_cycles[id] EXCEPT !.is_resolved = TRUE]]
    BY <1>4 DEF Deadlocks!deadlock_resolve_cycle
  <2>3. deadlock_cycles' \in Seq(Deadlocks!DeadlockCycle) /\ Len(deadlock_cycles') = Len(deadlock_cycles)
    BY <1>0, <2>1, <2>2
  <2> QED
    BY Zenon, <1>0, <1>4, <2>3 DEF Deadlocks!deadlock_resolve_cycle, Deadlocks!TypeOK
<1>5. CASE UNCHANGED deadlocksVars
  BY <1>5 DEF deadlocksVars, Deadlocks!TypeOK
<1> QED
  BY <1>1, <1>2, <1>3, <1>4, <1>5 DEF Deadlocks!Next

\* Who waits for someone directly waits in the end; so does who waits through one other.
LEMMA WaitingThrough ==
  ASSUME NEW p \in Process, NEW q \in Process, Deadlocks!Waits(p, q)
  PROVE  /\ Deadlocks!WaitsInTheEnd(p, q)
         /\ Deadlocks!Waits(q, p) => Deadlocks!WaitsInTheEnd(p, p)
BY DEF Deadlocks!WaitsInTheEnd

\* A detection reports deadlocks only, and all the mutual waits it has room for.
LEMMA DetectionStep ==
  Deadlocks!TypeOK /\ Deadlocks!DetectionExact /\ [Deadlocks!Next]_deadlocksVars
    => Deadlocks!DetectionExact'
<1> SUFFICES ASSUME Deadlocks!TypeOK, Deadlocks!DetectionExact, [Deadlocks!Next]_deadlocksVars
             PROVE  Deadlocks!DetectionExact'
  OBVIOUS
<1>0. /\ lock_deps \in Seq(Deadlocks!LockDependency) /\ Len(lock_deps) \in Nat /\ MaxCycles \in Nat
      /\ \A i \in 1..Len(lock_deps) :
           lock_deps[i].holder \in Process /\ lock_deps[i].waiter \in Process
  <2>1. lock_deps \in Seq(Deadlocks!LockDependency)
    BY DEF Deadlocks!TypeOK
  <2>2. \A i \in 1..Len(lock_deps) : lock_deps[i] \in Deadlocks!LockDependency
    BY <2>1
  <2> QED
    BY <2>1, <2>2, TablesAssumption DEF Deadlocks!LockDependency
<1>1. CASE Deadlocks!deadlock_detect_cycles
  <2>1. PICK n \in 0..MaxCycles : \E place \in [1..n -> Deadlocks!MutualPlaces] :
          /\ Deadlocks!Visits(place, n)
          /\ deadlock_cycles' = [k \in 1..n |->
               [holder |-> lock_deps[place[k]].holder, waiter |-> lock_deps[place[k]].waiter, is_resolved |-> FALSE]]
          /\ UNCHANGED lock_deps
    BY Zenon, <1>1 DEF Deadlocks!deadlock_detect_cycles
  <2>2. PICK place \in [1..n -> Deadlocks!MutualPlaces] :
          /\ Deadlocks!Visits(place, n)
          /\ deadlock_cycles' = [k \in 1..n |->
               [holder |-> lock_deps[place[k]].holder, waiter |-> lock_deps[place[k]].waiter, is_resolved |-> FALSE]]
          /\ UNCHANGED lock_deps
    BY Zenon, <2>1
  <2>3. /\ Len(deadlock_cycles') = n /\ n \in Nat
        /\ \A k \in 1..n : /\ deadlock_cycles'[k].holder = lock_deps[place[k]].holder
                           /\ deadlock_cycles'[k].waiter = lock_deps[place[k]].waiter
    BY <1>0, <2>2
  <2>4. ASSUME NEW k \in 1..n,
               NEW p \in {deadlock_cycles'[k].holder, deadlock_cycles'[k].waiter},
               NEW q \in {deadlock_cycles'[k].holder, deadlock_cycles'[k].waiter}
        PROVE  Deadlocks!WaitsInTheEnd(p, q)
    <3> DEFINE h == lock_deps[place[k]].holder
    <3> DEFINE w == lock_deps[place[k]].waiter
    <3>1. place[k] \in Deadlocks!MutualPlaces /\ place[k] \in 1..Len(lock_deps)
      BY Zenon DEF Deadlocks!MutualPlaces
    <3>2. h \in Process /\ w \in Process /\ Deadlocks!Waits(w, h) /\ Deadlocks!Waits(h, w)
      BY Zenon, <1>0, <3>1 DEF Deadlocks!MutualPlaces, Deadlocks!Mutual, Deadlocks!Waits
    <3>3. (p = h \/ p = w) /\ (q = h \/ q = w)
      BY <2>3
    <3> QED
      BY <3>2, <3>3, WaitingThrough
  <2>5. ASSUME NEW p \in Process, NEW q \in Process, Deadlocks!Waits(p, q), Deadlocks!Waits(q, p), n # MaxCycles
        PROVE  \E k \in 1..n : {deadlock_cycles'[k].holder, deadlock_cycles'[k].waiter} = {p, q}
    <3>1. PICK i \in 1..Len(lock_deps) : lock_deps[i].waiter = p /\ lock_deps[i].holder = q
      BY <2>5 DEF Deadlocks!Waits
    <3>2. i \in Deadlocks!MutualPlaces
      BY Zenon, <2>5, <3>1 DEF Deadlocks!Waits, Deadlocks!MutualPlaces, Deadlocks!Mutual
    <3>3. PICK k \in 1..n : place[k] = i
      BY <2>2, <2>5, <3>2 DEF Deadlocks!Visits
    <3> QED
      BY <2>3, <3>1, <3>3
  <2>6. \A p, q : Deadlocks!WaitsInTheEnd(p, q)' <=> Deadlocks!WaitsInTheEnd(p, q)
    BY <2>2 DEF Deadlocks!WaitsInTheEnd, Deadlocks!Waits
  <2>7. \A p, q : Deadlocks!Waits(p, q)' <=> Deadlocks!Waits(p, q)
    BY <2>2 DEF Deadlocks!Waits
  <2> DEFINE reported == {{deadlock_cycles[i].holder, deadlock_cycles[i].waiter} : i \in 1..Len(deadlock_cycles)}
  <2>8. ASSUME NEW pair \in reported', NEW p \in pair, NEW q \in pair
        PROVE  Deadlocks!WaitsInTheEnd(p, q)'
    <3>1. PICK k \in 1..n : pair = {deadlock_cycles'[k].holder, deadlock_cycles'[k].waiter}
      BY <2>3
    <3>2. Deadlocks!WaitsInTheEnd(p, q)
      BY <2>4, <3>1
    <3> QED
      BY <2>6, <3>2
  <2>9. ASSUME NEW p \in Process, NEW q \in Process, Deadlocks!Waits(p, q)', Deadlocks!Waits(q, p)'
        PROVE  {p, q} \in reported' \/ Len(deadlock_cycles)' = MaxCycles
    <3>1. Deadlocks!Waits(p, q) /\ Deadlocks!Waits(q, p)
      BY <2>7, <2>9
    <3>2. CASE n # MaxCycles
      <4>1. PICK k \in 1..n : {deadlock_cycles'[k].holder, deadlock_cycles'[k].waiter} = {p, q}
        BY <2>5, <3>1, <3>2
      <4> QED
        BY Zenon, <2>3, <4>1
    <3> QED
      BY Zenon, <2>3, <3>2
  <2> QED
    BY Zenon, <2>8, <2>9 DEF Deadlocks!DetectionExact
<1>2. CASE UNCHANGED deadlocksVars
  <2>1. UNCHANGED lock_deps /\ UNCHANGED deadlock_cycles /\ UNCHANGED detected
    BY <1>2 DEF deadlocksVars
  <2>2. \A p, q : Deadlocks!WaitsInTheEnd(p, q)' <=> Deadlocks!WaitsInTheEnd(p, q)
    BY <2>1 DEF Deadlocks!WaitsInTheEnd, Deadlocks!Waits
  <2>3. \A p, q : Deadlocks!Waits(p, q)' <=> Deadlocks!Waits(p, q)
    BY <2>1 DEF Deadlocks!Waits
  <2> QED
    BY Zenon, <2>1, <2>2, <2>3 DEF Deadlocks!DetectionExact
<1>3. CASE ~detected'
  BY <1>3 DEF Deadlocks!DetectionExact
<1> QED
  BY Zenon, <1>1, <1>2, <1>3 DEF Deadlocks!Next, Deadlocks!lock_dependency_remove,
       Deadlocks!lock_dependency_add, Deadlocks!deadlock_resolve_cycle

-----------------------------------------------------------------------------
(* Threads that share a semaphore *)

LOCAL INSTANCE FiniteSetTheorems

\* The threads inside are exactly as many as there are permits out, and the
\* pool was created full; threads that are not exercised are idle.
PoolInv ==
  /\ subject = "permits" =>
       /\ IsFiniteSet(Semaphores!Inside) /\ Cardinality(Semaphores!Inside) = out[Semaphores!Pool]
       /\ initial[Semaphores!Pool] = max_count[Semaphores!Pool]
  /\ subject # "permits" => Semaphores!Inside = {}

\* Initially nobody is inside.
LEMMA PoolInit == Start => PoolInv
<1> SUFFICES ASSUME Start PROVE PoolInv
  OBVIOUS
<1>1. Semaphores!Inside = {}
  BY DEF Start, Semaphores!Init, Semaphores!Inside
<1>2. out[Semaphores!Pool] = 0 /\ initial[Semaphores!Pool] = max_count[Semaphores!Pool]
  BY SemaphoreSlots DEF Start, Semaphores!Init
<1> QED
  BY <1>1, <1>2, FS_EmptySet DEF PoolInv

\* Every step of the threads keeps the count of those inside.
LEMMA PoolStep ==
  ASSUME PermitsInv, PoolInv, subject = "permits", subject' = subject, Semaphores!ClientNext
  PROVE  PoolInv'
<1> DEFINE pool == Semaphores!Pool
<1> DEFINE In == Semaphores!Inside
<1>0. /\ IsFiniteSet(In) /\ Cardinality(In) = out[pool] /\ initial[pool] = max_count[pool]
      /\ pool \in Semaphores!Slot
  BY SemaphoreSlots DEF PoolInv
<1>1. SUFFICES /\ IsFiniteSet(In') /\ Cardinality(In') = out'[pool]
               /\ initial'[pool] = max_count'[pool]
  BY DEF PoolInv
<1>2. ASSUME NEW n \in 1..MaxCount, Semaphores!Open(n)
      PROVE  IsFiniteSet(In') /\ Cardinality(In') = out'[pool] /\ initial'[pool] = max_count'[pool]
  <2>1. In' = In /\ out' = out
    BY <1>2 DEF Semaphores!Open, Semaphores!semaphore_create, Semaphores!Inside
  <2>2. initial'[pool] = max_count'[pool]
    BY <1>0, <1>2 DEF Semaphores!Open, Semaphores!semaphore_create, PermitsInv, Semaphores!TypeOK
  <2> QED
    BY <1>0, <2>1, <2>2
<1>3. ASSUME NEW t \in Thread, Semaphores!Ask(t)
      PROVE  IsFiniteSet(In') /\ Cardinality(In') = out'[pool] /\ initial'[pool] = max_count'[pool]
  <2>1. In' = In
    BY <1>3 DEF Semaphores!Ask, Semaphores!Goto, Semaphores!Inside, PermitsInv, Semaphores!TypeOK
  <2>2. UNCHANGED <<out, initial, max_count>>
    BY <1>3 DEF Semaphores!Ask, Semaphores!calls, Semaphores!table
  <2> QED
    BY <1>0, <2>1, <2>2
<1>4. ASSUME NEW t \in Thread, Semaphores!Wait(t)
      PROVE  IsFiniteSet(In') /\ Cardinality(In') = out'[pool] /\ initial'[pool] = max_count'[pool]
  <2>1. UNCHANGED <<initial, max_count>>
    BY <1>4 DEF Semaphores!Wait, Semaphores!semaphore_wait, Semaphores!table
  <2>2. out[pool] \in Int
    BY <1>0, SlotNumbers DEF PermitsInv
  <2>3. CASE Semaphores!Grant(pool)
    <3>1. out'[pool] = out[pool] + 1
      BY <1>0, <2>3 DEF Semaphores!Grant, PermitsInv, Semaphores!TypeOK
    <3>2. Semaphores!Goto(t, "asking", "inside")
      BY <1>4, <2>2, <3>1 DEF Semaphores!Wait
    <3>3. In' = In \cup {t} /\ t \notin In
      BY <3>2 DEF Semaphores!Goto, Semaphores!Inside, PermitsInv, Semaphores!TypeOK
    <3> QED
      BY <1>0, <2>1, <3>1, <3>3, FS_AddElement
  <2>4. CASE Semaphores!Note(pool, t)
    <3>1. out' = out
      BY <2>4 DEF Semaphores!Note
    <3>2. pc' = pc
      BY <1>4, <2>2, <3>1 DEF Semaphores!Wait
    <3> QED
      BY <1>0, <2>1, <3>1, <3>2 DEF Semaphores!Inside
  <2> QED
    BY Zenon, <1>4, <2>3, <2>4 DEF Semaphores!Wait, Semaphores!semaphore_wait
<1>5. ASSUME NEW t \in Thread, Semaphores!Post(t)
      PROVE  IsFiniteSet(In') /\ Cardinality(In') = out'[pool] /\ initial'[pool] = max_count'[pool]
  <2>1. UNCHANGED <<initial, max_count>>
    BY <1>5 DEF Semaphores!Post, Semaphores!semaphore_post, Semaphores!table
  <2>2. out'[pool] = out[pool] - 1
    BY <1>0, <1>5 DEF Semaphores!Post, Semaphores!semaphore_post, PermitsInv, Semaphores!TypeOK
  <2>3. In' = In \ {t} /\ t \in In
    BY <1>5 DEF Semaphores!Post, Semaphores!Goto, Semaphores!Inside, PermitsInv, Semaphores!TypeOK
  <2> QED
    BY <1>0, <2>1, <2>2, <2>3, FS_RemoveElement
<1> QED
  BY <1>2, <1>3, <1>4, <1>5 DEF Semaphores!ClientNext

\* The semaphores, however they are used, in the composition.
LEMMA SemaphoresStep == PermitsInv /\ PoolInv /\ [Step]_all => (PermitsInv /\ PoolInv)'
<1> SUFFICES ASSUME PermitsInv, PoolInv, [Step]_all PROVE (PermitsInv /\ PoolInv)'
  OBVIOUS
<1>1. CASE subject = "semaphores" /\ Semaphores!Next
  <2>1. Semaphores!Inside' = Semaphores!Inside
    BY <1>1 DEF Semaphores!Next, Semaphores!Inside
  <2>2. subject' = subject /\ subject # "permits" /\ PermitsInv'
    BY <1>1, OneMoves, PermitsStep
  <2>3. PoolInv'
    BY <2>1, <2>2 DEF PoolInv
  <2> QED
    BY <2>2, <2>3
<1>2. CASE subject = "permits" /\ Semaphores!ClientNext
  BY <1>2, OneMoves, PermitsStep, PoolStep
<1>3. CASE UNCHANGED semaphoresVars
  <2>1. Semaphores!Inside' = Semaphores!Inside /\ UNCHANGED <<out, initial, max_count>>
    BY <1>3 DEF semaphoresVars, Semaphores!Inside
  <2>2. subject' = subject /\ PermitsInv'
    BY <1>3, OneMoves, PermitsStep
  <2>3. PoolInv'
    BY <2>1, <2>2 DEF PoolInv
  <2> QED
    BY <2>2, <2>3
<1> QED
  BY <1>1, <1>2, <1>3, OneMoves

\* Cardinality means the same in SemaphoreTable.
LEMMA SameCardinality == \A S : Semaphores!Cardinality(S) = Cardinality(S)
BY DEF Semaphores!Cardinality, Cardinality

\* The pool is not oversubscribed, and a thread inside can give its permit back.
LEMMA PoolSafe ==
  PermitsInv /\ PoolInv => Semaphores!PoolNotOversubscribed /\ Semaphores!PostNeverRefused
<1> SUFFICES ASSUME PermitsInv, PoolInv
             PROVE  Semaphores!PoolNotOversubscribed /\ Semaphores!PostNeverRefused
  OBVIOUS
<1> DEFINE pool == Semaphores!Pool
<1>1. /\ count[pool] \in Nat /\ initial[pool] \in Nat /\ out[pool] \in Int
      /\ count[pool] + out[pool] = initial[pool]
  BY SlotNumbers, SemaphoreSlots DEF PermitsInv, Semaphores!PermitsConserved
<1>2. CASE subject = "permits"
  <2>1. Cardinality(Semaphores!Inside) <= initial[pool]
    BY <1>1, <1>2 DEF PoolInv
  <2>2. ASSUME Semaphores!Inside # {} PROVE count[pool] < max_count[pool]
    <3>1. Cardinality(Semaphores!Inside) \in Nat /\ Cardinality(Semaphores!Inside) # 0
      BY <1>2, <2>2, FS_EmptySet, FS_CardinalityType DEF PoolInv
    <3> QED
      BY <1>1, <1>2, <3>1 DEF PoolInv
  <2> QED
    BY <2>1, <2>2, SameCardinality DEF Semaphores!PoolNotOversubscribed, Semaphores!PostNeverRefused
<1>3. CASE subject # "permits"
  <2>1. Semaphores!Inside = {} /\ Cardinality(Semaphores!Inside) = 0
    BY <1>3, FS_EmptySet DEF PoolInv
  <2> QED
    BY <1>1, <2>1, SameCardinality DEF Semaphores!PoolNotOversubscribed, Semaphores!PostNeverRefused
<1> QED
  BY <1>2, <1>3

-----------------------------------------------------------------------------
(* The run queues: CpuSchedulerProofs speaks of the same tables *)

Proved == INSTANCE CpuSchedulerProofs WITH MaxThreads <- MaxSchedulable

\* The scheduler of this system is the one of CpuSchedulerProofs.
LEMMA SameScheduler ==
  /\ Cpus!Init <=> Proved!Init
  /\ Cpus!Next <=> Proved!Next
  /\ UNCHANGED cpusVars <=> UNCHANGED Proved!vars
<1>1. Cpus!Init <=> Proved!Init
  BY DEF Cpus!Init, Proved!Init, Cpus!Empty, Proved!Empty
<1>2. Cpus!Next <=> Proved!Next
  BY DEF Cpus!cpu_scheduler_add_runqueue, Proved!cpu_scheduler_add_runqueue,
         Cpus!cpu_scheduler_remove_runqueue, Proved!cpu_scheduler_remove_runqueue,
         Cpus!cpu_scheduler_enqueue_thread, Proved!cpu_scheduler_enqueue_thread,
         Cpus!cpu_scheduler_dequeue_thread, Proved!cpu_scheduler_dequeue_thread,
         Cpus!cpu_scheduler_run_thread, Proved!cpu_scheduler_run_thread, Cpus!cpu_scheduler_migrate_thread,
         Proved!cpu_scheduler_migrate_thread, Cpus!cpu_scheduler_update_runqueue_loads,
         Proved!cpu_scheduler_update_runqueue_loads, Cpus!cpu_scheduler_update_vruntime,
         Proved!cpu_scheduler_update_vruntime, Cpus!cpu_scheduler_sleep_thread,
         Proved!cpu_scheduler_sleep_thread, Cpus!cpu_scheduler_wake_up_thread,
         Proved!cpu_scheduler_wake_up_thread, Cpus!Turn, Proved!Turn, Cpus!Cpu, Proved!Cpu, Cpus!Without,
         Proved!Without, Cpus!MovedUp, Proved!MovedUp, Cpus!First, Proved!First, Cpus!Copies, Proved!Copies,
         Cpus!Empty, Proved!Empty, Cpus!Cardinality, Proved!Cardinality, Cpus!Next, Proved!Next
<1> QED
  BY <1>1, <1>2 DEF cpusVars, Proved!vars

\* The invariant of CpuSchedulerProofs, of these run queues.
CpusInv == Proved!CpusInv

\* Every step of the scheduler keeps it.
LEMMA CpusStep == CpusInv /\ [Cpus!Next]_cpusVars => CpusInv'
<1>1. Proved!CpuConstants
  BY TablesAssumption DEF Proved!CpuConstants
<1>2. [Cpus!Next]_cpusVars => [Proved!Next]_Proved!vars
  BY SameScheduler
<1> QED
  BY <1>1, <1>2, Proved!CpusStep DEF CpusInv

\* The queues of cpu_scheduler_init satisfy it.
LEMMA CpusInit == Start => CpusInv
<1>1. Proved!CpuConstants
  BY TablesAssumption DEF Proved!CpuConstants
<1> QED
  BY <1>1, SameScheduler, Proved!CpusInit DEF CpusInv, Start

\* No thread is lost, loads and choices are right.
LEMMA CpusSafe ==
  CpusInv => /\ Cpus!TypeOK
             /\ Cpus!BalancedCpuIsShortest /\ Cpus!NoThreadLost /\ Cpus!HeadIsNext
<1>1. Proved!CpuConstants
  BY TablesAssumption DEF Proved!CpuConstants
<1>2. CpusInv => /\ Proved!TypeOK
             /\ Proved!BalancedCpuIsShortest /\ Proved!NoThreadLost /\ Proved!HeadIsNext
  BY <1>1, Proved!CpusSafe DEF CpusInv
<1>3. Cpus!TypeOK <=> Proved!TypeOK
  BY DEF Cpus!TypeOK, Proved!TypeOK, Cpus!RunQueue, Proved!RunQueue, Cpus!ScheduleEntry,
         Proved!ScheduleEntry, Cpus!State, Proved!State
<1>4. Cpus!BalancedCpuIsShortest <=> Proved!BalancedCpuIsShortest
  BY DEF Cpus!BalancedCpuIsShortest, Proved!BalancedCpuIsShortest, Cpus!cpu_scheduler_find_load_balanced_cpu,
         Proved!cpu_scheduler_find_load_balanced_cpu, Cpus!Cpu, Proved!Cpu, Cpus!First, Proved!First
<1>5. Cpus!NoThreadLost <=> Proved!NoThreadLost
  BY DEF Cpus!NoThreadLost, Proved!NoThreadLost, Cpus!Cpu, Proved!Cpu, Cpus!Copies, Proved!Copies,
         Cpus!Cardinality, Proved!Cardinality
<1>6. Cpus!HeadIsNext <=> Proved!HeadIsNext
  BY DEF Cpus!HeadIsNext, Proved!HeadIsNext, Cpus!Cpu, Proved!Cpu, Cpus!Selected, Proved!Selected,
         Cpus!First, Proved!First
<1> QED
  BY <1>2, <1>3, <1>4, <1>5, <1>6

-----------------------------------------------------------------------------
(* The system *)

\* What holds of all the tables together.
SystemInv ==
  /\ IInv /\ HoldersInv /\ PermitsInv /\ PoolInv /\ ThreadsInv /\ CpusInv
  /\ Deadlocks!TypeOK /\ Deadlocks!DetectionExact

\* It holds at the start.
LEMMA SystemInit == Start => SystemInv
<1>1. Start => Deadlocks!TypeOK /\ Deadlocks!DetectionExact
  <2> SUFFICES ASSUME Start PROVE Deadlocks!TypeOK /\ Deadlocks!DetectionExact
    OBVIOUS
  <2>1. lock_deps = << >> /\ deadlock_cycles = << >> /\ detected = FALSE
    BY DEF Start, Deadlocks!Init
  <2>2. lock_deps \in Seq(Deadlocks!LockDependency) /\ deadlock_cycles \in Seq(Deadlocks!DeadlockCycle)
    BY <2>1
  <2>3. Len(lock_deps) = 0 /\ Len(deadlock_cycles) = 0
    BY <2>1
  <2>4. Len(lock_deps) <= MaxDeps /\ Len(deadlock_cycles) <= MaxCycles
    BY <2>3, TablesAssumption
  <2>5. detected \in BOOLEAN /\ ~detected
    BY Zenon, <2>1
  <2> QED
    BY <2>2, <2>4, <2>5 DEF Deadlocks!TypeOK, Deadlocks!DetectionExact
<1> QED
  BY <1>1, HoldersInit, PermitsInit, PoolInit, ThreadsInit, CpusInit DEF SystemInv

\* Every step keeps it.
LEMMA SystemStep == SystemInv /\ [Step]_all => SystemInv'
<1> SUFFICES ASSUME SystemInv, [Step]_all PROVE SystemInv'
  OBVIOUS
<1>1. [Threads!Next]_threadsVars /\ [Cpus!Next]_cpusVars /\ [Deadlocks!Next]_deadlocksVars
  BY OneMoves
<1>2. (IInv /\ HoldersInv)'
  BY MutexesStep DEF SystemInv
<1>3. (PermitsInv /\ PoolInv)'
  BY SemaphoresStep DEF SystemInv
<1>4. ThreadsInv' /\ CpusInv'
  BY <1>1, ThreadsStep, CpusStep DEF SystemInv
<1>5. Deadlocks!TypeOK' /\ Deadlocks!DetectionExact'
  BY <1>1, DeadlocksTypes, DetectionStep DEF SystemInv
<1> QED
  BY <1>2, <1>3, <1>4, <1>5 DEF SystemInv

\* It holds in every state of the tables of core-services and resource-scheduling.
THEOREM SystemInvariance == System => []SystemInv
BY SystemInit, SystemStep, PTL DEF System

\* All tables keep their types and stay within their sizes.
THEOREM SystemTypes == System => []TypesOK
<1>1. SystemInv => TypesOK
  BY CpusSafe DEF SystemInv, IInv, PermitsInv, ThreadsInv, TypesOK
<1> QED
  BY SystemInvariance, <1>1, PTL

\* What mutexes, semaphores and threads record is what their callers were told.
THEOREM SystemTablesTruthful == System => []TablesTruthful
<1>1. SystemInv => TablesTruthful
  BY DEF SystemInv, IInv, PermitsInv, ThreadsInv, TablesTruthful
<1> QED
  BY SystemInvariance, <1>1, PTL

\* Two threads never hold one mutex, in whatever way it is used.
THEOREM SystemExclusion == System => []MutualExclusion
<1>1. SystemInv => MutualExclusion
  BY DEF SystemInv, IInv, LockAgreement, MutualExclusion
<1> QED
  BY SystemInvariance, <1>1, PTL

\* Threads that take all mutexes in order exclude each other, and a pool of
\* permits is neither oversubscribed nor shrinks.
THEOREM SystemClientsExcluded == System => []ClientsExcluded
<1>1. SystemInv => ClientsExcluded
  BY Alone, PoolSafe DEF SystemInv, ClientsExcluded
<1> QED
  BY SystemInvariance, <1>1, PTL

\* Detection reports deadlocks only, and every mutual wait it has room for.
THEOREM SystemDetectionExact == System => []DetectionExact
<1>1. SystemInv => DetectionExact
  BY DEF SystemInv, DetectionExact
<1> QED
  BY SystemInvariance, <1>1, PTL

\* Enqueuing, dequeuing, migrating and removing queues lose and double no thread.
THEOREM SystemQueuesSound == System => []QueuesSound
<1>1. SystemInv => QueuesSound
  BY CpusSafe DEF SystemInv, QueuesSound
<1> QED
  BY SystemInvariance, <1>1, PTL

\* Nor does a mutex pass from thread to thread when threads take them in order.
THEOREM SystemHandover == System => NoDirectHandover
<1>1. SystemInv /\ [Step]_all => [FreedByOwner]_vars
  <2> SUFFICES ASSUME SystemInv, [Step]_all PROVE [FreedByOwner]_vars
    OBVIOUS
  <2>1. [Next]_vars
    BY OneMoves, HoldersCall DEF SystemInv, clientVars
  <2> QED
    BY <2>1, HandoverStep DEF SystemInv
<1> QED
  BY SystemInvariance, <1>1, PTL DEF System, NoDirectHandover, FreedByOwner
=============================================================================
