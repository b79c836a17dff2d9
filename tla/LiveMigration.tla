---------------------------- MODULE LiveMigration ----------------------------
(***************************************************************************)
(* advanced-virtualization/live_migration.c.  Sessions live in slots that   *)
(* are searched for a free one; active_migrations is counted beside them    *)
(* and goes down when a session completes, rolls back or is destroyed, each *)
(* of which may happen to the same session.  remaining_pages wraps as the   *)
(* unsigned number it is.  The log of dirty pages, which no phase reads,    *)
(* and the totals are left out.                                             *)
(*                                                                         *)
(* HostNext is the second part, the virtual machines of                    *)
(* services/virtualization.c: ids are the count plus one and so come again, *)
(* every call means the first machine with its id, and a migration keeps   *)
(* the state to return to when it is cancelled; nothing completes one.     *)
(* Virtual disks and processors, which nothing else reads, are left out.   *)
(*                                                                         *)
(* LifecycleNext is the third part, snapshots, backups and migrations of   *)
(* cloud-computing/vm_lifecycle.c.  Its sizes are products of int           *)
(* constants, computed in 32 bits before they are stored in 64; a size is   *)
(* given here in GiB, so that an int holds a number of GiB modulo 4, of     *)
(* which 2 and 3 are negative.                                              *)
(***************************************************************************)
EXTENDS Integers, FiniteSets, Sequences

CONSTANTS
  MaxSessions,     \* MAX_MIGRATION_SESSIONS
  TotalPages,      \* total_pages, 131072 for every session
  Width,           \* remaining_pages and migrated_pages are taken modulo Width
  MaxIterations,   \* bound on iteration_count
  HostMemory,      \* total_host_memory_mb
  MaxMachines,     \* MAX_VIRTUAL_MACHINES, of machines
  MaxMigrations,   \* MAX_VIRTUAL_MACHINES, of migrations
  MaxVmMemory,     \* MAX_VM_MEMORY_MB
  MaxBackups,      \* MAX_BACKUP_JOBS
  MaxJobs,         \* MAX_MIGRATION_JOBS
  MaxSnapshotId    \* bound on next_snapshot_id

VARIABLES
  sessions,           \* of each slot: free, or the session in it
  active_migrations,
  vms,                \* the virtual machines of the host
  used_host_memory,
  migrations,         \* every migration that was started, cancelled or not
  remigrated,         \* history: a machine was migrated while it was migrating
  next_snapshot_id, backups, total_backup_size,
  jobs                \* the migrations of the lifecycle manager

sessionVars == <<sessions, active_migrations>>
hostVars == <<vms, used_host_memory, migrations, remigrated>>
lifecycleVars == <<next_snapshot_id, backups, total_backup_size, jobs>>
vars == <<sessionVars, hostVars, lifecycleVars>>

Slot == 1..MaxSessions
Precopy == (TotalPages * 20) \div 100
Delta == (TotalPages * 5) \div 100     \* dirty_pages, never 0

\* A machine has so many pages that dirty_pages is not 0, and migrated_pages, a
\* uint64_t, holds what all iterations together can count: iteration_count is a
\* uint32_t and an iteration migrates a fifth of the pages at most.
ASSUME MigrationAssumption ==
  /\ MaxSessions \in Nat /\ MaxIterations \in Nat /\ Width \in Nat /\ TotalPages \in Nat
  /\ TotalPages >= 20 /\ TotalPages + MaxIterations * Precopy < Width

\* The limits of the host and of the lifecycle manager are numbers.
ASSUME HostAssumption == HostMemory \in Nat /\ MaxMachines \in Nat /\ MaxMigrations \in Nat /\ MaxVmMemory \in Nat
ASSUME LifecycleAssumption == MaxSnapshotId \in Nat /\ MaxBackups \in Nat /\ MaxJobs \in Nat

Free == [phase |-> "FREE", migrated |-> 0, remaining |-> 0, iterations |-> 0]
Phase == {"INIT", "SETUP", "DELTA", "STOP_VM", "FINAL", "COMPLETE", "ABORT"}
Session == [phase : Phase, migrated : 0..(Width - 1), remaining : 0..(Width - 1), iterations : 0..MaxIterations]

VmState == {"STOPPED", "RUNNING", "PAUSED", "MIGRATING"}
VirtualMachine == [vm_id : 1..MaxMachines, state : VmState, memory : 0..HostMemory]
Migration == [vm_id : 1..MaxMachines, source_state : VmState, is_active : BOOLEAN]

MigrationState == {"INITIATED", "COMPLETED", "FAILED", "ROLLED_BACK"}
BackupState == {"PENDING", "COMPLETED", "VERIFIED"}
Backup == [state : BackupState, data_size : Int]
Job == [state : MigrationState, transferred : BOOLEAN]

TypeOK ==
  /\ sessions \in [Slot -> Session \cup {Free}]
  /\ active_migrations \in 0..MaxSessions
  /\ vms \in Seq(VirtualMachine) /\ Len(vms) <= MaxMachines
  /\ migrations \in Seq(Migration) /\ Len(migrations) <= MaxMigrations
  /\ used_host_memory \in 0..HostMemory /\ remigrated \in BOOLEAN
  /\ next_snapshot_id \in 0..MaxSnapshotId
  /\ backups \in Seq(Backup) /\ Len(backups) <= MaxBackups /\ total_backup_size \in Int
  /\ jobs \in Seq(Job) /\ Len(jobs) <= MaxJobs

NoJobs == next_snapshot_id = 0 /\ backups = << >> /\ total_backup_size = 0 /\ jobs = << >>

Init ==
  /\ sessions = [s \in Slot |-> Free] /\ active_migrations = 0
  /\ vms = << >> /\ used_host_memory = 0 /\ migrations = << >> /\ remigrated = FALSE
  /\ NoJobs

Occupied == {s \in Slot : sessions[s] # Free}

migration_session_create ==
  /\ active_migrations < MaxSessions
  /\ \E s \in Slot \ Occupied :
       /\ \A t \in Slot \ Occupied : s <= t
       /\ sessions' = [sessions EXCEPT ![s] = [phase |-> "INIT", migrated |-> 0, remaining |-> TotalPages, iterations |-> 0]]
  /\ active_migrations' = active_migrations + 1

DownWrapping == active_migrations - 1     \* mistaken Down: no test for 0

Down == IF active_migrations > 0 THEN active_migrations - 1 ELSE active_migrations

migration_session_destroy(s) ==
  /\ s \in Occupied
  /\ sessions' = [sessions EXCEPT ![s] = Free] /\ active_migrations' = Down

Enter(s, phase) ==
  /\ s \in Occupied
  /\ sessions' = [sessions EXCEPT ![s].phase = phase]

migration_start(s) == Enter(s, "SETUP") /\ UNCHANGED active_migrations
migration_stop_vm_phase(s) == Enter(s, "STOP_VM") /\ UNCHANGED active_migrations
migration_complete(s) == Enter(s, "COMPLETE") /\ active_migrations' = Down

\* migration_rollback; migration_handle_timeout calls it, can_rollback being 1
migration_rollback(s) == Enter(s, "ABORT") /\ active_migrations' = Down

Moved(session, pages) ==
  [session EXCEPT !.migrated = (@ + pages) % Width, !.remaining = (@ - pages) % Width, !.iterations = @ + 1]

migration_precopy_phase(s) ==
  /\ s \in Occupied /\ sessions[s].iterations < MaxIterations
  /\ sessions' = [sessions EXCEPT ![s] = [Moved(@, Precopy) EXCEPT !.phase = "DELTA"]]
  /\ UNCHANGED active_migrations

migration_delta_phase(s) ==
  /\ s \in Occupied /\ sessions[s].iterations < MaxIterations
  /\ sessions' = [sessions EXCEPT ![s] = Moved(@, Delta)]
  /\ UNCHANGED active_migrations

migration_final_phase(s) ==
  /\ s \in Occupied
  /\ sessions' = [sessions EXCEPT ![s].phase = "FINAL", ![s].migrated = TotalPages, ![s].remaining = 0]
  /\ UNCHANGED active_migrations

SessionsNext ==
  /\ \/ migration_session_create
     \/ \E s \in Slot :
          \/ migration_session_destroy(s) \/ migration_start(s) \/ migration_precopy_phase(s)
          \/ migration_delta_phase(s) \/ migration_stop_vm_phase(s) \/ migration_final_phase(s)
          \/ migration_complete(s) \/ migration_rollback(s)
  /\ UNCHANGED <<hostVars, lifecycleVars>>

-----------------------------------------------------------------------------
\* The host.

\* virt_get_vm: the first machine with the id, none or one
virt_get_vm(id) == {i \in DOMAIN vms : vms[i].vm_id = id /\ \A j \in 1..(i - 1) : vms[j].vm_id # id}

\* What is behind place i moves up by one, as memmove does.
Without(list, i) == [j \in 1..(Len(list) - 1) |-> IF j < i THEN list[j] ELSE list[j + 1]]

virt_create_vm(memory) ==
  /\ Len(vms) < MaxMachines /\ memory <= MaxVmMemory
  /\ used_host_memory + memory <= HostMemory
  /\ vms' = Append(vms, [vm_id |-> Len(vms) + 1, state |-> "STOPPED", memory |-> memory])
  /\ used_host_memory' = used_host_memory + memory
  /\ UNCHANGED <<migrations, remigrated>>

\* A running machine is stopped first; its migrations stay on record.
virt_delete_vm(id) ==
  \E i \in virt_get_vm(id) :
    /\ used_host_memory' = used_host_memory - vms[i].memory
    /\ vms' = Without(vms, i)
    /\ UNCHANGED <<migrations, remigrated>>

\* virt_start_vm, virt_stop_vm, virt_pause_vm and virt_resume_vm
Switch(id, from, to) ==
  \E i \in virt_get_vm(id) :
    /\ vms[i].state \in from
    /\ vms' = [vms EXCEPT ![i].state = to]
    /\ UNCHANGED <<used_host_memory, migrations, remigrated>>

virt_start_vm(id) == Switch(id, {"STOPPED"}, "RUNNING")
virt_stop_vm(id) == Switch(id, VmState \ {"STOPPED"}, "STOPPED")
virt_pause_vm(id) == Switch(id, {"RUNNING"}, "PAUSED")
virt_resume_vm(id) == Switch(id, {"PAUSED"}, "RUNNING")

\* The whole old size is taken off the total and the whole new one is added.
Resized(i, memory) ==
  /\ vms' = [vms EXCEPT ![i].memory = memory]
  /\ used_host_memory' = used_host_memory - vms[i].memory + memory

\* The host's memory bounds the new size, MAX_VM_MEMORY_MB does not.
virt_allocate_memory(id, memory) ==
  \E i \in virt_get_vm(id) :
    /\ used_host_memory - vms[i].memory + vms[i].memory + memory <= HostMemory
    /\ Resized(i, vms[i].memory + memory)
    /\ UNCHANGED <<migrations, remigrated>>

virt_deallocate_memory(id, memory) ==
  \E i \in virt_get_vm(id) :
    /\ vms[i].memory >= memory
    /\ Resized(i, vms[i].memory - memory)
    /\ UNCHANGED <<migrations, remigrated>>

Saved(state) == state                 \* source_state of a new migration

\* Any state may migrate, MIGRATING too.
virt_migrate_vm(id) ==
  /\ Len(migrations) < MaxMigrations
  /\ \E i \in virt_get_vm(id) :
       /\ migrations' = Append(migrations, [vm_id |-> id, source_state |-> Saved(vms[i].state), is_active |-> TRUE])
       /\ vms' = [vms EXCEPT ![i].state = "MIGRATING"]
       /\ remigrated' = (remigrated \/ vms[i].state = "MIGRATING")
  /\ UNCHANGED used_host_memory

\* The oldest active migration of the id ends, and the machine that now has the
\* id, if any, takes the state on record.
virt_cancel_migration(id) ==
  \E m \in DOMAIN migrations :
    /\ migrations[m].vm_id = id /\ migrations[m].is_active
    /\ \A n \in 1..(m - 1) : migrations[n].vm_id = id => ~migrations[n].is_active
    /\ migrations' = [migrations EXCEPT ![m].is_active = FALSE]
    /\ vms' = [i \in DOMAIN vms |-> IF i \in virt_get_vm(id) THEN [vms[i] EXCEPT !.state = migrations[m].source_state] ELSE vms[i]]
    /\ UNCHANGED <<used_host_memory, remigrated>>

HostNext ==
  /\ \/ \E memory \in 0..MaxVmMemory :
          \/ virt_create_vm(memory)
          \/ \E id \in 1..MaxMachines : memory > 0 /\ (virt_allocate_memory(id, memory) \/ virt_deallocate_memory(id, memory))
     \/ \E id \in 1..MaxMachines :
          \/ virt_delete_vm(id) \/ virt_start_vm(id) \/ virt_stop_vm(id) \/ virt_pause_vm(id)
          \/ virt_resume_vm(id) \/ virt_migrate_vm(id) \/ virt_cancel_migration(id)
  /\ UNCHANGED <<sessionVars, lifecycleVars>>

-----------------------------------------------------------------------------
\* The lifecycle manager.

\* gib * 1024 * 1024 * 1024 as an int: it wraps at 2 GiB
IntProduct(gib) == IF gib % 4 < 2 THEN gib % 4 ELSE (gib % 4) - 4

\* malloc of a size converted from int: what is negative is too large to be found
Allocates(size) == size > 0

\* memory_snapshot_size is 2 * 1024 * 1024 * 1024: malloc refuses it after the id
\* was taken, so that no snapshot is ever counted, restored, merged or deleted.
vm_create_snapshot ==
  /\ next_snapshot_id < MaxSnapshotId /\ ~Allocates(IntProduct(2))
  /\ next_snapshot_id' = next_snapshot_id + 1
  /\ UNCHANGED <<backups, total_backup_size, jobs>>

vm_create_backup ==
  /\ Len(backups) < MaxBackups
  /\ backups' = Append(backups, [state |-> "PENDING", data_size |-> IntProduct(12)])
  /\ total_backup_size' = total_backup_size + IntProduct(12)
  /\ UNCHANGED <<next_snapshot_id, jobs>>

vm_restore_backup(b) ==
  /\ backups' = [backups EXCEPT ![b].state = "COMPLETED"]
  /\ UNCHANGED <<next_snapshot_id, total_backup_size, jobs>>

vm_verify_backup(b) ==
  /\ backups' = [backups EXCEPT ![b].state = "VERIFIED"]
  /\ UNCHANGED <<next_snapshot_id, total_backup_size, jobs>>

vm_delete_backup(b) ==         \* the entry stays and can be deleted again
  /\ total_backup_size' = total_backup_size - backups[b].data_size
  /\ UNCHANGED <<next_snapshot_id, backups, jobs>>

vm_create_migration ==
  /\ Len(jobs) < MaxJobs
  /\ jobs' = Append(jobs, [state |-> "INITIATED", transferred |-> FALSE])
  /\ UNCHANGED <<next_snapshot_id, backups, total_backup_size>>

Move(m, from, to) ==
  /\ jobs[m].state \in from
  /\ jobs' = [jobs EXCEPT ![m] = [state |-> to, transferred |-> @.transferred \/ to = "COMPLETED"]]
  /\ UNCHANGED <<next_snapshot_id, backups, total_backup_size>>

StartRestarts(m) == Move(m, {"INITIATED", "ROLLED_BACK", "FAILED"}, "COMPLETED")  \* mistaken vm_start_migration

vm_start_migration(m) == Move(m, {"INITIATED"}, "COMPLETED")

vm_cancel_migration(m) == Move(m, MigrationState \ {"COMPLETED"}, "FAILED")

vm_rollback_migration(m) == Move(m, {"COMPLETED"}, "ROLLED_BACK")

LifecycleNext ==
  /\ \/ vm_create_snapshot \/ vm_create_backup \/ vm_create_migration
     \/ \E b \in DOMAIN backups : vm_restore_backup(b) \/ vm_verify_backup(b) \/ vm_delete_backup(b)
     \/ \E m \in DOMAIN jobs : vm_start_migration(m) \/ vm_cancel_migration(m) \/ vm_rollback_migration(m)
  /\ UNCHANGED <<sessionVars, hostVars>>

\* The three parts share nothing, and their calls interleave.
Next == SessionsNext \/ HostNext \/ LifecycleNext

Spec == Init /\ [][Next]_vars
LifecycleSpec == Init /\ [][LifecycleNext]_vars

-----------------------------------------------------------------------------

\* A free slot can be used: active_migrations, which refuses a new session at its
\* limit, never counts more sessions than there are, in whatever order sessions
\* complete, roll back and are destroyed.
FreeSlotUsable == active_migrations <= Cardinality(Occupied)

\* Pages that were migrated and pages that remain make up the whole machine, also
\* when phases are repeated and remaining_pages wraps.
PagesConserved ==
  \A s \in Occupied : (sessions[s].migrated + sessions[s].remaining) % Width = TotalPages

\* migration_calculate_progress divides by migrated_pages when pages remain and
\* there was an iteration: then some page was migrated.
NoDivisionByZero ==
  \A s \in Occupied : (sessions[s].remaining > 0 /\ sessions[s].iterations > 0) => sessions[s].migrated > 0

\* The memory of all machines of a list.
MemoryOf(list) ==
  LET sum[n \in 0..Len(list)] == IF n = 0 THEN 0 ELSE sum[n - 1] + list[n].memory
  IN  sum[Len(list)]

\* used_host_memory_mb, which admits machines and their growth, is the memory of
\* the machines there are and never more than the host has, although machines
\* are found by ids that come again and grow past MAX_VM_MEMORY_MB.
HostMemoryExact ==
  /\ used_host_memory = MemoryOf(vms)
  /\ used_host_memory <= HostMemory

\* A machine in MIGRATING can be brought out of it by virt_cancel_migration, the
\* only call that knows its earlier state: some migration of its id is active.
\* This holds across deletions and ids that come again, until virt_migrate_vm is
\* called for a machine that is migrating already.
MigrationCanBeCancelled ==
  remigrated \/ \A i \in DOMAIN vms :
    vms[i].state = "MIGRATING" => \E m \in DOMAIN migrations : migrations[m].vm_id = vms[i].vm_id /\ migrations[m].is_active

\* A migration is carried out at most once: after it was cancelled or rolled back
\* no sequence of calls starts it again.
CarriedOutOnce ==
  [][\A m \in DOMAIN jobs :
       (jobs[m].state # "COMPLETED" /\ jobs'[m].state = "COMPLETED") =>
         jobs[m].state = "INITIATED" /\ ~jobs[m].transferred]_vars

\* A machine that was moved is where its migration says: what was transferred is
\* completed, or was rolled back before it could be called failed.
MovedIsRolledBackFirst ==
  [][\A m \in DOMAIN jobs :
       (jobs[m].state # "FAILED" /\ jobs'[m].state = "FAILED" /\ jobs[m].transferred) =>
         jobs[m].state = "ROLLED_BACK"]_vars

\* A backup has the size the comment behind vm_create_backup's data_size gives, 12GB.
BackupSizeAsStated == \A b \in DOMAIN backups : backups[b].data_size = 12

\* What is promised of migrations in the three parts: those above but the memory
\* of the host and the size of a backup.
MigrationSound ==
  /\ CarriedOutOnce /\ MovedIsRolledBackFirst
  /\ [](PagesConserved /\ FreeSlotUsable /\ NoDivisionByZero /\ MigrationCanBeCancelled)
=============================================================================
