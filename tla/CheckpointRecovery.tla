------------------------- MODULE CheckpointRecovery -------------------------
(***************************************************************************)
(* The checkpoints of fault-tolerance/checkpoint_recovery.c and the heap    *)
(* buffers that hold them.  Checkpoints are created, saved to and finalised *)
(* by calls that name an id, in any order and more than once; pruning frees *)
(* the oldest ones and moves the others down.                               *)
(*                                                                         *)
(* The recovery points of services/fault_tolerance.c, whose ids are their   *)
(* place in the table when they are made; cleaning up drops the oldest.     *)
(***************************************************************************)
EXTENDS Naturals, Sequences

CONSTANTS
  Value,            \* snapshots of a process
  Buffers,          \* addresses malloc may return
  MaxCheckpoints,   \* MAX_CHECKPOINTS
  MaxId,            \* bound on next_checkpoint_id
  MaxPoints,        \* MAX_RECOVERY_POINTS
  MaxMade           \* bound on the recovery points made

NoData == "no data" \* state_size = 0

VARIABLES
  exists,           \* the manager was initialised and not destroyed
  checkpoints,      \* the table, up to checkpoint_count
  heap,             \* buffers allocated and not freed
  next_id,          \* next_checkpoint_id, never reset
  last,             \* last_successful_checkpoint
  recovery_points,
  made,             \* history: recovery points made so far
  cleaned           \* history: a recovery point was dropped

checkpointVars == <<exists, checkpoints, heap, next_id, last>>
pointVars == <<recovery_points, made, cleaned>>
vars == <<exists, checkpoints, heap, next_id, last, recovery_points, made, cleaned>>

Checkpoint ==
  [id : 1..MaxId, completed : BOOLEAN, data : Value \cup {NoData}, buf : Buffers]

\* full: it holds a checkpoint; serial (history): which one made it is
RecoveryPoint == [id : 1..MaxPoints, full : BOOLEAN, serial : 1..MaxMade]

TypeOK ==
  /\ exists \in BOOLEAN /\ heap \subseteq Buffers
  /\ checkpoints \in Seq(Checkpoint) /\ Len(checkpoints) <= MaxCheckpoints
  /\ next_id \in 1..(MaxId + 1) /\ last \in 0..MaxId
  /\ recovery_points \in Seq(RecoveryPoint) /\ Len(recovery_points) <= MaxPoints
  /\ made \in 0..MaxMade /\ cleaned \in BOOLEAN

Init ==
  /\ exists = FALSE /\ checkpoints = << >> /\ heap = {} /\ next_id = 1 /\ last = 0
  /\ recovery_points = << >> /\ made = 0 /\ cleaned = FALSE

checkpoint_manager_init ==
  /\ ~exists /\ exists' = TRUE
  /\ checkpoints' = << >> /\ last' = 0
  /\ UNCHANGED <<heap, next_id>>

BuffersIn(s) == {s[i].buf : i \in 1..Len(s)}

checkpoint_manager_destroy ==
  /\ exists /\ exists' = FALSE
  /\ heap' = heap \ BuffersIn(checkpoints) /\ checkpoints' = << >>
  /\ UNCHANGED <<next_id, last>>

\* malloc may fail: the id is used up all the same.
checkpoint_create ==
  /\ exists /\ Len(checkpoints) < MaxCheckpoints /\ next_id <= MaxId
  /\ \/ \E b \in Buffers \ heap :
          /\ heap' = heap \cup {b}
          /\ checkpoints' = Append(checkpoints, [id |-> next_id, completed |-> FALSE, data |-> NoData, buf |-> b])
     \/ UNCHANGED <<heap, checkpoints>>
  /\ next_id' = next_id + 1
  /\ UNCHANGED <<exists, last>>

Find(id) == {i \in 1..Len(checkpoints) : checkpoints[i].id = id}

\* Nothing asks whether the checkpoint was finalised.
checkpoint_save_state(id, v) ==
  \E i \in Find(id) :
    /\ checkpoints' = [checkpoints EXCEPT ![i].data = v]
    /\ UNCHANGED <<exists, heap, next_id, last>>

checkpoint_finalize(id) ==
  \E i \in Find(id) :
    /\ checkpoints' = [checkpoints EXCEPT ![i].completed = TRUE]
    /\ last' = id
    /\ UNCHANGED <<exists, heap, next_id>>

Kept(keep) == SubSeq(checkpoints, Len(checkpoints) - keep + 1, Len(checkpoints))

recovery_prune_old_checkpoints(keep) ==
  /\ Len(checkpoints) > keep
  /\ checkpoints' = Kept(keep)
  /\ heap' = heap \ BuffersIn(SubSeq(checkpoints, 1, Len(checkpoints) - keep))
  /\ UNCHANGED <<exists, next_id, last>>

CheckpointsNext ==
  /\ \/ checkpoint_manager_init \/ checkpoint_manager_destroy \/ checkpoint_create
     \/ \E id \in 1..MaxId :
          checkpoint_finalize(id) \/ \E v \in Value : checkpoint_save_state(id, v)
     \/ \E keep \in 1..MaxCheckpoints : recovery_prune_old_checkpoints(keep)
  /\ UNCHANGED pointVars

-----------------------------------------------------------------------------
(* Recovery points *)

\* ft_create_checkpoint makes a point with a checkpoint, ft_create_recovery_point an empty one.
Make(full) ==
  /\ Len(recovery_points) < MaxPoints /\ made < MaxMade
  /\ recovery_points' = Append(recovery_points, [id |-> Len(recovery_points) + 1, full |-> full, serial |-> made + 1])
  /\ made' = made + 1 /\ UNCHANGED cleaned

ft_create_checkpoint == Make(TRUE)
ft_create_recovery_point == Make(FALSE)

ft_get_recovery_point(id) ==
  {p \in DOMAIN recovery_points : recovery_points[p].id = id /\ \A q \in 1..(p - 1) : recovery_points[q].id # id}

\* ft_restore_from_recovery_point and ft_validate_recovery_point say yes.
Restorable(id) == \E p \in ft_get_recovery_point(id) : recovery_points[p].full

OldestDropped(keep) == SubSeq(recovery_points, Len(recovery_points) - keep + 1, Len(recovery_points))

ft_cleanup_old_checkpoints(keep) ==
  /\ Len(recovery_points) > keep
  /\ recovery_points' = OldestDropped(keep)
  /\ cleaned' = TRUE /\ UNCHANGED made

PointsNext ==
  /\ ft_create_checkpoint \/ ft_create_recovery_point \/ \E keep \in 0..MaxPoints : ft_cleanup_old_checkpoints(keep)
  /\ UNCHANGED checkpointVars

Spec == Init /\ [][CheckpointsNext]_vars
PointsSpec == Init /\ [][PointsNext]_vars

-----------------------------------------------------------------------------

\* Every checkpoint owns a buffer of its own that is still allocated, and no
\* buffer is allocated that no checkpoint owns: pruning and destroying free each
\* buffer once, and failed creations leak none.
BuffersOwned ==
  /\ heap = BuffersIn(checkpoints)
  /\ \A i, j \in 1..Len(checkpoints) : checkpoints[i].buf = checkpoints[j].buf => i = j

\* last_successful_checkpoint names a completed checkpoint of the table, or one
\* that was pruned and is older than all that were kept.
LastIsCompleted ==
  (exists /\ last # 0) =>
    \/ \E i \in Find(last) : checkpoints[i].completed
    \/ \A i \in 1..Len(checkpoints) : checkpoints[i].id > last

\* recovery_verify_checkpoint returns 0.
Verified(id) == \E i \in Find(id) : checkpoints[i].completed /\ checkpoints[i].data # NoData

\* A checkpoint that verifies goes on verifying, whatever is saved to it, until
\* it is pruned or the manager is destroyed; then every older one is gone too.
VerifiedStays ==
  [][\A id \in 1..MaxId : (Verified(id) /\ exists') =>
       Verified(id)' \/ \A i \in 1..Len(checkpoints') : checkpoints'[i].id > id]_vars

\* Ids repeat once points were dropped, but a lookup never finds a newer point than
\* the one the caller was given the id of, and until then it finds that one, so
\* that it can be restored exactly when it was made with a checkpoint.
NoNewerPoint ==
  \A p \in DOMAIN recovery_points : LET id == recovery_points[p].id IN
    /\ \E q \in ft_get_recovery_point(id) : recovery_points[q].serial <= recovery_points[p].serial
    /\ ~cleaned => (Restorable(id) <=> recovery_points[p].full)

\* What is kept are the newest points, without a gap: cleaning up never drops a
\* point that is newer than one it keeps (ft_cleanup_old_checkpoints).
NewestPointsKept ==
  \A p \in DOMAIN recovery_points : recovery_points[p].serial = made - Len(recovery_points) + p

=============================================================================
