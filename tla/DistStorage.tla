----------------------------- MODULE DistStorage -----------------------------
(***************************************************************************)
(* distributed-systems/distributed_storage.c: the blocks of one storage    *)
(* node and the states of its replicas.  storage_put always appends;       *)
(* reading finds the first block of the key that is not a tombstone, while *)
(* deleting marks the first block of the key, tombstone or not.            *)
(***************************************************************************)
EXTENDS Naturals, Sequences, SequencesExt

CONSTANTS
  Key, Value,
  MaxBlocks,     \* MAX_DATA_BLOCKS
  MaxReplicas,   \* MAX_REPLICAS
  MaxJobs,       \* MAX_REPLICATION_JOBS
  Factor         \* replication_factor

VARIABLES
  blocks,        \* data_blocks, up to total_data_blocks
  replicas,      \* the replicas; the one with id r is replicas[r]
  jobs           \* target of each replication job started; none ever ends

vars == <<blocks, replicas, jobs>>

DataBlock == [key : Key, value : Value, is_tombstone : BOOLEAN, replicas : 0..MaxReplicas]
Replica == [state : {"SYNCING", "SYNCED", "FAILED"}, synced : 0..MaxBlocks]

TypeOK ==
  /\ blocks \in Seq(DataBlock) /\ Len(blocks) <= MaxBlocks
  /\ replicas \in Seq(Replica) /\ Len(replicas) <= MaxReplicas
  /\ jobs \in Seq(1..MaxReplicas) /\ Len(jobs) <= MaxJobs

Init == blocks = << >> /\ replicas = << >> /\ jobs = << >>

Smaller(m, n) == IF m < n THEN m ELSE n

storage_add_replica ==
  /\ Len(replicas) < MaxReplicas
  /\ replicas' = Append(replicas, [state |-> "SYNCING", synced |-> 0])
  /\ UNCHANGED <<blocks, jobs>>

\* storage_remove_replica and storage_handle_replica_failure
Fail(r) == replicas' = [replicas EXCEPT ![r].state = "FAILED"] /\ UNCHANGED <<blocks, jobs>>

\* replication_lag_ms is never anything but 0.
storage_check_replica_health(r) ==
  /\ replicas[r].state = "SYNCING"
  /\ replicas' = [replicas EXCEPT ![r].state = "SYNCED"]
  /\ UNCHANGED <<blocks, jobs>>

\* storage_sync_replica, which storage_recover_replica ends with
storage_sync_replica(r) ==
  /\ replicas' = [replicas EXCEPT ![r] = [state |-> "SYNCED", synced |-> Len(blocks)]]
  /\ UNCHANGED <<blocks, jobs>>

\* The block goes to the first replicas of the table, failed ones included; a
\* job is started for each as long as the job table has room.
storage_put(k, v) ==
  LET n == Smaller(Factor, Len(replicas)) IN
  /\ Len(blocks) < MaxBlocks
  /\ blocks' = Append(blocks, [key |-> k, value |-> v, is_tombstone |-> FALSE, replicas |-> n])
  /\ jobs' = SubSeq(jobs \o [i \in 1..n |-> i], 1, Smaller(MaxJobs, Len(jobs) + n))
  /\ UNCHANGED replicas

Of(k) == {i \in 1..Len(blocks) : blocks[i].key = k}
First(S) == {i \in S : \A j \in S : i <= j}

storage_delete(k) ==
  \E i \in First(Of(k)) :
    /\ blocks' = [blocks EXCEPT ![i].is_tombstone = TRUE]
    /\ UNCHANGED <<replicas, jobs>>

CleanupSkips ==               \* mistaken cleanup: the block after a tombstone goes too
  /\ blocks' = SelectSeq(blocks, LAMBDA b :
       ~b.is_tombstone /\ \A i \in 2..Len(blocks) : blocks[i] = b => ~blocks[i - 1].is_tombstone)
  /\ UNCHANGED <<replicas, jobs>>

storage_cleanup_tombstones ==
  /\ blocks' = SelectSeq(blocks, LAMBDA b : ~b.is_tombstone)
  /\ UNCHANGED <<replicas, jobs>>

Next ==
  \/ storage_add_replica \/ storage_cleanup_tombstones
  \/ \E r \in 1..Len(replicas) : Fail(r) \/ storage_check_replica_health(r) \/ storage_sync_replica(r)
  \/ \E k \in Key : storage_delete(k) \/ \E v \in Value : storage_put(k, v)

Spec == Init /\ [][Next]_vars

-----------------------------------------------------------------------------

\* What storage_get returns for the key: no value, or the one of a block.
storage_get(k) == {blocks[i].value : i \in First({i \in Of(k) : ~blocks[i].is_tombstone})}

\* Of the blocks of a key only the first can be a tombstone: a deletion hides one
\* write, and deleting again changes nothing until the tombstone is cleaned up.
TombstoneFirst ==
  \A k \in Key : \A i \in Of(k) : blocks[i].is_tombstone => i \in First(Of(k))

\* While a key can be read, writing it changes nothing that a read returns: the
\* oldest value stays visible until it is deleted.
OldestWriteStays ==
  [][\A k \in Key : (storage_get(k) # {} /\ Len(blocks') > Len(blocks)) =>
       storage_get(k)' = storage_get(k)]_vars

\* Removing tombstones changes no read, whatever was written and deleted.
CleanupInvisible ==
  [][Len(blocks') < Len(blocks) => \A k \in Key : storage_get(k)' = storage_get(k)]_vars

\* A replica that failed counts as synced again only once it has every block.
FailedComesBackWhole ==
  [][\A r \in 1..Len(replicas) :
       (replicas[r].state = "FAILED" /\ replicas'[r].state = "SYNCED") =>
         replicas'[r].synced = Len(blocks)]_vars
=============================================================================
