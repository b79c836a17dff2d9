----------------------------- MODULE MCStorage -----------------------------
(*****************************************************************************)
(* Caches, queues and buffers of one machine for TLC. The components share   *)
(* no state: no function of one touches another, so their steps interleave   *)
(* freely and each property speaks of one of them. A behaviour therefore     *)
(* exercises one component, and a run has the sum of their states instead    *)
(* of the product.                                                           *)
(*****************************************************************************)
EXTENDS Integers

VARIABLES
  subject,   \* the component this behaviour exercises
  page, used_size, dirty_page_count, next_cache_page_id,
  block, allocated_size, next_block_id, latest,
  requests, request_count, rear_index, next_request_id, pointers, freed, handed,
  inOrder,
  memory_exists, blocks, total_allocated, total_free, lifo, records,
  manager_allocated, manager_freed, owned,
  checkpoints_exists, checkpoints, heap, next_id, last, recovery_points, made,
  cleaned,
  objects, total_collected, handed_out, handed_back, bare

Pages == INSTANCE PageCache WITH
  Zones <- 2, PerZone <- 2, Offset <- {0, 1}, MaxId <- 4, MaxAccess <- 1

Blocks == INSTANCE DiskBuffer WITH
  Pools <- 2, PerPool <- 2, Location <- {0, 1}, Data <- {"d1", "d2"}, MaxId <- 4,
  Unwritten <- "unwritten"

Requests == INSTANCE IoScheduler WITH
  QueueSize <- 3, MaxId <- 3, Sectors <- {1, 2}

Memory == INSTANCE PoolAllocator WITH
  PoolSize <- 4, MaxBlocks <- 5, Address <- {"a", "b"}, Size <- {1, 2}, MaxRecords <- 4,
  exists <- memory_exists

Checkpoints == INSTANCE CheckpointRecovery WITH
  Value <- {"v1", "v2"}, Buffers <- {"b1", "b2", "b3", "b4"}, MaxCheckpoints <- 3,
  MaxId <- 4, MaxPoints <- 3, MaxMade <- 6, exists <- checkpoints_exists

Heap == INSTANCE GarbageCollector WITH
  Size <- {1, 2}, Target <- {1, 2}, MaxObjects <- 2, MaxReferences <- 2

pagesVars == <<
  page, used_size, dirty_page_count, next_cache_page_id>>

blocksVars == <<
  block, allocated_size, next_block_id, latest>>

requestsVars == <<
  requests, request_count, rear_index, next_request_id, pointers, freed, handed,
  inOrder>>

memoryVars == <<
  memory_exists, blocks, total_allocated, total_free, lifo, records,
  manager_allocated, manager_freed, owned>>

checkpointsVars == <<
  checkpoints_exists, checkpoints, heap, next_id, last, recovery_points, made,
  cleaned>>

heapVars == <<
  objects, total_collected, handed_out, handed_back, bare>>

all == <<subject, pagesVars, blocksVars, requestsVars, memoryVars, checkpointsVars, heapVars>>

Start ==
  /\ subject \in {"pages", "blocks", "requests", "memory", "records", "checkpoints", "points", "heap"}
  /\ Pages!Init /\ Blocks!Init /\ Requests!Init /\ Memory!Init /\ Checkpoints!Init /\ Heap!Init

\* One component moves, the others wait in their initial states.
Step ==
  \/ subject = "pages" /\ Pages!Next /\ UNCHANGED <<subject, blocksVars, requestsVars, memoryVars, checkpointsVars, heapVars>>
  \/ subject = "blocks" /\ Blocks!Next /\ UNCHANGED <<subject, pagesVars, requestsVars, memoryVars, checkpointsVars, heapVars>>
  \/ subject = "requests" /\ Requests!Next /\ UNCHANGED <<subject, pagesVars, blocksVars, memoryVars, checkpointsVars, heapVars>>
  \/ subject = "memory" /\ Memory!PoolNext /\ UNCHANGED <<subject, pagesVars, blocksVars, requestsVars, checkpointsVars, heapVars>>
  \/ subject = "records" /\ Memory!ManagerNext /\ UNCHANGED <<subject, pagesVars, blocksVars, requestsVars, checkpointsVars, heapVars>>
  \/ subject = "checkpoints" /\ Checkpoints!CheckpointsNext /\ UNCHANGED <<subject, pagesVars, blocksVars, requestsVars, memoryVars, heapVars>>
  \/ subject = "points" /\ Checkpoints!PointsNext /\ UNCHANGED <<subject, pagesVars, blocksVars, requestsVars, memoryVars, heapVars>>
  \/ subject = "heap" /\ Heap!Next /\ UNCHANGED <<subject, pagesVars, blocksVars, requestsVars, memoryVars, checkpointsVars>>

System == Start /\ [][Step]_all

-----------------------------------------------------------------------------

\* Requests are handed out once, in the order of their submission as long as
\* nobody sorts, and sorting by sector keeps requests of one sector in order.
HandedInOrder ==
  /\ Requests!FirstInFirstOut
  /\ []Requests!HandedOnce
  /\ Requests!SortIsStable

\* Data that is still needed is found and not overwritten: a block read at any
\* location but 0 has the data last written there, a write takes a free page, a
\* pinned page or block is not taken away by another caller, pool blocks freed
\* in reverse order never overlap, a checkpoint that verified goes on verifying
\* and the last successful one is complete, a sweep frees only objects the
\* marks condemned, and of recovery points the newest are kept and none is
\* taken for an older one.
LiveDataKept ==
  /\ Pages!NoPageReplaced
  /\ []Memory!WithinPool
  /\ []Memory!DisjointWhenLifo
  /\ Checkpoints!VerifiedStays
  /\ []Checkpoints!LastIsCompleted
  /\ []Checkpoints!NoNewerPoint
  /\ []Checkpoints!NewestPointsKept
  /\ Heap!SweepSparesNew
  /\ Pages!PinnedStays
  /\ Blocks!PinnedStays
  /\ []Blocks!ReadsLatest

\* The books agree with the contents after every sequence of calls: each
\* request and checkpoint buffer has one owner and is freed once, and the
\* counters of caches, buffers, pools, the memory manager and the collected
\* heap count what is there.
AccountsExact ==
  /\ Requests!BufferOwnedOnce
  /\ Checkpoints!BuffersOwned
  /\ Pages!UsedIsOccupied
  /\ Pages!DirtyCountCovers
  /\ Blocks!AllocatedIsHeld
  /\ Memory!Accounting
  /\ Memory!UsageExact
  /\ Heap!HeapConserved

\* Every component stays within its types and the sizes of its tables.
TypesOK == Pages!TypeOK /\ Blocks!TypeOK /\ Requests!TypeOK /\ Memory!TypeOK /\ Checkpoints!TypeOK /\ Heap!TypeOK
=============================================================================
