----------------------------- MODULE DiskBuffer -----------------------------
(***************************************************************************)
(* The disk buffer, io-filesystem/disk_cache_buffer.c: pools of blocks.  A *)
(* write goes to the block that has the location or to a new block of pool *)
(* 0; callers may also allocate blocks of their own, which keep location 0 *)
(* and their contents unwritten.  Sizes count blocks here.                 *)
(***************************************************************************)
EXTENDS Naturals, FiniteSets

CONSTANTS
  Pools,      \* pool_count
  PerPool,    \* block_count of a pool
  Location,   \* disk locations, 0 among them
  Data,
  MaxId,      \* bound: blocks allocated
  Unwritten   \* contents of a fresh block

VARIABLES
  block,           \* per pool and slot: the block, or Free
  allocated_size,  \* per pool
  next_block_id,
  latest           \* history: the data last written to a location still held

vars == <<block, allocated_size, next_block_id, latest>>

Pool == 0..(Pools - 1)
Slot == Pool \X (0..(PerPool - 1))
Free == [id |-> 0]
BufferBlock == [id : 1..MaxId, disk_location : Location, data : Data \cup {Unwritten},
                is_dirty : BOOLEAN, is_pinned : BOOLEAN]

TypeOK ==
  /\ block \in [Slot -> BufferBlock \cup {Free}]
  /\ allocated_size \in [Pool -> 0..PerPool]
  /\ next_block_id \in 1..(MaxId + 1)
  /\ latest \in [Location -> Data \cup {Unwritten}]

Init ==
  /\ block = [s \in Slot |-> Free] /\ allocated_size = [p \in Pool |-> 0]
  /\ next_block_id = 1 /\ latest = [l \in Location |-> Unwritten]

-----------------------------------------------------------------------------

Held == {s \in Slot : block[s] # Free}

FirstOf(S) ==
  CHOOSE s \in S : \A t \in S : s[1] < t[1] \/ (s[1] = t[1] /\ s[2] <= t[2])

\* The blocks disk_cache_read_block may find; it takes the first.
At(l) == {s \in Held : block[s].disk_location = l}

FreeIn(p) == {s \in Slot : s[1] = p /\ block[s] = Free}

Allocate(p, location, data, dirty) ==
  /\ FreeIn(p) # {} /\ next_block_id <= MaxId
  /\ block' = [block EXCEPT ![FirstOf(FreeIn(p))] =
                 [id |-> next_block_id, disk_location |-> location, data |-> data,
                  is_dirty |-> dirty, is_pinned |-> FALSE]]
  /\ allocated_size' = [allocated_size EXCEPT ![p] = @ + 1]
  /\ next_block_id' = next_block_id + 1

disk_cache_allocate_block(p) ==
  /\ Allocate(p, 0, Unwritten, FALSE)
  /\ UNCHANGED latest

disk_cache_deallocate_block(p, id) ==
  \E s \in Held :
    /\ s[1] = p /\ block[s].id = id /\ ~block[s].is_pinned
    /\ block' = [block EXCEPT ![s] = Free]
    /\ allocated_size' = [allocated_size EXCEPT ![p] = @ - 1]
    /\ latest' = [latest EXCEPT ![block[s].disk_location] = Unwritten]
    /\ UNCHANGED next_block_id

WriteHeld(l, d) ==
  /\ At(l) # {}
  /\ block' = [block EXCEPT ![FirstOf(At(l))] = [@ EXCEPT !.data = d, !.is_dirty = TRUE]]
  /\ UNCHANGED <<allocated_size, next_block_id>>

WriteNew(l, d) == At(l) = {} /\ Allocate(0, l, d, TRUE)

disk_cache_write_block(l, d) ==
  /\ WriteHeld(l, d) \/ WriteNew(l, d)
  /\ latest' = [latest EXCEPT ![l] = d]

\* Flushed blocks are clean; pinned ones are left out.
Flushed(P) ==
  [s \in Slot |-> IF s \in Held /\ s[1] \in P /\ ~block[s].is_pinned
                  THEN [block[s] EXCEPT !.is_dirty = FALSE] ELSE block[s]]

disk_cache_flush_blocks(p) ==
  /\ block' = Flushed({p})
  /\ UNCHANGED <<allocated_size, next_block_id, latest>>

disk_cache_flush_all ==
  /\ block' = Flushed(Pool)
  /\ UNCHANGED <<allocated_size, next_block_id, latest>>

Pin(id, pinned) ==
  \E s \in Held :
    /\ block[s].id = id
    /\ block' = [block EXCEPT ![s].is_pinned = pinned]
    /\ UNCHANGED <<allocated_size, next_block_id, latest>>

disk_cache_lock_block(id) == Pin(id, TRUE)

disk_cache_unlock_block(id) == Pin(id, FALSE)

Next ==
  \/ \E p \in Pool : disk_cache_allocate_block(p) \/ disk_cache_flush_blocks(p)
  \/ \E p \in Pool, id \in 1..MaxId : disk_cache_deallocate_block(p, id)
  \/ \E l \in Location, d \in Data : disk_cache_write_block(l, d)
  \/ \E id \in 1..MaxId : disk_cache_lock_block(id) \/ disk_cache_unlock_block(id)
  \/ disk_cache_flush_all

Spec == Init /\ [][Next]_vars

-----------------------------------------------------------------------------

\* allocated_size of a pool is the number of blocks it really holds.
AllocatedIsHeld ==
  \A p \in Pool : allocated_size[p] = Cardinality({s \in Held : s[1] = p})

\* A read of any location but 0 finds the data last written there, or no block
\* when it was never written or its block was deallocated.  Blocks allocated
\* without a location answer for location 0.
ReadsLatest ==
  \A l \in Location \ {0} :
    IF At(l) = {} THEN latest[l] = Unwritten
                  ELSE block[FirstOf(At(l))].data = latest[l]

\* A pinned block stays, and stays dirty, until it is unpinned, whatever other
\* callers deallocate and flush.
PinnedStays ==
  [][\A s \in Held : block[s].is_pinned =>
       /\ block'[s] # Free /\ block'[s].id = block[s].id
       /\ block[s].is_dirty => block'[s].is_dirty]_vars
=============================================================================
