---------------------------- MODULE PoolAllocator ----------------------------
(***************************************************************************)
(* One pool of memory-management/memory_pool_allocator.c.  A block starts  *)
(* where total_allocated points, and freeing any block moves that point    *)
(* back by the size of the block, so the order of frees decides whether    *)
(* blocks overlap.  Entries of the block table are never used again.       *)
(*                                                                         *)
(* ManagerNext is the second part, mm/memory_manager.c, which keeps a       *)
(* record of every block that malloc gave it.  Records are never used      *)
(* again, addresses are: the records of freed blocks name addresses that   *)
(* live blocks have.                                                       *)
(***************************************************************************)
EXTENDS Integers, Sequences, SequencesExt

CONSTANTS
  PoolSize,   \* pool_size
  MaxBlocks,  \* entries of the block table
  Address,    \* the addresses malloc has to give
  Size,       \* the sizes asked of the memory manager
  MaxRecords  \* max_blocks of the memory manager

VARIABLES
  exists,           \* the pool was created and not destroyed
  blocks,           \* ptr and size of each table entry, or Freed
  total_allocated,
  total_free,
  lifo,             \* history: every free so far was of the newest block
  records,          \* blocks of the memory manager
  manager_allocated, manager_freed,   \* its total_allocated and total_freed
  owned             \* of each address: the size of the block malloc gave there, 0 if none

poolVars == <<exists, blocks, total_allocated, total_free, lifo>>
managerVars == <<records, manager_allocated, manager_freed, owned>>
vars == <<poolVars, managerVars>>

Freed == [ptr |-> 0, size |-> 0]
MemoryBlock == [ptr : 0..PoolSize, size : 1..PoolSize]

MemoryRecord == [ptr : Address, size : Size, in_use : BOOLEAN]

TypeOK ==
  /\ exists \in BOOLEAN /\ lifo \in BOOLEAN
  /\ blocks \in Seq(MemoryBlock \cup {Freed}) /\ Len(blocks) <= MaxBlocks
  /\ total_allocated \in 0..PoolSize /\ total_free \in 0..PoolSize
  /\ records \in Seq(MemoryRecord) /\ Len(records) <= MaxRecords
  /\ manager_allocated \in Nat /\ manager_freed \in Nat
  /\ owned \in [Address -> Size \cup {0}]

Init ==
  /\ exists = FALSE /\ blocks = << >> /\ lifo = TRUE
  /\ total_allocated = 0 /\ total_free = 0
  /\ records = << >> /\ manager_allocated = 0 /\ manager_freed = 0
  /\ owned = [a \in Address |-> 0]

Live == {j \in 1..Len(blocks) : blocks[j] # Freed}

allocator_create_pool ==
  /\ ~exists /\ exists' = TRUE
  /\ blocks' = << >> /\ total_allocated' = 0 /\ total_free' = PoolSize
  /\ lifo' = TRUE

\* The entry of the pool is cleared, its blocks with it.
allocator_destroy_pool ==
  /\ exists /\ exists' = FALSE
  /\ blocks' = << >> /\ total_allocated' = 0 /\ total_free' = 0
  /\ lifo' = TRUE

Start == total_allocated

AllocateOneMore(size) ==              \* mistaken allocator_allocate: off by one
  /\ exists /\ size <= total_free + 1 /\ Len(blocks) < MaxBlocks
  /\ blocks' = Append(blocks, [ptr |-> Start, size |-> size])
  /\ total_allocated' = total_allocated + size
  /\ total_free' = IF size > total_free THEN 0 ELSE total_free - size
  /\ UNCHANGED <<exists, lifo>>

allocator_allocate(size) ==
  /\ exists /\ size <= total_free /\ Len(blocks) < MaxBlocks
  /\ blocks' = Append(blocks, [ptr |-> Start, size |-> size])
  /\ total_allocated' = total_allocated + size
  /\ total_free' = total_free - size
  /\ UNCHANGED <<exists, lifo>>

\* The first live block that starts at ptr, whoever asked for it.
Found(ptr) == {j \in Live : blocks[j].ptr = ptr /\ \A i \in Live : blocks[i].ptr = ptr => j <= i}

allocator_deallocate(ptr) ==
  \E j \in Found(ptr) :
    /\ blocks' = [blocks EXCEPT ![j] = Freed]
    /\ total_allocated' = total_allocated - blocks[j].size
    /\ total_free' = total_free + blocks[j].size
    /\ lifo' = (lifo /\ \A i \in Live : i <= j)
    /\ UNCHANGED exists

PoolNext ==
  /\ \/ allocator_create_pool \/ allocator_destroy_pool
     \/ \E size \in 1..PoolSize : allocator_allocate(size)
     \/ \E ptr \in 0..PoolSize : allocator_deallocate(ptr)
  /\ UNCHANGED managerVars

Spec == Init /\ [][PoolNext]_vars

-----------------------------------------------------------------------------
\* The memory manager.

memory_manager_init ==
  /\ records' = << >> /\ manager_allocated' = 0 /\ manager_freed' = 0
  /\ owned' = [a \in Address |-> 0]

\* malloc: any address where no block is
Unowned == {a \in Address : owned[a] = 0}

memory_allocate(size, ptr) ==
  /\ Len(records) < MaxRecords /\ ptr \in Unowned
  /\ records' = Append(records, [ptr |-> ptr, size |-> size, in_use |-> TRUE])
  /\ manager_allocated' = manager_allocated + size
  /\ owned' = [owned EXCEPT ![ptr] = size]
  /\ UNCHANGED manager_freed

\* The first record in use at the address, none or one.
InUseAt(ptr) ==
  {i \in DOMAIN records :
     /\ records[i].ptr = ptr /\ records[i].in_use
     /\ \A j \in 1..(i - 1) : ~(records[j].ptr = ptr /\ records[j].in_use)}

memory_free(ptr) ==
  \E i \in InUseAt(ptr) :
    /\ manager_freed' = manager_freed + records[i].size
    /\ records' = [records EXCEPT ![i].in_use = FALSE]
    /\ owned' = [owned EXCEPT ![ptr] = 0]
    /\ UNCHANGED manager_allocated

\* realloc leaves the block where it is or moves it.
memory_reallocate(ptr, size, new) ==
  /\ new \in Unowned \cup {ptr}
  /\ \E i \in InUseAt(ptr) :
       /\ manager_allocated' = manager_allocated + size - records[i].size
       /\ records' = [records EXCEPT ![i].ptr = new, ![i].size = size]
  /\ owned' = [owned EXCEPT ![ptr] = 0, ![new] = size]
  /\ UNCHANGED manager_freed

memory_get_usage == manager_allocated - manager_freed

\* memory_manager_cleanup frees what is in use; a new manager may follow.
ManagerNext ==
  /\ \/ memory_manager_init
     \/ \E ptr \in Address :
          \/ memory_free(ptr)
          \/ \E size \in Size :
               \/ memory_allocate(size, ptr)
               \/ \E new \in Address : memory_reallocate(ptr, size, new)
  /\ UNCHANGED poolVars

ManagerSpec == Init /\ [][ManagerNext]_vars

-----------------------------------------------------------------------------

\* The two totals agree with the blocks that are live, in whatever order blocks
\* were freed: total_free never wraps and no memory is lost for good.
Accounting ==
  /\ total_allocated = FoldSeq(LAMBDA b, sum : sum + b.size, 0, blocks)
  /\ exists => total_allocated + total_free = PoolSize

\* Every block lies within the pool.
WithinPool == \A j \in Live : blocks[j].ptr + blocks[j].size <= PoolSize

\* As long as blocks are freed newest first, no two live blocks overlap.
DisjointWhenLifo ==
  lifo => \A i, j \in Live : i < j => blocks[i].ptr + blocks[i].size <= blocks[j].ptr

\* The records in use are the blocks the memory manager owns, each once and with
\* its size, and memory_get_usage is their sum: a call never takes the record of
\* a freed block for the live one that malloc put at the same address.
UsageExact ==
  LET live == SelectSeq(records, LAMBDA r : r.in_use)
  IN  /\ \A a \in Address : SelectSeq(live, LAMBDA r : r.ptr = a) = IF owned[a] = 0 THEN << >> ELSE <<[ptr |-> a, size |-> owned[a], in_use |-> TRUE]>>
      /\ memory_get_usage = FoldSeq(LAMBDA r, sum : sum + r.size, 0, live)
=============================================================================
