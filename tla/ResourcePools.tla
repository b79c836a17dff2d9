----------------------------- MODULE ResourcePools -----------------------------
(***************************************************************************)
(* advanced-virtualization/vm_resource_manager.c: memory and virtual        *)
(* processors of the machines, the manager's total and the pools the memory *)
(* is taken from.  A machine may be allocated again while it runs, which    *)
(* overwrites what it had; the pool memory returns to is the first that has *)
(* as much allocated, not the one it came from; and resizing changes no     *)
(* pool.  Usage, ballooning and oversubscription, which move no memory, are *)
(* left out, and so is vm_count, which only ratios read.                    *)
(*                                                                         *)
(* resource-scheduling/resource_allocator.c: requests that are served from  *)
(* pools of their kind.  First fit and best fit both take the first pool    *)
(* with the room; the other strategies serve nothing.  Constraints, which   *)
(* no allocation looks at, are left out.                                    *)
(*                                                                         *)
(* services/resource_allocator.c: allocators that give out and take back    *)
(* amounts of a resource, with a log that ends.  Quotas, limits, policies   *)
(* and scaling rules, which neither call looks at, are left out.            *)
(***************************************************************************)
EXTENDS Integers, Sequences, FiniteSets, SequencesExt

CONSTANTS
  MaxVms,          \* MAX_VMS
  MaxVcpus,        \* MAX_VCPUS
  Capacity,        \* MAX_VM_MEMORY_MB
  PoolCount,       \* pool_count
  Amounts,         \* memory sizes callers ask for
  MaxReservations, \* bound on the reservations of one run
  Kind,            \* resource types of the allocator
  RoomOf,          \* capacities its pools are created with
  MaxPools,        \* MAX_RESOURCE_POOLS
  MaxRequests,     \* MAX_RESOURCE_REQUESTS
  MaxAllocations,  \* MAX_ALLOCATED_RESOURCES
  MaxId,           \* bound on the ids of pools and of requests
  MaxAllocators,   \* MAX_RESOURCE_ALLOCATORS
  MaxEvents,       \* MAX_ALLOCATION_EVENTS
  Total            \* what an allocator is created with, of every resource

VARIABLES
  vm_memory,       \* allocated_memory_mb of each machine, 0 when it has none
  vcpus,           \* vm_id of each entry up to total_vcpu_count
  total_memory_allocated_mb,
  pools,           \* allocated_capacity and available_capacity
  reservation_count, \* of each pool
  overwritten,     \* history: memory of machines that were allocated again
  reserved,        \* history: capacity taken by reservations, of each pool
  kinds,           \* the pools of the allocator
  requests, allocations, next_pool_id, next_request_id,
  overrun,         \* an allocation was written behind the table
  holed,           \* history: the pools an allocation was released of while a later one stayed
  again,           \* history: the requests resource_allocate served once more
  allocators       \* g_allocators

vmVars == <<vm_memory, vcpus, total_memory_allocated_mb, pools, reservation_count, overwritten, reserved>>
allocatorVars == <<kinds, requests, allocations, next_pool_id, next_request_id, overrun, holed, again>>
serviceVars == <<allocators>>
vars == <<vm_memory, vcpus, total_memory_allocated_mb, pools, reservation_count, overwritten, reserved,
          kinds, requests, allocations, next_pool_id, next_request_id, overrun, holed, again, allocators>>

Vm == 0..(MaxVms - 1)
Pool == 1..PoolCount
PoolCapacity == Capacity \div PoolCount
ResourcePool == [allocated : 0..PoolCapacity, available : 0..PoolCapacity]
KindPool == [id : 1..MaxId, kind : Kind, total_capacity : RoomOf, available : Nat, allocated : Nat]
ResourceRequest == [id : 1..MaxId, kind : Kind, amount : Amounts, is_fulfilled : BOOLEAN]
ResourceAllocation == [request : 1..MaxId, pool : 1..MaxId, amount : Amounts, base_address : Nat]
Resource == {"CPU", "NETWORK_BANDWIDTH"}
\* out: what was given less what came back of it (history)
ServiceAllocator ==
  [available : [Resource -> 0..Total], events : 0..MaxEvents, out : [Resource -> Nat]]

TypeOK ==
  /\ vm_memory \in [Vm -> {0} \cup Amounts]
  /\ vcpus \in Seq(Vm) /\ Len(vcpus) <= MaxVcpus
  /\ total_memory_allocated_mb \in 0..Capacity
  /\ pools \in [Pool -> ResourcePool]
  /\ reservation_count \in [Pool -> 0..MaxReservations]
  /\ overwritten \in Nat /\ reserved \in [Pool -> 0..PoolCapacity]
  /\ kinds \in Seq(KindPool) /\ Len(kinds) <= MaxPools
  /\ requests \in Seq(ResourceRequest) /\ Len(requests) <= MaxRequests
  /\ allocations \in Seq(ResourceAllocation) /\ overrun = (Len(allocations) > MaxAllocations)
  /\ next_pool_id \in 1..(MaxId + 1) /\ next_request_id \in 1..(MaxId + 1)
  /\ holed \subseteq 1..MaxId /\ again \subseteq 1..MaxId
  /\ allocators \in Seq(ServiceAllocator) /\ Len(allocators) <= MaxAllocators

Init ==
  /\ vm_memory = [v \in Vm |-> 0] /\ vcpus = <<>> /\ total_memory_allocated_mb = 0
  /\ pools = [p \in Pool |-> [allocated |-> 0, available |-> PoolCapacity]]
  /\ reservation_count = [p \in Pool |-> 0]
  /\ overwritten = 0 /\ reserved = [p \in Pool |-> 0]
  /\ kinds = << >> /\ requests = << >> /\ allocations = << >> /\ next_pool_id = 1 /\ next_request_id = 1
  /\ overrun = FALSE /\ holed = {} /\ again = {}
  /\ allocators = << >>

\* Pools have the same total_capacity, so their utilization_ratios compare as
\* their allocated_capacity; < keeps the first.
Best(memory) ==
  LET fits == {p \in Pool : pools[p].available >= memory}
  IN {p \in fits : \A q \in fits :
        pools[p].allocated < pools[q].allocated \/ (pools[p].allocated = pools[q].allocated /\ p <= q)}

AllocateKeepsRoom(vm, n, memory) ==    \* mistaken vm_allocate_resources: available_capacity is not reduced
  /\ total_memory_allocated_mb + memory <= Capacity
  /\ Len(vcpus) + n <= MaxVcpus /\ vcpus' = vcpus \o [i \in 1..n |-> vm]
  /\ vm_memory' = [vm_memory EXCEPT ![vm] = memory] /\ overwritten' = overwritten + vm_memory[vm]
  /\ total_memory_allocated_mb' = total_memory_allocated_mb + memory
  /\ pools' = [p \in Pool |-> IF p \in Best(memory) THEN [pools[p] EXCEPT !.allocated = @ + memory] ELSE pools[p]]
  /\ UNCHANGED <<reservation_count, reserved>>

vm_allocate_resources(vm, n, memory) ==
  /\ total_memory_allocated_mb + memory <= Capacity
  /\ vcpus' = vcpus \o [i \in 1..Min({n, MaxVcpus - Len(vcpus)}) |-> vm]
  /\ IF Len(vcpus) + n > MaxVcpus         \* the processors taken so far are not given back
     THEN UNCHANGED <<vm_memory, total_memory_allocated_mb, pools, overwritten>>
     ELSE /\ vm_memory' = [vm_memory EXCEPT ![vm] = memory] /\ overwritten' = overwritten + vm_memory[vm]
          /\ total_memory_allocated_mb' = total_memory_allocated_mb + memory
          /\ pools' = [p \in Pool |->
               IF p \in Best(memory)
               THEN [allocated |-> pools[p].allocated + memory, available |-> pools[p].available - memory] ELSE pools[p]]
  /\ UNCHANGED <<reservation_count, reserved>>

Returned(memory) ==                   \* the first pool with as much allocated
  LET enough == {p \in Pool : pools[p].allocated >= memory} IN {p \in enough : \A q \in enough : p <= q}

vm_deallocate_resources(vm) ==
  LET memory == vm_memory[vm]
  IN /\ memory # 0
     /\ total_memory_allocated_mb' = total_memory_allocated_mb - memory
     /\ pools' = [p \in Pool |->
          IF p \in Returned(memory)
          THEN [allocated |-> pools[p].allocated - memory, available |-> pools[p].available + memory] ELSE pools[p]]
     /\ vcpus' = [i \in DOMAIN vcpus |-> IF vcpus[i] = vm THEN 0 ELSE vcpus[i]]
     /\ vm_memory' = [vm_memory EXCEPT ![vm] = 0]
     /\ UNCHANGED <<reservation_count, overwritten, reserved>>

\* The pool found is the first of its type with the room; every pool is the first for some call.
vm_reserve_resources(p, amount) ==
  /\ pools[p].available >= amount /\ reservation_count[p] < MaxReservations
  /\ pools' = [pools EXCEPT ![p].available = @ - amount]
  /\ reservation_count' = [reservation_count EXCEPT ![p] = @ + 1]
  /\ reserved' = [reserved EXCEPT ![p] = @ + amount]
  /\ UNCHANGED <<vm_memory, vcpus, total_memory_allocated_mb, overwritten>>

vm_release_reservation(p) ==          \* the capacity stays taken
  /\ reservation_count[p] > 0
  /\ reservation_count' = [reservation_count EXCEPT ![p] = @ - 1]
  /\ UNCHANGED <<vm_memory, vcpus, total_memory_allocated_mb, pools, overwritten, reserved>>

vm_hot_resize(vm, memory) ==
  /\ vm_memory[vm] # 0
  /\ LET delta == memory - vm_memory[vm]
     IN /\ delta > 0 => total_memory_allocated_mb + delta <= Capacity
        /\ total_memory_allocated_mb' = total_memory_allocated_mb + delta
  /\ vm_memory' = [vm_memory EXCEPT ![vm] = memory]
  /\ UNCHANGED <<vcpus, pools, reservation_count, overwritten, reserved>>

VmNext ==
  /\ \/ \E vm \in Vm :
          \/ \E n \in 1..2, memory \in Amounts : vm_allocate_resources(vm, n, memory)
          \/ vm_deallocate_resources(vm)
          \/ \E memory \in Amounts : vm_hot_resize(vm, memory)
     \/ \E p \in Pool : (\E amount \in Amounts : vm_reserve_resources(p, amount)) \/ vm_release_reservation(p)
  /\ UNCHANGED <<allocatorVars, serviceVars>>

-----------------------------------------------------------------------------
(* Requests served from pools of their kind *)

resource_pool_create(kind, room) ==
  /\ Len(kinds) < MaxPools /\ next_pool_id <= MaxId
  /\ kinds' = Append(kinds, [id |-> next_pool_id, kind |-> kind, total_capacity |-> room, available |-> room, allocated |-> 0])
  /\ next_pool_id' = next_pool_id + 1
  /\ UNCHANGED <<requests, allocations, next_request_id, overrun, holed, again>>

\* What was allocated in it stays allocated.
resource_pool_destroy(p) ==
  /\ kinds' = RemoveAt(kinds, p)
  /\ UNCHANGED <<requests, allocations, next_pool_id, next_request_id, overrun, holed, again>>

resource_request_submit(kind, amount) ==
  /\ Len(requests) < MaxRequests /\ next_request_id <= MaxId
  /\ requests' = Append(requests, [id |-> next_request_id, kind |-> kind, amount |-> amount, is_fulfilled |-> FALSE])
  /\ next_request_id' = next_request_id + 1
  /\ UNCHANGED <<kinds, allocations, next_pool_id, overrun, holed, again>>

\* Served or not; what it was given stays allocated.
resource_request_cancel(i) ==
  /\ requests' = RemoveAt(requests, i)
  /\ UNCHANGED <<kinds, allocations, next_pool_id, next_request_id, overrun, holed, again>>

State == [kinds |-> kinds, requests |-> requests, allocations |-> allocations]

\* The first pool of the kind with the room, if any.
FirstFit(state, i) ==
  LET request == state.requests[i]
      fits == {p \in DOMAIN state.kinds : state.kinds[p].kind = request.kind /\ state.kinds[p].available >= request.amount}
  IN {p \in fits : \A q \in fits : p <= q}

Taken(pool, amount) == [pool EXCEPT !.available = @ - amount, !.allocated = @ + amount]
Base(pool) == pool.total_capacity - pool.available

Served(state, i, p) ==
  LET pool == state.kinds[p]  request == state.requests[i]
  IN [kinds |-> [state.kinds EXCEPT ![p] = Taken(pool, request.amount)],
      requests |-> [state.requests EXCEPT ![i].is_fulfilled = TRUE],
      allocations |-> Append(state.allocations,
        [request |-> request.id, pool |-> pool.id, amount |-> request.amount, base_address |-> Base(pool)])]

Allocated(state, i) ==
  IF FirstFit(state, i) = {} THEN state ELSE Served(state, i, CHOOSE p \in FirstFit(state, i) : TRUE)

Become(state) ==
  /\ kinds' = state.kinds /\ requests' = state.requests /\ allocations' = state.allocations
  /\ overrun' = (Len(state.allocations) > MaxAllocations)
  /\ UNCHANGED <<next_pool_id, next_request_id, holed>>

\* A request that was served is served again, and nothing looks for the end of
\* the table of allocations.
resource_allocate(i) ==
  /\ Become(Allocated(State, i))
  /\ again' = IF requests[i].is_fulfilled /\ FirstFit(State, i) # {} THEN again \union {requests[i].id} ELSE again

Processed ==
  FoldLeft(LAMBDA state, i : IF state.requests[i].is_fulfilled THEN state ELSE Allocated(state, i),
           State, [i \in DOMAIN requests |-> i])

resource_process_pending_requests == Become(Processed) /\ UNCHANGED again

\* A pool that is gone gets nothing.
GivenBack(a) ==
  [p \in DOMAIN kinds |->
     IF kinds[p].id = allocations[a].pool THEN Taken(kinds[p], -allocations[a].amount) ELSE kinds[p]]

resource_deallocate(a) ==
  /\ kinds' = GivenBack(a) /\ allocations' = RemoveAt(allocations, a)
  /\ holed' = IF \E b \in DOMAIN allocations : b > a /\ allocations[b].pool = allocations[a].pool
              THEN holed \union {allocations[a].pool} ELSE holed
  /\ UNCHANGED <<requests, next_pool_id, next_request_id, overrun, again>>

AllocatorNext ==
  /\ ~overrun                     \* what the program does after that is undefined
  /\ \/ \E kind \in Kind : (\E room \in RoomOf : resource_pool_create(kind, room))
                           \/ \E amount \in Amounts : resource_request_submit(kind, amount)
     \/ \E p \in DOMAIN kinds : resource_pool_destroy(p)
     \/ \E i \in DOMAIN requests : resource_request_cancel(i) \/ resource_allocate(i)
     \/ resource_process_pending_requests
     \/ \E a \in DOMAIN allocations : resource_deallocate(a)
  /\ UNCHANGED <<vmVars, serviceVars>>

-----------------------------------------------------------------------------
(* Amounts given out and taken back: an id is a place, and moves on deletion *)

\* Two of the types name one resource; the last is of no resource.
ServiceType == {"CPU", "NETWORK_IO", "NETWORK_BANDWIDTH", "GPU"}
ResourceOf(type) == {IF type = "NETWORK_IO" THEN "NETWORK_BANDWIDTH" ELSE type} \intersect Resource

ra_create_allocator ==
  /\ Len(allocators) < MaxAllocators
  /\ allocators' = Append(allocators,
       [available |-> [r \in Resource |-> Total], events |-> 0, out |-> [r \in Resource |-> 0]])

ra_delete_allocator(a) == allocators' = RemoveAt(allocators, a)

\* A denial is an event, too, and when the log is full nothing is given any more.
ra_allocate_resource(a, type, amount) ==
  /\ allocators[a].events < MaxEvents
  /\ LET given == {r \in ResourceOf(type) : allocators[a].available[r] >= amount}
     IN allocators' = [allocators EXCEPT
          ![a].events = @ + 1,
          ![a].available = [r \in Resource |-> IF r \in given THEN @[r] - amount ELSE @[r]],
          ![a].out = [r \in Resource |-> IF r \in given THEN @[r] + amount ELSE @[r]]]

Capped(available, amount) == IF available + amount > Total THEN Total ELSE available + amount

ra_release_resource(a, type, amount) ==
  /\ ResourceOf(type) # {}
  /\ LET back == ResourceOf(type)
     IN allocators' = [allocators EXCEPT
          ![a].available = [r \in Resource |-> IF r \in back THEN Capped(@[r], amount) ELSE @[r]],
          ![a].out = [r \in Resource |-> IF r \notin back THEN @[r] ELSE IF amount > @[r] THEN 0 ELSE @[r] - amount]]

ServiceNext ==
  /\ \/ ra_create_allocator
     \/ \E a \in DOMAIN allocators :
          \/ ra_delete_allocator(a)
          \/ \E type \in ServiceType, amount \in Amounts :
               ra_allocate_resource(a, type, amount) \/ ra_release_resource(a, type, amount)
  /\ UNCHANGED <<vmVars, allocatorVars>>

VmSpec == Init /\ [][VmNext]_vars
ServiceSpec == Init /\ [][ServiceNext]_vars
AllocatorSpec == Init /\ [][AllocatorNext]_vars

-----------------------------------------------------------------------------

\* total_memory_allocated_mb is the memory of the machines and what was lost when
\* a machine was allocated again: resizing and deallocating keep it exact, and a
\* processor table that fills up half way through an allocation changes nothing.
TotalExact ==
  total_memory_allocated_mb = MapThenSumSet(LAMBDA v : vm_memory[v], Vm) + overwritten

\* Each pool's allocated, available and reserved capacity make up the pool, though
\* memory returns to other pools than it came from and sizes change in between.
PoolConserved ==
  \A p \in Pool : pools[p].allocated + pools[p].available + reserved[p] = PoolCapacity

\* A machine with memory has a processor, however allocations and deallocations of
\* other machines, which leave entries that read as machine 0's, are mixed.
RunningHasVcpu ==
  \A v \in Vm : vm_memory[v] # 0 => \E i \in DOMAIN vcpus : vcpus[i] = v

InPool(id) == {a \in DOMAIN allocations : allocations[a].pool = id}

\* What a pool of the allocator has available and allocated makes up its capacity,
\* and what it has allocated is what its allocations hold, while requests are
\* cancelled and other pools destroyed under their allocations (resource_deallocate).
AllocationsConserved ==
  \A p \in DOMAIN kinds :
    /\ kinds[p].available + kinds[p].allocated = kinds[p].total_capacity
    /\ kinds[p].allocated = MapThenSumSet(LAMBDA a : allocations[a].amount, InPool(kinds[p].id))

\* base_address is where the room of a pool begins: allocations of a pool do not
\* overlap and lie within it, as long as they are released last first.
BasesDisjoint ==
  \A p \in DOMAIN kinds : kinds[p].id \notin holed =>
    \A a, b \in InPool(kinds[p].id) :
      /\ a < b => allocations[a].base_address + allocations[a].amount <= allocations[b].base_address
      /\ allocations[b].base_address + allocations[b].amount <= kinds[p].total_capacity

\* A request is given its amount once, unless resource_allocate is called for it
\* again: processing what is pending leaves served requests alone, released or not.
ServedOnce ==
  \A a, b \in DOMAIN allocations :
    a # b /\ allocations[a].request = allocations[b].request => allocations[a].request \in again

\* What an allocator has of a resource is its total less what is out, also after
\* releases of more than was out, which are cut off at the total, and whichever of
\* the two names of the network was used (ra_release_resource).
RoomFollowsReleases ==
  \A a \in DOMAIN allocators, r \in Resource : allocators[a].available[r] + allocators[a].out[r] = Total

=============================================================================
