------------------------------ MODULE DistCache ------------------------------
(***************************************************************************)
(* One distributed cache, services/dist_cache.c.  A key lives in the       *)
(* partition its hash selects on the node its hash selects among the nodes *)
(* there are now: when a node joins or leaves, keys move to other places   *)
(* and their entries stay behind.                                          *)
(***************************************************************************)
EXTENDS Integers, Sequences, SequencesExt, FiniteSets

CONSTANTS
  Key, Value,
  Hash,        \* dcache_hash_key
  Size,        \* value_size of each value
  Parts,       \* MAX_CACHE_PARTITIONS
  MaxNodes,    \* MAX_CACHE_NODES
  MaxEntries,  \* MAX_CACHE_ENTRIES, of a partition
  TTL,         \* ttl_seconds callers use; 0 is for ever
  MaxTime,     \* bound: the clock
  None

VARIABLES
  nodes,   \* per node, per partition: entries in order, and bytes_used
  now,     \* time(NULL)
  latest   \* history: the value last put for a key since its place last moved

vars == <<nodes, now, latest>>

Entry == [key : Key, value : Value, creation_time : 0..MaxTime, ttl : TTL,
          is_expired : BOOLEAN]
Part == 0..(Parts - 1)

TypeOK ==
  /\ nodes \in Seq([Part -> [entries : Seq(Entry), bytes_used : Nat]])
  /\ Len(nodes) <= MaxNodes
  /\ \A n \in 1..Len(nodes), p \in Part : Len(nodes[n][p].entries) <= MaxEntries
  /\ now \in 0..MaxTime /\ latest \in [Key -> Value \cup {None}]

Init ==
  /\ nodes = << >> /\ now = 0 /\ latest = [k \in Key |-> None]

Tick == now < MaxTime /\ now' = now + 1 /\ UNCHANGED <<nodes, latest>>

Forgotten == [k \in Key |-> None]

-----------------------------------------------------------------------------

NodeOf(k) == (Hash[k] % Len(nodes)) + 1

PartitionFor(k) == Hash[k] % Parts

Place(k) == nodes[NodeOf(k)][PartitionFor(k)]

\* The index of the key in its partition, 0 when it is not there.
Find(k) ==
  LET es == Place(k).entries
      is == {i \in 1..Len(es) : es[i].key = k}
  IN  IF is = {} THEN 0 ELSE CHOOSE i \in is : \A j \in is : i <= j

Late(e) == e.ttl > 0 /\ now - e.creation_time > e.ttl

\* What dcache_get would return.
Readable(k) ==
  IF nodes = << >> \/ Find(k) = 0 THEN None
  ELSE LET e == Place(k).entries[Find(k)]
       IN  IF e.is_expired \/ Late(e) THEN None ELSE e.value

Store(k, part) == nodes' = [nodes EXCEPT ![NodeOf(k)][PartitionFor(k)] = part]

AddNodePastTheEnd ==                 \* mistaken dcache_add_node: > for >=
  /\ Len(nodes) <= MaxNodes
  /\ nodes' = Append(nodes, [p \in Part |-> [entries |-> << >>, bytes_used |-> 0]])
  /\ latest' = Forgotten
  /\ UNCHANGED now

dcache_add_node ==
  /\ Len(nodes) < MaxNodes
  /\ nodes' = Append(nodes, [p \in Part |-> [entries |-> << >>, bytes_used |-> 0]])
  /\ latest' = Forgotten
  /\ UNCHANGED now

dcache_remove_node(n) ==
  /\ nodes' = RemoveAt(nodes, n)
  /\ latest' = Forgotten
  /\ UNCHANGED now

Update(k, v, ttl) ==
  /\ Find(k) # 0
  /\ Store(k, [Place(k) EXCEPT
       !.bytes_used = @ - Size[Place(k).entries[Find(k)].value] + Size[v],
       !.entries[Find(k)] = [@ EXCEPT !.value = v, !.ttl = ttl, !.is_expired = FALSE]])

Insert(k, v, ttl) ==
  /\ Find(k) = 0 /\ Len(Place(k).entries) < MaxEntries
  /\ Store(k, [entries |-> Append(Place(k).entries,
                 [key |-> k, value |-> v, creation_time |-> now, ttl |-> ttl,
                  is_expired |-> FALSE]),
               bytes_used |-> Place(k).bytes_used + Size[v]])

dcache_put(k, v, ttl) ==
  /\ nodes # << >>
  /\ Update(k, v, ttl) \/ Insert(k, v, ttl)
  /\ latest' = [latest EXCEPT ![k] = v]
  /\ UNCHANGED now

\* A get of an entry past its time marks it; other gets change statistics only.
dcache_get(k) ==
  /\ nodes # << >> /\ Find(k) # 0 /\ Late(Place(k).entries[Find(k)])
  /\ Store(k, [Place(k) EXCEPT !.entries[Find(k)].is_expired = TRUE])
  /\ UNCHANGED <<now, latest>>

dcache_delete(k) ==
  /\ nodes # << >> /\ Find(k) # 0
  /\ Store(k, [entries |-> RemoveAt(Place(k).entries, Find(k)),
               bytes_used |-> Place(k).bytes_used - Size[Place(k).entries[Find(k)].value]])
  /\ latest' = [latest EXCEPT ![k] = None]
  /\ UNCHANGED now

dcache_update_ttl(k, ttl) ==
  /\ nodes # << >> /\ Find(k) # 0
  /\ Store(k, [Place(k) EXCEPT !.entries[Find(k)].ttl = ttl])
  /\ UNCHANGED <<now, latest>>

EachPartition(Do(_)) ==
  nodes' = [n \in 1..Len(nodes) |-> [p \in Part |-> Do(nodes[n][p])]]

dcache_expire_old_entries ==
  /\ EachPartition(LAMBDA part : [part EXCEPT !.entries =
       [i \in 1..Len(@) |-> [@[i] EXCEPT !.is_expired = @ \/ Late(part.entries[i])]]])
  /\ UNCHANGED <<now, latest>>

SizeOf(es) == FoldSeq(LAMBDA e, sum : sum + Size[e.value], 0, es)

Kept(e) == ~e.is_expired /\ ~Late(e)

dcache_cleanup_expired ==
  /\ EachPartition(LAMBDA part :
       LET gone == SelectSeq(part.entries, LAMBDA e : ~Kept(e))
       IN  [entries |-> SelectSeq(part.entries, Kept),
            bytes_used |-> part.bytes_used - SizeOf(gone)])
  /\ UNCHANGED <<now, latest>>

dcache_flush_all ==
  /\ EachPartition(LAMBDA part : [entries |-> << >>, bytes_used |-> 0])
  /\ latest' = Forgotten
  /\ UNCHANGED now

Cleanup == dcache_expire_old_entries \/ dcache_cleanup_expired

Next ==
  \/ Tick \/ dcache_add_node \/ dcache_flush_all
  \/ dcache_expire_old_entries \/ dcache_cleanup_expired
  \/ \E n \in 1..Len(nodes) : dcache_remove_node(n)
  \/ \E k \in Key : dcache_get(k) \/ dcache_delete(k)
  \/ \E k \in Key, ttl \in TTL : dcache_update_ttl(k, ttl)
  \/ \E k \in Key, v \in Value, ttl \in TTL : dcache_put(k, v, ttl)

Spec == Init /\ [][Next]_vars

-----------------------------------------------------------------------------

\* bytes_used of every partition is the sum of the sizes of its entries, through
\* updates to other sizes, deletions and cleanups.
PartitionAccounting ==
  \A n \in 1..Len(nodes), p \in Part :
    nodes[n][p].bytes_used = SizeOf(nodes[n][p].entries)

\* A read finds the value put last or nothing; only a change of the nodes may
\* bring back an older value.
ReadsLatest ==
  \A k \in Key : latest[k] # None => Readable(k) \in {None, latest[k]}

\* Expiry and cleanup take away only what a read would not have returned.
CleanupInvisible ==
  [][Cleanup => \A k \in Key : Readable(k)' = Readable(k)]_vars
=============================================================================
