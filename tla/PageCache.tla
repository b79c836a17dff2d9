------------------------------ MODULE PageCache ------------------------------
(***************************************************************************)
(* The page cache, io-filesystem/page_cache_manager.c.  A page holds data  *)
(* from the moment it is written until it is evicted or its zone flushed,  *)
(* and is dirty all that time: writeback marks it but never cleans it.     *)
(* Every time stamp is 0, so the least recently used page is the first one *)
(* in scanning order that is not pinned.  used_size counts pages here.     *)
(***************************************************************************)
EXTENDS Naturals, FiniteSets

CONSTANTS
  Zones,      \* zone_count
  PerZone,    \* pages of a zone
  Offset,     \* disk offsets
  MaxId,      \* bound: pages written
  MaxAccess   \* bound: access_count

VARIABLES
  page,             \* per zone and slot: the page, or Free
  used_size,        \* per zone
  dirty_page_count,
  next_cache_page_id

vars == <<page, used_size, dirty_page_count, next_cache_page_id>>

Zone == 0..(Zones - 1)
Slot == Zone \X (0..(PerZone - 1))
Free == [id |-> 0]
CachePage == [id : 1..MaxId, offset : Offset, state : {"DIRTY", "WRITEBACK"},
              access_count : 0..MaxAccess, is_pinned : BOOLEAN]

TypeOK ==
  /\ page \in [Slot -> CachePage \cup {Free}]
  /\ used_size \in [Zone -> 0..PerZone]
  /\ dirty_page_count \in Nat /\ next_cache_page_id \in 1..(MaxId + 1)

Init ==
  /\ page = [s \in Slot |-> Free] /\ used_size = [z \in Zone |-> 0]
  /\ dirty_page_count = 0 /\ next_cache_page_id = 1

-----------------------------------------------------------------------------

Occupied == {s \in Slot : page[s] # Free}

Before(s, t) == s[1] < t[1] \/ (s[1] = t[1] /\ s[2] < t[2])

\* Zone by zone, slot by slot, the way every loop goes.
FirstOf(S) == CHOOSE s \in S : \A t \in S : t = s \/ Before(s, t)

cache_read_page(o) ==
  LET S == {s \in Occupied : page[s].offset = o}
  IN  /\ S # {} /\ page[FirstOf(S)].access_count < MaxAccess
      /\ page' = [page EXCEPT ![FirstOf(S)].access_count = @ + 1]
      /\ UNCHANGED <<used_size, dirty_page_count, next_cache_page_id>>

HasRoom(z) == used_size[z] < PerZone

\* The least used zone with room, the first of several.
BestZone ==
  CHOOSE z \in Zone :
    /\ HasRoom(z)
    /\ \A y \in Zone : HasRoom(y) =>
         used_size[z] < used_size[y] \/ (used_size[z] = used_size[y] /\ z <= y)

FreeSlotPastTheEnd(z) ==             \* mistaken FreeSlot: one past the last slot found
  LET S == {s \in Slot : s[1] = z /\ page[s] = Free}
  IN  IF S = {} THEN <<z, 0>> ELSE <<z, FirstOf(S)[2] + 1>>

\* The first free slot; slot 0 if there were none.
FreeSlot(z) ==
  LET S == {s \in Slot : s[1] = z /\ page[s] = Free}
  IN  IF S = {} THEN <<z, 0>> ELSE FirstOf(S)

cache_write_page(o) ==
  /\ next_cache_page_id <= MaxId
  /\ \E z \in Zone : HasRoom(z)
  /\ page' = [page EXCEPT ![FreeSlot(BestZone)] =
                [id |-> next_cache_page_id, offset |-> o, state |-> "DIRTY",
                 access_count |-> 0, is_pinned |-> FALSE]]
  /\ used_size' = [used_size EXCEPT ![BestZone] = @ + 1]
  /\ dirty_page_count' = dirty_page_count + 1
  /\ next_cache_page_id' = next_cache_page_id + 1

Evict(s) ==
  /\ ~page[s].is_pinned
  /\ page' = [page EXCEPT ![s] = Free]
  /\ used_size' = [used_size EXCEPT ![s[1]] = @ - 1]
  /\ dirty_page_count' = dirty_page_count - 1
  /\ UNCHANGED next_cache_page_id

cache_evict_page(id) ==
  LET S == {s \in Occupied : page[s].id = id}
  IN  S # {} /\ Evict(FirstOf(S))

Unpinned == {s \in Occupied : ~page[s].is_pinned}

cache_evict_lru_page == Unpinned # {} /\ Evict(FirstOf(Unpinned))

cache_evict_lfu_page ==
  LET S == {s \in Unpinned : \A t \in Unpinned : page[s].access_count <= page[t].access_count}
  IN  S # {} /\ Evict(FirstOf(S))

cache_writeback_dirty_pages ==
  /\ page' = [s \in Slot |-> IF s \in Occupied THEN [page[s] EXCEPT !.state = "WRITEBACK"]
                                               ELSE page[s]]
  /\ UNCHANGED <<used_size, dirty_page_count, next_cache_page_id>>

\* Pinned pages go too, and dirty_page_count is left alone.
cache_flush_zone(z) ==
  /\ page' = [s \in Slot |-> IF s[1] = z THEN Free ELSE page[s]]
  /\ used_size' = [used_size EXCEPT ![z] = 0]
  /\ UNCHANGED <<dirty_page_count, next_cache_page_id>>

Pin(id, pinned) ==
  LET S == {s \in Occupied : page[s].id = id}
  IN  /\ S # {}
      /\ page' = [page EXCEPT ![FirstOf(S)].is_pinned = pinned]
      /\ UNCHANGED <<used_size, dirty_page_count, next_cache_page_id>>

cache_lock_page(id) == Pin(id, TRUE)

cache_unlock_page(id) == Pin(id, FALSE)

Next ==
  \/ \E o \in Offset : cache_read_page(o) \/ cache_write_page(o)
  \/ \E id \in 1..MaxId : cache_evict_page(id) \/ cache_lock_page(id) \/ cache_unlock_page(id)
  \/ cache_evict_lru_page \/ cache_evict_lfu_page \/ cache_writeback_dirty_pages
  \/ \E z \in Zone : cache_flush_zone(z)

Spec == Init /\ [][Next]_vars

-----------------------------------------------------------------------------

\* used_size, which decides where a page is written, is the number of pages the
\* zone really holds.
UsedIsOccupied ==
  \A z \in Zone : used_size[z] = Cardinality({s \in Occupied : s[1] = z})

\* cache_write_page never replaces a page that holds data, although it falls
\* back to slot 0 when it finds no free slot.
NoPageReplaced ==
  [][\A s \in Occupied : page'[s] # Free => page'[s].id = page[s].id]_vars

\* dirty_page_count, an unsigned number that flushing a zone does not correct,
\* covers every page that evictions will still subtract: it never wraps.
DirtyCountCovers == dirty_page_count >= Cardinality(Occupied)

\* A pinned page stays until it is unpinned or its whole zone is flushed.
PinnedStays ==
  [][\A s \in Occupied : page[s].is_pinned =>
       page'[s] # Free \/ cache_flush_zone(s[1])]_vars
=============================================================================
