--------------------------- MODULE GarbageCollector ---------------------------
(***************************************************************************)
(* memory-management/garbage_collector.c: the object table, its references, *)
(* the two phases of a collection and the collections of single objects.    *)
(* The slot of a collected object is cleared and never used again, it       *)
(* answers to the identifier 0.                                             *)
(***************************************************************************)
EXTENDS Naturals, Sequences, SequencesExt, FiniteSetsExt

CONSTANTS
  Size, Target,   \* object sizes, and what references name
  MaxObjects,     \* MAX_GC_OBJECTS
  MaxReferences   \* MAX_OBJECT_REFERENCES

VARIABLES
  objects,          \* identifier, size (0: no object_ptr), status, references
  total_collected,
  handed_out,       \* history: bytes allocated
  handed_back,      \* history: bytes deallocated by the program
  bare              \* history: objects without references at the last mark
                    \*          phase or unmarked by hand after it

vars == <<objects, total_collected, handed_out, handed_back, bare>>

Ids == 0..MaxObjects
GCStatus == {"ALLOCATED", "MARKED", "UNMARKED"}
GCObject == [object_id : Ids, object_size : Size \union {0}, status : GCStatus, referenced : Seq(Target \union {0})]

TypeOK ==
  /\ objects \in Seq(GCObject) /\ Len(objects) <= MaxObjects
  /\ \A i \in 1..Len(objects) : Len(objects[i].referenced) <= MaxReferences
  /\ total_collected \in Nat /\ handed_out \in Nat /\ handed_back \in Nat
  /\ bare \subseteq Ids

gc_init == objects = << >> /\ total_collected = 0

Init == gc_init /\ handed_out = 0 /\ handed_back = 0 /\ bare = {}

Cleared == [object_id |-> 0, object_size |-> 0, status |-> "ALLOCATED", referenced |-> << >>]
Live(o) == o.object_size > 0

\* The first object with the identifier.
IsFound(id, i) == objects[i].object_id = id /\ \A j \in 1..(i - 1) : objects[j].object_id # id

\* next_object_id starts at 1 and every allocation takes a new slot.
gc_allocate_object(size) ==
  /\ Len(objects) < MaxObjects
  /\ objects' = Append(objects, [Cleared EXCEPT !.object_id = Len(objects) + 1, !.object_size = size])
  /\ handed_out' = handed_out + size
  /\ UNCHANGED <<total_collected, handed_back, bare>>

gc_deallocate_object(id) ==
  \E i \in 1..Len(objects) :
    /\ IsFound(id, i)
    /\ objects' = [objects EXCEPT ![i] = Cleared]
    /\ handed_back' = handed_back + objects[i].object_size
    /\ UNCHANGED <<total_collected, handed_out, bare>>

gc_add_reference(from, to) ==
  \E i \in 1..Len(objects) :
    /\ IsFound(from, i) /\ Len(objects[i].referenced) < MaxReferences
    /\ objects' = [objects EXCEPT ![i].referenced = Append(@, to)]
    /\ UNCHANGED <<total_collected, handed_out, handed_back, bare>>

\* The slot is cleared and the count lowered: what is forgotten is the last
\* reference, unless the removed one was the last.
gc_remove_reference(from, to) ==
  LET Holds(i, j) == objects[i].object_id = from /\ objects[i].referenced[j] = to
      Places(i) == 1..Len(objects[i].referenced)
  IN
  \E i \in 1..Len(objects) : \E j \in Places(i) :
    /\ Holds(i, j) /\ \A k \in 1..(j - 1) : ~ Holds(i, k)
    /\ \A h \in 1..(i - 1) : \A k \in Places(h) : ~ Holds(h, k)
    /\ objects' = [objects EXCEPT ![i].referenced = Front([@ EXCEPT ![j] = 0])]
    /\ UNCHANGED <<total_collected, handed_out, handed_back, bare>>

\* What counts is the references an object holds, not the ones to it.
Marked(o) == [o EXCEPT !.status = IF Live(o) /\ o.referenced # << >> THEN "MARKED" ELSE "UNMARKED"]

BareNow == {objects[i].object_id : i \in {k \in 1..Len(objects) : objects[k].referenced = << >>}}

gc_mark_phase ==
  /\ objects' = [i \in 1..Len(objects) |-> Marked(objects[i])]
  /\ bare' = BareNow
  /\ UNCHANGED <<total_collected, handed_out, handed_back>>

Swept(o) == o.status = "UNMARKED" /\ Live(o)

\* The table and the counter after a sweep of the table os.
SweptTable(os) == [i \in 1..Len(os) |-> IF Swept(os[i]) THEN Cleared ELSE os[i]]
SweptBytes(os) == MapThenSumSet(LAMBDA i : os[i].object_size, {i \in 1..Len(os) : Swept(os[i])})

gc_sweep_phase ==
  /\ objects' = SweptTable(objects)
  /\ total_collected' = total_collected + SweptBytes(objects)
  /\ UNCHANGED <<handed_out, handed_back, bare>>

gc_run_full_collection ==
  LET marked == [i \in 1..Len(objects) |-> Marked(objects[i])] IN
  /\ objects' = SweptTable(marked)
  /\ total_collected' = total_collected + SweptBytes(marked)
  /\ bare' = BareNow
  /\ UNCHANGED <<handed_out, handed_back>>

gc_collect_object(id) ==
  \E i \in 1..Len(objects) :
    /\ IsFound(id, i)
    /\ total_collected' = total_collected + objects[i].object_size
    /\ objects' = [objects EXCEPT ![i] = Cleared]
    /\ UNCHANGED <<handed_out, handed_back, bare>>

\* The batch is a tenth of the table and at least one object, always taken from
\* the start. gc_collect_object finds the object itself: live ones differ in id.
gc_run_incremental_collection ==
  LET batch == {i \in 1..Len(objects) : (i = 1 \/ i <= Len(objects) \div 10) /\ Live(objects[i]) /\ objects[i].referenced = << >>} IN
  /\ objects' = [i \in 1..Len(objects) |-> IF i \in batch THEN Cleared ELSE objects[i]]
  /\ total_collected' = total_collected + MapThenSumSet(LAMBDA i : objects[i].object_size, batch)
  /\ UNCHANGED <<handed_out, handed_back, bare>>

SetStatus(id, s) ==
  \E i \in 1..Len(objects) :
    IsFound(id, i) /\ objects' = [objects EXCEPT ![i].status = s]

gc_mark_object(id) ==
  /\ SetStatus(id, "MARKED") /\ bare' = bare \ {id}
  /\ UNCHANGED <<total_collected, handed_out, handed_back>>

gc_unmark_object(id) ==
  /\ SetStatus(id, "UNMARKED") /\ bare' = bare \union {id}
  /\ UNCHANGED <<total_collected, handed_out, handed_back>>

Next ==
  \/ \E s \in Size : gc_allocate_object(s)
  \/ \E id \in Ids :
       \/ gc_deallocate_object(id) \/ gc_collect_object(id)
       \/ gc_mark_object(id) \/ gc_unmark_object(id)
       \/ \E to \in Target : gc_add_reference(id, to) \/ gc_remove_reference(id, to)
  \/ gc_mark_phase \/ gc_sweep_phase
  \/ gc_run_full_collection \/ gc_run_incremental_collection

Spec == Init /\ [][Next]_vars

-----------------------------------------------------------------------------

gc_get_heap_usage == MapThenSumSet(LAMBDA i : objects[i].object_size, 1..Len(objects))

\* Every byte allocated is in use, counted as collected, or was given back by
\* the program: no path frees an object twice or without counting it.
HeapConserved == handed_out = gc_get_heap_usage + total_collected + handed_back

\* A sweep, alone or in a full collection, frees only objects that held no
\* reference at the last mark phase or were unmarked by hand: an object
\* allocated between the phases survives the sweep.
SweepSparesNew ==
  [][gc_sweep_phase \/ gc_run_full_collection =>
      \A i \in 1..Len(objects) : Live(objects[i]) /\ objects'[i] = Cleared => objects[i].object_id \in bare']_vars
=============================================================================
