----------------------------- MODULE IoScheduler -----------------------------
(***************************************************************************)
(* io-filesystem/io_scheduler.c: the request queue every request goes to    *)
(* (queue 0).  Requests are written at rear_index, which goes round, and    *)
(* looked for in the first request_count entries, which completing does not *)
(* change and cancelling shortens whatever entry was cancelled; a cleared   *)
(* entry reads as a pending request with id 0.  Callers keep pointers to    *)
(* entries, which sorting fills with other requests.                        *)
(***************************************************************************)
EXTENDS Integers, Sequences, SequencesExt

CONSTANTS
  QueueSize,       \* 1024, the entries of a queue
  MaxId,           \* bound on next_request_id
  Sectors          \* disk sectors

VARIABLES
  requests,        \* entry 1 is requests[0]
  request_count, rear_index, next_request_id,
  pointers,        \* entries callers have been given the address of
  freed,           \* history: buffers that were freed; a buffer has its request's id
  handed,          \* history: requests io_get_next_request returned
  inOrder          \* history: nothing was cancelled or sorted

vars == <<requests, request_count, rear_index, next_request_id, pointers, freed, handed, inOrder>>

Status == {"PENDING", "SCHEDULED", "COMPLETED"}    \* EXECUTING lasts only within a call
Entry == 1..QueueSize
IORequest == [request_id : 0..MaxId, disk_sector : Sectors \cup {0}, data_buffer : 0..MaxId, status : Status]
Cleared == [request_id |-> 0, disk_sector |-> 0, data_buffer |-> 0, status |-> "PENDING"]

TypeOK ==
  /\ requests \in [Entry -> IORequest]
  /\ request_count \in 0..QueueSize /\ rear_index \in 0..(QueueSize - 1)
  /\ next_request_id \in 1..(MaxId + 1)
  /\ pointers \subseteq Entry /\ freed \subseteq 1..MaxId /\ handed \subseteq 0..MaxId /\ inOrder \in BOOLEAN

Init ==
  /\ requests = [k \in Entry |-> Cleared]
  /\ request_count = 0 /\ rear_index = 0 /\ next_request_id = 1
  /\ pointers = {} /\ freed = {} /\ handed = {} /\ inOrder = TRUE

\* allocated: malloc found memory; when not, the entry keeps an id and no buffer
io_submit_request(sector, allocated) ==
  /\ request_count < QueueSize /\ next_request_id <= MaxId
  /\ requests' = [requests EXCEPT ![rear_index + 1] =
       [request_id |-> next_request_id, disk_sector |-> sector,
        data_buffer |-> IF allocated THEN next_request_id ELSE 0, status |-> "PENDING"]]
  /\ next_request_id' = next_request_id + 1
  /\ IF allocated
     THEN /\ rear_index' = (rear_index + 1) % QueueSize /\ request_count' = request_count + 1
          /\ pointers' = pointers \cup {rear_index + 1}
     ELSE UNCHANGED <<rear_index, request_count, pointers>>
  /\ UNCHANGED <<freed, handed, inOrder>>

First(S) == {k \in S : \A l \in S : k <= l}
Found(id) == {k \in 1..request_count : requests[k].request_id = id}
Freed(k) == freed \cup ({requests[k].data_buffer} \ {0})

CancelUncleared(id) ==          \* mistaken io_cancel_request: the entry keeps the freed buffer
  \E k \in First({l \in Found(id) : requests[l].status \in {"PENDING", "SCHEDULED"}}) :
    /\ freed' = Freed(k) /\ requests' = [requests EXCEPT ![k].status = "COMPLETED"]
    /\ request_count' = request_count - 1 /\ inOrder' = FALSE
    /\ UNCHANGED <<rear_index, next_request_id, pointers, handed>>

io_cancel_request(id) ==
  \E k \in First({l \in Found(id) : requests[l].status \in {"PENDING", "SCHEDULED"}}) :
    /\ freed' = Freed(k) /\ requests' = [requests EXCEPT ![k] = Cleared]
    /\ request_count' = request_count - 1 /\ inOrder' = FALSE
    /\ UNCHANGED <<rear_index, next_request_id, pointers, handed>>

io_complete_request(id) ==
  \E k \in First(Found(id)) :
    /\ freed' = Freed(k) /\ requests' = [requests EXCEPT ![k] = Cleared]
    /\ UNCHANGED <<request_count, rear_index, next_request_id, pointers, handed, inOrder>>

Numbered(n) == [k \in 1..n |-> k]

Swapped(q, j) ==
  IF q[j].disk_sector > q[j + 1].disk_sector THEN [q EXCEPT ![j] = q[j + 1], ![j + 1] = q[j]] ELSE q

\* io_elevator_sort of a queue that is not empty: request_count - 1 wraps for an
\* empty one and the loops leave the array.  io_deadline_sort orders by priority,
\* which is 0 in every request, and changes nothing.
io_elevator_sort ==
  /\ request_count > 0
  /\ requests' = FoldLeft(LAMBDA q, i : FoldLeft(Swapped, q, Numbered(request_count - i)),
                          requests, Numbered(request_count - 1))
  /\ inOrder' = FALSE
  /\ UNCHANGED <<request_count, rear_index, next_request_id, pointers, freed, handed>>

io_execute_request(k) ==
  /\ k \in pointers
  /\ requests' = [requests EXCEPT ![k].status = "COMPLETED"]
  /\ UNCHANGED <<request_count, rear_index, next_request_id, pointers, freed, handed, inOrder>>

Pending == {k \in 1..request_count : requests[k].status = "PENDING"}

NextLast ==                     \* mistaken io_get_next_request: the last pending request
  \E k \in Pending :
    /\ \A l \in Pending : l <= k
    /\ requests' = [requests EXCEPT ![k].status = "SCHEDULED"]
    /\ handed' = handed \cup {requests[k].request_id} /\ pointers' = pointers \cup {k}
    /\ UNCHANGED <<request_count, rear_index, next_request_id, freed, inOrder>>

io_get_next_request ==
  \E k \in First(Pending) :
    /\ requests' = [requests EXCEPT ![k].status = "SCHEDULED"]
    /\ handed' = handed \cup {requests[k].request_id} /\ pointers' = pointers \cup {k}
    /\ UNCHANGED <<request_count, rear_index, next_request_id, freed, inOrder>>

Next ==
  \/ \E sector \in Sectors, allocated \in BOOLEAN : io_submit_request(sector, allocated)
  \/ \E id \in 0..MaxId : io_cancel_request(id) \/ io_complete_request(id)
  \/ io_elevator_sort
  \/ \E k \in Entry : io_execute_request(k)
  \/ io_get_next_request

Spec == Init /\ [][Next]_vars

-----------------------------------------------------------------------------

\* No buffer is freed twice: none stands in two entries, and none that an entry
\* holds was freed, whatever sorting moved and cancelling cleared.
BufferOwnedOnce ==
  \A k \in Entry :
    requests[k].data_buffer # 0 =>
      /\ requests[k].data_buffer \notin freed
      /\ \A l \in Entry \ {k} : requests[l].data_buffer # requests[k].data_buffer

\* io_get_next_request hands a request out once: one that waits was not handed out
\* before, though entries are executed through old pointers and sorted in between.
HandedOnce ==
  \A k \in Entry : (requests[k].request_id # 0 /\ requests[k].status = "PENDING") => requests[k].request_id \notin handed

\* Without sorting and cancelling, requests are handed out in the order in which
\* they were submitted, cleared entries (id 0) aside.
FirstInFirstOut ==
  [][inOrder => \A id \in handed' \ (handed \cup {0}) : \A older \in handed : older < id]_vars

\* io_elevator_sort leaves the entries it looks at in the order of their sectors,
\* keeps requests for one sector in their order, and touches no other entry.
SortIsStable ==
  [][io_elevator_sort =>
       /\ \A k \in Entry : k > request_count => requests'[k] = requests[k]
       /\ \A k, l \in 1..request_count : k < l => requests'[k].disk_sector <= requests'[l].disk_sector
       /\ \A k, l \in 1..request_count :
            (k < l /\ requests[k].request_id # 0 /\ requests[k].disk_sector = requests[l].disk_sector) =>
              \E m, n \in 1..request_count : m < n /\ requests'[m] = requests[k] /\ requests'[n] = requests[l]]_vars
=============================================================================
