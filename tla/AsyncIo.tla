------------------------------- MODULE AsyncIo -------------------------------
(***************************************************************************)
(* Asynchronous input and output of async-io-multiplexing: the reactor of   *)
(* event_reactor.c, the operations of async_io_manager.c and the readiness  *)
(* sets of epoll_equivalent.c.  The reactor and the poll of operations call *)
(* back into the program in the middle of their loops, and the function     *)
(* called may use the same manager: a loop is therefore several steps, with *)
(* the calls of the handler between them.  A handler of the reactor does    *)
(* not call event_process_queue itself; a callback may poll again.          *)
(***************************************************************************)
EXTENDS Naturals, FiniteSets, Sequences, SequencesExt, FiniteSetsExt

CONSTANTS
  Fd,
  MaxSources,   \* MAX_EVENT_SOURCES
  QueueSize,    \* MAX_EVENTS_PER_POLL, the size of the ring too
  MaxId,        \* bound: registrations (event source ids)
  MaxPending,   \* bound: pending_events, more than the ring can hold
  MaxOps,       \* MAX_ASYNC_OPERATIONS
  Work,         \* what operations are submitted for
  MaxNesting,   \* bound: polls within callbacks of polls
  MaxFds        \* MAX_EPOLL_FDS

VARIABLES
  \* event_reactor.c
  sources,      \* event_sources up to event_source_count
  next_id,      \* next_event_source_id
  ring,         \* event_queue: the source id of each event
  front,        \* event_queue_front
  rear,         \* event_queue_rear
  pending,      \* pending_events
  loop,         \* the loop of event_process_queue: processed, and the entry whose
                \* handler runs (0: none)
  owed,         \* history: source ids of the events queued and not yet taken
  overrun,      \* history: an event was put on one that had not been taken
  own_touched,  \* history: a handler unregistered its file or registered it again
  earlier_left, \* history: a handler took out an entry before its own
  extra,        \* history: event_trigger_custom or event_handle_timeout was used
  \* async_io_manager.c
  ops,          \* operations up to operation_count
  queued, in_progress, completed, \* queued_ops, in_progress_ops, completed_ops
  polls,        \* the polls under way: index, completions, limit, innermost last
  called,       \* history: operations in the order their callbacks were started
  \* epoll_equivalent.c
  fds,          \* fds of the instance up to fd_count
  ready,        \* the files the last epoll_wait returned
  wants,        \* history: the interest last given for each file
  twice         \* history: files added while they were there

reactorVars == <<sources, next_id, ring, front, rear, pending, loop, owed, overrun,
                 own_touched, earlier_left, extra>>
opsVars == <<ops, queued, in_progress, completed, polls, called>>
epollVars == <<fds, ready, wants, twice>>
vars == <<reactorVars, opsVars, epollVars>>

-----------------------------------------------------------------------------
(* The types *)

EventSource == [id : 1..MaxId, fd : Fd, state : {"INACTIVE", "REGISTERED", "READY"},
                oneshot : BOOLEAN]

AsyncOperation == [work : Work, state : {"QUEUED", "COMPLETED", "CANCELLED"}]

EpollFdInfo == [fd : Fd, in : BOOLEAN]  \* whether EPOLLIN is among the events

TypeOK ==
  /\ sources \in Seq(EventSource) /\ Len(sources) <= MaxSources
  /\ next_id \in 1..MaxId + 1
  /\ ring \in [0..QueueSize - 1 -> 0..MaxId]
  /\ {front, rear} \subseteq 0..QueueSize - 1 /\ pending \in 0..MaxPending
  /\ loop \in [on : BOOLEAN, processed : 0..QueueSize, at : 0..MaxSources]
  /\ owed \in Seq(1..MaxId)
  /\ {overrun, own_touched, earlier_left, extra} \subseteq BOOLEAN
  /\ ops \in Seq(AsyncOperation) /\ Len(ops) <= MaxOps
  /\ queued \in 0..MaxOps /\ in_progress \in 0..MaxOps /\ completed \in 0..MaxOps
  /\ polls \in Seq([i : 0..MaxOps, done : 0..MaxOps, max : 1..MaxOps, inside : BOOLEAN])
  /\ called \in Seq(1..MaxOps)
  /\ fds \in Seq(EpollFdInfo) /\ Len(fds) <= MaxFds
  /\ ready \in Seq(Fd) /\ wants \in [Fd -> {"no", "in", "other"}] /\ twice \subseteq Fd

NoLoop == [on |-> FALSE, processed |-> 0, at |-> 0]

Init ==
  /\ sources = << >> /\ next_id = 1
  /\ ring = [k \in 0..QueueSize - 1 |-> 0] /\ front = 0 /\ rear = 0 /\ pending = 0
  /\ loop = NoLoop /\ owed = << >> /\ overrun = FALSE
  /\ own_touched = FALSE /\ earlier_left = FALSE /\ extra = FALSE
  /\ ops = << >> /\ queued = 0 /\ in_progress = 0 /\ completed = 0
  /\ polls = << >> /\ called = << >>
  /\ fds = << >> /\ ready = << >>
  /\ wants = [fd \in Fd |-> "no"] /\ twice = {}

-----------------------------------------------------------------------------
(* The event reactor *)

\* The program may call: it is not inside the loop, or inside a handler.
InProgram == loop.on => loop.at # 0

SourceOf(fd) == SelectInSeq(sources, LAMBDA s : s.fd = fd)
SourceWithId(id) == SelectInSeq(sources, LAMBDA s : s.id = id)

\* A source as event_register fills it in, used again or new.
FreshSource(fd) == [id |-> next_id, fd |-> fd, state |-> "REGISTERED", oneshot |-> FALSE]

event_register(fd) ==
  /\ InProgram /\ Len(sources) < MaxSources /\ next_id <= MaxId
  /\ sources' = IF SourceOf(fd) = 0 THEN Append(sources, FreshSource(fd))
                ELSE [sources EXCEPT ![SourceOf(fd)] = FreshSource(fd)]
  /\ next_id' = next_id + 1
  /\ own_touched' = (own_touched \/ (loop.on /\ SourceOf(fd) = loop.at))
  /\ UNCHANGED <<ring, front, rear, pending, loop, owed, overrun, earlier_left, extra>>

\* The entries behind move down, also under the loop that runs the handler.
event_unregister(fd) ==
  /\ InProgram /\ SourceOf(fd) # 0
  /\ sources' = RemoveAt(sources, SourceOf(fd))
  /\ own_touched' = (own_touched \/ SourceOf(fd) = loop.at)
  /\ earlier_left' = (earlier_left \/ SourceOf(fd) < loop.at)
  /\ UNCHANGED <<next_id, ring, front, rear, pending, loop, owed, overrun, extra>>

event_set_oneshot(fd, oneshot) ==
  /\ InProgram /\ SourceOf(fd) # 0
  /\ sources' = [sources EXCEPT ![SourceOf(fd)].oneshot = oneshot]
  /\ UNCHANGED <<next_id, ring, front, rear, pending, loop, owed, overrun, own_touched,
                 earlier_left, extra>>

\* event_modify only ever switches is_oneshot on.
event_modify(fd) == event_set_oneshot(fd, TRUE)

\* Events for the sources ids[1], ids[2], ... are put behind each other.
Enqueue(ids) ==
  /\ pending + Len(ids) <= MaxPending
  /\ ring' = [k \in 0..QueueSize - 1 |->
                LET writes == {n \in 1..Len(ids) : (rear + n - 1) % QueueSize = k}
                IN IF writes = {} THEN ring[k]
                   ELSE ids[CHOOSE n \in writes : \A m \in writes : m <= n]]
  /\ rear' = (rear + Len(ids)) % QueueSize
  /\ pending' = pending + Len(ids)
  /\ overrun' = (overrun \/ pending + Len(ids) > QueueSize)
  /\ owed' = IF overrun' THEN << >> ELSE owed \o ids

\* The registered sources, in the order of the table, as many as one poll takes.
Registered ==
  LET all == SelectSeq([i \in 1..Len(sources) |-> i],
                       LAMBDA i : sources[i].state = "REGISTERED")
  IN SubSeq(all, 1, IF Len(all) < QueueSize THEN Len(all) ELSE QueueSize)

MarkReady(chosen) ==
  [i \in 1..Len(sources) |->
     IF i \in Range(chosen) THEN [sources[i] EXCEPT !.state = "READY"] ELSE sources[i]]

event_dispatch ==
  /\ InProgram
  /\ Enqueue([n \in 1..Len(Registered) |-> sources[Registered[n]].id])
  /\ sources' = MarkReady(Registered)
  /\ UNCHANGED <<next_id, front, loop, own_touched, earlier_left, extra>>

\* Both queue one event for a source, whatever is pending.
event_trigger_custom(id) ==
  /\ InProgram /\ SourceWithId(id) # 0
  /\ Enqueue(<<id>>) /\ extra' = TRUE
  /\ UNCHANGED <<sources, next_id, front, loop, own_touched, earlier_left>>

event_handle_timeout(id) == event_trigger_custom(id)

\* The end of one turn of the loop.
TakeFront ==
  /\ front' = (front + 1) % QueueSize
  /\ pending' = pending - 1
  /\ owed' = IF overrun THEN << >> ELSE Tail(owed)
  /\ loop' = [on |-> TRUE, processed |-> loop.processed + 1, at |-> 0]

\* One turn: the event at the front goes to the handler of its source, or is
\* dropped when no source has the id any more.
event_process_queue ==
  /\ loop.at = 0 /\ pending > 0 /\ loop.processed < QueueSize
  /\ IF SourceWithId(ring[front]) = 0
     THEN TakeFront
     ELSE /\ loop' = [loop EXCEPT !.on = TRUE, !.at = SourceWithId(ring[front])]
          /\ UNCHANGED <<front, pending, owed>>
  /\ UNCHANGED <<sources, next_id, ring, rear, overrun, own_touched, earlier_left, extra>>

StaysReady ==            \* mistaken: the source is left READY
  /\ loop.at # 0 /\ TakeFront
  /\ UNCHANGED <<sources, next_id, ring, rear, overrun, own_touched, earlier_left, extra>>

\* The handler is done: the entry the loop points to, which may be another source
\* by now or lie beyond the table, gets its next state.
handler_returns ==
  /\ loop.at # 0
  /\ sources' = IF loop.at > Len(sources) THEN sources
                ELSE [sources EXCEPT ![loop.at].state =
                        IF sources[loop.at].oneshot THEN "INACTIVE" ELSE "REGISTERED"]
  /\ TakeFront
  /\ UNCHANGED <<next_id, ring, rear, overrun, own_touched, earlier_left, extra>>

\* The loop ends: nothing is pending, or a whole ring was processed.
process_returns ==
  /\ loop.on /\ loop.at = 0 /\ ~(pending > 0 /\ loop.processed < QueueSize)
  /\ loop' = NoLoop
  /\ UNCHANGED <<sources, next_id, ring, front, rear, pending, owed, overrun, own_touched,
                 earlier_left, extra>>

Others == UNCHANGED <<opsVars, epollVars>>
Dispatches == event_dispatch /\ Others
LoopRuns == (event_process_queue \/ handler_returns \/ process_returns) /\ Others

ReactorNext ==
  \/ Dispatches \/ LoopRuns
  \/ \E fd \in Fd :
       /\ \/ event_register(fd) \/ event_unregister(fd) \/ event_modify(fd)
          \/ \E b \in BOOLEAN : event_set_oneshot(fd, b)
       /\ Others
  \/ \E id \in 1..MaxId : (event_trigger_custom(id) \/ event_handle_timeout(id)) /\ Others

\* Whoever runs the reactor goes on calling event_dispatch and event_process_queue
\* in turn, and handlers return.
ReactorFairness ==
  /\ SF_reactorVars(Dispatches)
  /\ WF_reactorVars(LoopRuns)

ReactorSpec == Init /\ [][ReactorNext]_vars /\ ReactorFairness

\* Events are handled in the order they were queued and each once, around the end
\* of the ring, as long as event_dispatch and the triggers, which never look whether
\* the ring is full, have not put one on another.  A READY source, which
\* event_dispatch passes over, has an event to come that makes it REGISTERED again,
\* unless a handler unregistered an entry before its own: then event_process_queue
\* writes the next state into the wrong entry.
EventsInOrder ==
  ~overrun =>
    /\ pending = Len(owed)
    /\ \A k \in 1..Len(owed) : ring[(front + k - 1) % QueueSize] = owed[k]
    /\ ~earlier_left => \A i \in 1..Len(sources) :
                          sources[i].state = "READY" => sources[i].id \in Range(owed)

\* A source has at most one event to come, and is READY until that is handled, also
\* when its handler registers files, dispatches or unregisters others behind it.
\* Triggers may add more; so may a handler that unregisters its own file, because
\* the entry that moves up is made REGISTERED in its place, or that registers it
\* again and dispatches.
OneEventEach ==
  ~(overrun \/ extra \/ own_touched \/ earlier_left) =>
    /\ IsInjective(owed)
    /\ \A i \in 1..Len(sources) :
         sources[i].id \in Range(owed) => sources[i].state = "READY"

Handling(id) == loop.at # 0 /\ ring[front] = id

\* A source that is not INACTIVE and among the first MAX_EVENTS_PER_POLL of the table gets its
\* handler called again or is unregistered: handlers that dispatch, trigger and register
\* cannot keep it waiting.  Later entries may wait for ever, since every dispatch
\* starts from the first entry again; and a source a handler registers again for its
\* own file, one-shot, is made INACTIVE when the handler returns, before any event.
EarlySourcesServed ==
  \A id \in 1..MaxId :
    (\E i \in 1..Len(sources) :
       i <= QueueSize /\ sources[i].id = id /\ sources[i].state # "INACTIVE")
      ~> (Handling(id) \/ SourceWithId(id) = 0 \/ overrun \/ own_touched \/ earlier_left)

-----------------------------------------------------------------------------
(* Asynchronous operations.  Their ids are their places: none is ever removed.  *)
(* One without a callback is one whose callback does nothing.                   *)

\* The program may call: no poll is under way, or the innermost runs a callback.
Calling == polls # << >> => Last(polls).inside

Pending == {i \in 1..Len(ops) : ops[i].state = "QUEUED"}

Count(state) == Cardinality({i \in 1..Len(ops) : ops[i].state = state})

\* The program submits a piece of work again only after it cancelled the operation
\* that had it, as after async_wait_for_completion returned -1.
async_submit_operation(w) ==
  /\ Calling /\ Len(ops) < MaxOps
  /\ \A i \in 1..Len(ops) : ops[i].work = w => ops[i].state = "CANCELLED"
  /\ ops' = Append(ops, [work |-> w, state |-> "QUEUED"])
  /\ queued' = queued + 1
  /\ UNCHANGED <<in_progress, completed, polls, called>>

\* An operation is IN_PROGRESS only inside one step of a poll, where nobody can
\* cancel it.
async_cancel_operation(i) ==
  /\ Calling /\ ops[i].state = "QUEUED"
  /\ ops' = [ops EXCEPT ![i].state = "CANCELLED"]
  /\ queued' = queued - 1
  /\ UNCHANGED <<in_progress, completed, polls, called>>

async_poll_completions(max) ==
  /\ Calling /\ Len(polls) < MaxNesting
  /\ polls' = Append(polls, [i |-> 0, done |-> 0, max |-> max, inside |-> FALSE])
  /\ UNCHANGED <<ops, queued, in_progress, completed, called>>

Poll == Last(polls)

\* The operation the innermost poll comes to next, or 0.
NextQueued ==
  IF Poll.done = Poll.max THEN 0
  ELSE LET later == {i \in Poll.i + 1..Len(ops) : ops[i].state = "QUEUED"}
       IN IF later = {} THEN 0 ELSE Min(later)

\* QUEUED, IN_PROGRESS and COMPLETED follow each other before the callback.
Complete(i) ==
  /\ ops' = [ops EXCEPT ![i].state = "COMPLETED"]
  /\ queued' = queued - 1 /\ in_progress' = (in_progress + 1) - 1
  /\ completed' = completed + 1

poll_completes ==
  /\ ~Calling /\ NextQueued # 0
  /\ Complete(NextQueued)
  /\ polls' = [polls EXCEPT ![Len(polls)].i = NextQueued, ![Len(polls)].inside = TRUE]
  /\ called' = Append(called, NextQueued)

callback_returns ==
  /\ polls # << >> /\ Poll.inside
  /\ polls' = [polls EXCEPT ![Len(polls)].inside = FALSE, ![Len(polls)].done = @ + 1]
  /\ UNCHANGED <<ops, queued, in_progress, completed, called>>

poll_returns ==
  /\ ~Calling /\ NextQueued = 0
  /\ polls' = Front(polls)
  /\ UNCHANGED <<ops, queued, in_progress, completed, called>>

Elsewhere == UNCHANGED <<reactorVars, epollVars>>
PollStarts == polls = << >> /\ (\E max \in 1..MaxOps : async_poll_completions(max)) /\ Elsewhere
PollRuns == (poll_completes \/ poll_returns) /\ Elsewhere
CallbackEnds == callback_returns /\ Elsewhere

OpsNext ==
  \/ \E w \in Work : async_submit_operation(w) /\ Elsewhere
  \/ \E i \in 1..Len(ops) : async_cancel_operation(i) /\ Elsewhere
  \/ \E max \in 1..MaxOps : async_poll_completions(max) /\ Elsewhere
  \/ PollRuns \/ CallbackEnds

\* The program goes on polling; callbacks return after finitely many calls.
OpsFairness ==
  /\ WF_opsVars(PollStarts)
  /\ SF_opsVars(CallbackEnds)
  /\ WF_opsVars(PollRuns)

OpsSpec == Init /\ [][OpsNext]_vars /\ OpsFairness

\* Callbacks start in the order of submission, also when a callback polls, submits
\* or cancels; every completed operation had its callback exactly once and no
\* cancelled one has it, so a program that gave up waiting, cancelled and submitted
\* again has its work done at most once.  The counters tell the states.
CallbacksInOrder ==
  /\ \A m, n \in 1..Len(called) : m < n => called[m] < called[n]
  /\ Range(called) = {i \in 1..Len(ops) : ops[i].state = "COMPLETED"}
  /\ \A m, n \in 1..Len(called) : ops[called[m]].work = ops[called[n]].work => m = n
  /\ queued = Count("QUEUED") /\ in_progress = 0 /\ completed = Count("COMPLETED")

\* Every operation is completed or cancelled while the program goes on polling,
\* whatever callbacks submit and however few completions each poll may make.
OperationsEnd ==
  \A i \in 1..MaxOps :
    (i \in Pending) ~> (i \notin Pending)

-----------------------------------------------------------------------------
(* One instance of epoll_equivalent.c; instances share nothing and are never      *)
(* destroyed.  Edge triggering and one-shot are stored and never read.            *)

Entry(fd) == SelectInSeq(fds, LAMBDA e : e.fd = fd)

\* A file that is there already gets a second entry.
epoll_ctl_add(fd, in) ==
  /\ Len(fds) < MaxFds
  /\ fds' = Append(fds, [fd |-> fd, in |-> in])
  /\ wants' = [wants EXCEPT ![fd] = IF in THEN "in" ELSE "other"]
  /\ twice' = IF Entry(fd) = 0 THEN twice ELSE twice \union {fd}
  /\ UNCHANGED ready

ModKeepsEvents(fd, in) == \* mistaken: event_data is replaced and events is forgotten
  /\ Entry(fd) # 0
  /\ wants' = [wants EXCEPT ![fd] = IF in THEN "in" ELSE "other"]
  /\ UNCHANGED <<fds, ready, twice>>

epoll_ctl_mod(fd, in) ==
  /\ Entry(fd) # 0
  /\ fds' = [fds EXCEPT ![Entry(fd)].in = in]
  /\ wants' = [wants EXCEPT ![fd] = IF in THEN "in" ELSE "other"]
  /\ UNCHANGED <<ready, twice>>

epoll_ctl_del(fd) ==
  /\ Entry(fd) # 0
  /\ fds' = RemoveAt(fds, Entry(fd))
  /\ wants' = [wants EXCEPT ![fd] = "no"]
  /\ UNCHANGED <<ready, twice>>

\* Every entry that asks for EPOLLIN is ready; the first maxevents are returned.
epoll_wait(maxevents) ==
  LET found == SelectSeq(fds, LAMBDA e : e.in)
      n == Min({Len(found), maxevents})
  IN /\ ready' = [k \in 1..n |-> found[k].fd]
     /\ UNCHANGED <<fds, wants, twice>>

EpollNext ==
  /\ \/ \E fd \in Fd, in \in BOOLEAN : epoll_ctl_add(fd, in) \/ epoll_ctl_mod(fd, in)
     \/ \E fd \in Fd : epoll_ctl_del(fd)
     \/ \E maxevents \in 1..MaxFds : epoll_wait(maxevents)
  /\ UNCHANGED <<reactorVars, opsVars>>

EpollSpec == Init /\ [][EpollNext]_vars

\* What epoll_wait returns follows the last epoll_ctl call for each file, across
\* entries that moved: a file never added twice is returned at most once, only
\* while its last call asked for EPOLLIN, and whenever it did and there was room.
\* A file added twice keeps an entry its later calls do not reach.
WaitFollowsInterest ==
  [][\A max \in 1..MaxFds : epoll_wait(max) =>
       \A fd \in Fd \ twice :
         /\ Cardinality({k \in 1..Len(ready') : ready'[k] = fd}) <= 1
         /\ fd \in Range(ready') => wants[fd] = "in"
         /\ wants[fd] = "in" => fd \in Range(ready') \/ Len(ready') = max]_epollVars

\* Deleting a file that was never added twice leaves no entry of it behind, and
\* leaves the other files theirs.
OneEntryEach ==
  \A fd \in Fd \ twice :
    Cardinality({k \in 1..Len(fds) : fds[k].fd = fd}) = IF wants[fd] = "no" THEN 0 ELSE 1
=============================================================================
