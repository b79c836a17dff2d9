------------------------------- MODULE MCIpc -------------------------------
(*****************************************************************************)
(* Pipes and message queues of core-services/ipc_manager.c, the              *)
(* asynchronous I/O of async-io-multiplexing and the streams of services     *)
(* for TLC. The components share no state: no function of one touches        *)
(* another, so their steps interleave freely and each property speaks of     *)
(* one of them. A behaviour therefore exercises one component, and a run     *)
(* has the sum of their states instead of the product.                       *)
(*****************************************************************************)
EXTENDS IpcManager

VARIABLES
  subject,   \* the component this behaviour exercises
  sources, next_id, ring, front, rear, pending, loop, owed, overrun, own_touched,
  earlier_left, extra, ops, queued, in_progress, completed, polls, called, fds,
  ready, wants, twice,
  topics, topic_count, consumers

Async == INSTANCE AsyncIo WITH
  Fd <- {1, 2}, MaxSources <- 3, QueueSize <- 2, MaxId <- 3, MaxPending <- 3, MaxOps <- 4,
  Work <- {"w1", "w2", "w3"}, MaxNesting <- 2, MaxFds <- 3

Streams == INSTANCE StreamProcessor WITH
  Key <- {1}, NoKey <- 0, Hash <- [k \in {1} |-> k], Batch <- {0}, MaxTopics <- 2,
  MaxPartitions <- 2, MaxBuffer <- 2, MaxConsumers <- 1, Width <- 16, MaxOffset <- 2,
  MaxEvents <- 2, Seek <- {1}

asyncVars == <<
  sources, next_id, ring, front, rear, pending, loop, owed, overrun, own_touched,
  earlier_left, extra, ops, queued, in_progress, completed, polls, called, fds,
  ready, wants, twice>>

streamsVars == <<
  topics, topic_count, consumers>>

all == <<subject, vars, asyncVars, streamsVars>>

Start ==
  /\ subject \in {"pipe", "queue", "reactor", "operations", "epoll", "streams"}
  /\ Init /\ Async!Init /\ Streams!Init

\* One component moves, the others wait in their initial states.
Step ==
  \/ subject = "pipe" /\ PipeNext /\ UNCHANGED <<subject, asyncVars, streamsVars>>
  \/ subject = "queue" /\ QueueNext /\ UNCHANGED <<subject, asyncVars, streamsVars>>
  \/ subject = "reactor" /\ Async!ReactorNext /\ UNCHANGED <<subject, vars, streamsVars>>
  \/ subject = "operations" /\ Async!OpsNext /\ UNCHANGED <<subject, vars, streamsVars>>
  \/ subject = "epoll" /\ Async!EpollNext /\ UNCHANGED <<subject, vars, streamsVars>>
  \/ subject = "streams" /\ Streams!Next /\ UNCHANGED <<subject, vars, asyncVars>>

System == Start /\ [][Step]_all

-----------------------------------------------------------------------------

\* A consuming program leaves out no event although it crashes between reading,
\* working and committing, and the events of a topic are numbered without gaps
\* over its partitions, one key in one partition, although memory and room run
\* out.
StreamsComplete ==
  /\ Streams!AtLeastOnce
  /\ Streams!EventsNumbered

\* Events and readiness follow the calls that asked for them. What epoll_wait
\* returns follows the last epoll_ctl call for each file; events are handled
\* once and in order although handlers register, unregister and dispatch, and
\* no source waits READY without one; callbacks come once and in the order of
\* submission although callbacks submit, cancel and poll. Each under the
\* conditions its part states.
NotificationsSound ==
  /\ Async!WaitFollowsInterest
  /\ []Async!OneEntryEach
  /\ []Async!EventsInOrder
  /\ []Async!OneEventEach
  /\ []Async!CallbacksInOrder

\* Every component stays within its types and the sizes of its tables.
TypesOK == TypeOK /\ Async!TypeOK /\ Streams!TypeOK
=============================================================================
