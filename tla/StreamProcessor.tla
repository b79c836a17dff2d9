--------------------------- MODULE StreamProcessor ---------------------------
(***************************************************************************)
(* One processor of services/stream_processor.c: topics, their partitions   *)
(* and the consumers that read them.  Topics and consumers are named by     *)
(* their places, and deleting one moves the ones behind it.  The consuming  *)
(* programs are part of the model: they work on the events they were given, *)
(* commit what they have worked on, and after a crash go on from the last   *)
(* commit.                                                                  *)
(***************************************************************************)
EXTENDS Integers, FiniteSets, Sequences, SequencesExt, FiniteSetsExt

CONSTANTS
  Key,            \* keys of events
  NoKey,
  Hash,           \* sp_hash_key
  Batch,          \* batch sizes consumers ask for
  MaxTopics,      \* MAX_TOPICS
  MaxPartitions,  \* MAX_STREAM_PARTITIONS
  MaxBuffer,      \* MAX_STREAM_BUFFER
  MaxConsumers,   \* MAX_CONSUMERS
  Width,          \* 2^32
  MaxOffset,      \* bound: offsets
  MaxEvents,      \* bound: events in all slots
  Seek            \* offsets programs seek

VARIABLES
  topics,         \* all slots of topics; those from topic_count on are out of use
  topic_count,
  consumers       \* consumers up to consumer_count

vars == <<topics, topic_count, consumers>>

Slot == 1..MaxTopics
Partition == 1..MaxPartitions

StreamEvent == [id : 1..MaxBuffer, key : Key \union {NoKey}]

StreamTopic ==
  [partition_count : 0..MaxPartitions, total : 0..MaxBuffer,
   events : [Partition -> Seq(StreamEvent)]]

StreamConsumer ==
  [topic : Slot, partition : Partition, offset : 0..MaxOffset, commit : 0..MaxOffset,
   batch : (Batch \union {1}) \ {0},
   hand : SUBSET (1..MaxOffset),  \* the program: events given to it and not worked on,
   done : SUBSET (1..MaxOffset),  \*   and worked on, in the partition (until it is lost)
   moved : BOOLEAN,               \* history: the last commit was for another partition
   sought : BOOLEAN,              \* history: it went to an offset of its own choice
   stray : BOOLEAN]               \* history: its topic was deleted or moved

TypeOK ==
  /\ topic_count \in 0..MaxTopics
  /\ topics \in [Slot -> StreamTopic]
  /\ consumers \in Seq(StreamConsumer) /\ Len(consumers) <= MaxConsumers

Capacity(t) == MaxBuffer \div topics[t].partition_count

Init ==
  /\ topics = [t \in Slot |-> [partition_count |-> 0, total |-> 0,
                               events |-> [p \in Partition |-> << >>]]]
  /\ topic_count = 0
  /\ consumers = << >>

-----------------------------------------------------------------------------
(* Topics *)

\* The slot behind the last topic as sp_create_topic leaves it after it came to
\* its partition r: the ones behind keep what they held.
Prepared(slot, n, r) ==
  [partition_count |-> n, total |-> 0,
   events |-> [p \in Partition |-> IF p <= r THEN << >> ELSE slot.events[p]]]

sp_create_topic(n) ==
  /\ topic_count < MaxTopics
  /\ topics' = [topics EXCEPT ![topic_count + 1] = Prepared(@, n, n)]
  /\ topic_count' = topic_count + 1
  /\ UNCHANGED consumers

\* malloc fails for partition r.
sp_create_topic_no_memory(n, r) ==
  /\ topic_count < MaxTopics
  /\ topics' = [topics EXCEPT ![topic_count + 1] = Prepared(@, n, r)]
  /\ UNCHANGED <<topic_count, consumers>>

sp_delete_topic(t) ==
  /\ t <= topic_count
  /\ topics' = [s \in Slot |-> IF s >= t /\ s < topic_count THEN topics[s + 1] ELSE topics[s]]
  /\ topic_count' = topic_count - 1
  /\ consumers' = [c \in DOMAIN consumers |->
                     IF consumers[c].topic < t THEN consumers[c]
                     ELSE [consumers[c] EXCEPT !.stray = TRUE, !.hand = {}, !.done = {}]]

-----------------------------------------------------------------------------
(* Publishing *)

\* A topic after one event for a partition: nothing changes when the partition is
\* full or when malloc fails for the payload.
Published(topic, cap, key, try) ==
  IF Len(topic.events[try.partition]) >= cap \/ ~try.memory THEN topic
  ELSE [topic EXCEPT !.total = @ + 1,
                     !.events[try.partition] = Append(@, [id |-> topic.total + 1, key |-> key])]

Room(n) == MapThenSumSet(LAMBDA s : topics[s].total, Slot) + n <= MaxEvents

\* A partition sp_publish_event may pick, and whether malloc finds memory.
Tries(t) == [partition : 1..topics[t].partition_count, memory : BOOLEAN]

sp_publish_event(t, try) ==
  /\ t <= topic_count /\ Room(1)
  /\ topics' = [topics EXCEPT ![t] = Published(@, Capacity(t), NoKey, try)]
  /\ UNCHANGED <<topic_count, consumers>>

KeyPartition(t, key) == 1 + (Hash[key] % topics[t].partition_count)

sp_publish_with_key(t, key, memory) ==
  /\ t <= topic_count /\ Room(1)
  /\ LET try == [partition |-> KeyPartition(t, key), memory |-> memory]
     IN topics' = [topics EXCEPT ![t] = Published(@, Capacity(t), key, try)]
  /\ UNCHANGED <<topic_count, consumers>>

\* Goes on after an event that could not be published.
sp_publish_batch(t, tries) ==
  /\ t <= topic_count /\ Room(Len(tries))
  /\ topics' = [topics EXCEPT ![t] =
                  FoldLeft(LAMBDA topic, try : Published(topic, Capacity(t), NoKey, try), @, tries)]
  /\ UNCHANGED <<topic_count, consumers>>

-----------------------------------------------------------------------------
(* Consumers *)

sp_create_consumer(t, batch) ==
  /\ t <= topic_count /\ Len(consumers) < MaxConsumers
  /\ consumers' = Append(consumers,
       [topic |-> t, partition |-> 1, offset |-> 0, commit |-> 0, batch |-> Max({batch, 1}),
        hand |-> {}, done |-> {}, moved |-> FALSE, sought |-> FALSE, stray |-> FALSE])
  /\ UNCHANGED <<topics, topic_count>>

sp_delete_consumer(c) ==
  /\ consumers' = RemoveAt(consumers, c)
  /\ UNCHANGED <<topics, topic_count>>

\* The committed offset stays, although it belongs to the partition left.
sp_subscribe_consumer(c, p) ==
  /\ consumers' = [consumers EXCEPT
       ![c] = [@ EXCEPT !.partition = p, !.offset = 0, !.hand = {}, !.done = {},
                        !.moved = consumers[c].commit > 0, !.sought = FALSE]]
  /\ UNCHANGED <<topics, topic_count>>

Least(a, b) == IF a < b THEN a ELSE b

TakenWhole(consumer, count) == consumer.batch  \* mistaken: as if a batch were always there

\* The events sp_consume_events hands out: the difference is computed in 32 bits.
Taken(consumer, count) == Least((count - consumer.offset) % Width, consumer.batch)

sp_consume_events(c) ==
  LET consumer == consumers[c]
      topic == topics[consumer.topic]
      n == Taken(consumer, Len(topic.events[consumer.partition]))
  IN /\ consumer.partition <= topic.partition_count
     /\ consumer.offset + n <= MaxOffset
     /\ consumers' = [consumers EXCEPT
          ![c].offset = @ + n,
          ![c].hand = IF consumer.sought \/ consumer.stray THEN {}
                      ELSE @ \union (consumer.offset + 1..consumer.offset + n)]
     /\ UNCHANGED <<topics, topic_count>>

\* The program commits when it has worked on everything it was given.
sp_commit_offset(c) ==
  /\ consumers' = [consumers EXCEPT
       ![c] = [@ EXCEPT !.commit = consumers[c].offset, !.moved = FALSE, !.hand = {},
                        !.done = @ \union consumers[c].hand]]
  /\ UNCHANGED <<topics, topic_count>>

sp_seek_to_offset(c, offset) ==
  /\ consumers' = [consumers EXCEPT 
       ![c] = [@ EXCEPT !.offset = offset, !.sought = TRUE, !.hand = {}, !.done = {}]]
  /\ UNCHANGED <<topics, topic_count>>

\* The program crashes, loses what it had in hand, and seeks its last commit.
Restart(c) ==
  /\ consumers' = [consumers EXCEPT
       ![c] = [@ EXCEPT !.offset = consumers[c].commit, !.hand = {},
                        !.sought = @ \/ consumers[c].moved]]
  /\ UNCHANGED <<topics, topic_count>>

Next ==
  \/ \E n \in Partition :
       sp_create_topic(n) \/ \E r \in 1..n : sp_create_topic_no_memory(n, r)
  \/ \E t \in Slot :
       \/ sp_delete_topic(t)
       \/ \E try \in Tries(t) : sp_publish_event(t, try)
       \/ \E tries \in [1..2 -> Tries(t)] : sp_publish_batch(t, tries)
       \/ \E key \in Key, memory \in BOOLEAN : sp_publish_with_key(t, key, memory)
       \/ \E batch \in Batch : sp_create_consumer(t, batch)
  \/ \E c \in DOMAIN consumers :
       \/ sp_delete_consumer(c) \/ sp_consume_events(c) \/ sp_commit_offset(c) \/ Restart(c)
       \/ \E p \in Partition : sp_subscribe_consumer(c, p)
       \/ \E offset \in Seek : sp_seek_to_offset(c, offset)

Spec == Init /\ [][Next]_vars

-----------------------------------------------------------------------------
(* Properties *)

\* The events of a topic are numbered without gaps or repetitions over all its
\* partitions, in the order of each, also when memory ran out or partitions were
\* full on the way; events of one key are all in one partition.
EventsNumbered ==
  \A t \in 1..topic_count :
    LET topic == topics[t]
        At == {pi \in Partition \X (1..MaxBuffer) :
                 pi[1] <= topic.partition_count /\ pi[2] <= Len(topic.events[pi[1]])}
        E(pi) == topic.events[pi[1]][pi[2]]
    IN /\ {E(pi).id : pi \in At} = 1..topic.total /\ Cardinality(At) = topic.total
       /\ \A x, y \in At :
            /\ x[1] = y[1] /\ x[2] < y[2] => E(x).id < E(y).id
            /\ E(x).key = E(y).key /\ E(x).key # NoKey => x[1] = y[1]

\* A program that works on what it is given before it commits, and goes on from its
\* last commit after a crash, leaves out no event of its partition, and what
\* it is given is there.  It must not seek offsets of its own, nor crash between a
\* change of partition and the next commit, since sp_subscribe_consumer keeps the
\* offset committed for the old one; and its topic must not be deleted or moved.
AtLeastOnce ==
  \A c \in DOMAIN consumers :
    LET consumer == consumers[c]
        count == Len(topics[consumer.topic].events[consumer.partition])
    IN ~consumer.stray /\ ~consumer.sought =>
         /\ consumer.hand \subseteq 1..count
         /\ 1..consumer.offset \subseteq consumer.done \union consumer.hand
         /\ ~consumer.moved => 1..consumer.commit \subseteq consumer.done
=============================================================================
