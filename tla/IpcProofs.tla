------------------------------ MODULE IpcProofs ------------------------------
(***************************************************************************)
(* The pipe of IpcManager implements FifoChannel for every buffer size,    *)
(* and its message queue implements it for every number of messages. The   *)
(* arrays are compared with the abstract sequence element by element; the  *)
(* lemmas say what Content is after a write and a read, and Waiting after  *)
(* a send and a receive.                                                   *)
(***************************************************************************)
EXTENDS IpcManager, TLAPS

\* Every call keeps the slot well typed: no call reaches past the buffer.
LEMMA TypeStep == PipeOK /\ [PipeNext]_pipeVars => PipeOK'
<1> SUFFICES ASSUME PipeOK, [PipeNext]_pipeVars PROVE PipeOK'
  OBVIOUS
<1> USE PipeAssumption DEF PipeOK
<1>0. Zero \in Byte BY DEF Zero
<1>1. CASE ipc_create_pipe
  BY <1>0, <1>1 DEF ipc_create_pipe
<1>2. ASSUME NEW d \in Data, ipc_pipe_write(d) PROVE PipeOK'
  <2>1. PICK k \in 0..MaxWrite : d \in [1..k -> Byte] BY DEF Data
  <2>2. Len(d) = k /\ k \in Nat BY <2>1
  <2>3. buffer_size' \in 0..BufSize /\ bytes_written' \in Nat
    BY <1>2, <2>2 DEF ipc_pipe_write
  <2>4. \A i \in buffer_size..(buffer_size + Len(d) - 1) : d[i - buffer_size + 1] \in Byte
    BY <2>1, <2>2
  <2>5. buffer' \in [Index -> Byte]
    BY <1>2, <2>4 DEF ipc_pipe_write
  <2> QED BY <1>2, <2>3, <2>5 DEF ipc_pipe_write
<1>3. ASSUME NEW max \in 0..BufSize, ipc_pipe_read(max) PROVE PipeOK'
  <2> DEFINE n == Smaller(max, buffer_size)
  <2>1. n \in 0..buffer_size BY DEF Smaller
  <2> HIDE DEF n
  <2>2. buffer' = Shift(buffer, n, buffer_size) /\ buffer_size' = buffer_size - n
        /\ bytes_read' = bytes_read + n /\ out' = [i \in 1..n |-> buffer[i - 1]]
    BY <1>3 DEF ipc_pipe_read, n
  <2>3. buffer' \in [Index -> Byte]
    BY <2>1, <2>2 DEF Shift, Index
  <2>4. out' \in Seq(Byte)
    <3>1. \A i \in 1..n : buffer[i - 1] \in Byte BY <2>1 DEF Index
    <3> QED BY <2>1, <2>2, <3>1
  <2> QED BY <1>3, <2>1, <2>2, <2>3, <2>4 DEF ipc_pipe_read
<1>4. CASE ipc_pipe_close
  <2>1. is_open' \in BOOLEAN BY <1>4, Zenon DEF ipc_pipe_close
  <2>2. buffer_size' \in 0..BufSize BY <1>4 DEF ipc_pipe_close
  <2> QED BY <1>4, <2>1, <2>2, Zenon DEF ipc_pipe_close
<1>5. CASE UNCHANGED pipeVars
  BY <1>5 DEF pipeVars
<1> QED BY <1>1, <1>2, <1>3, <1>4, <1>5 DEF PipeNext

\* The initial slot is well typed.
LEMMA InitType == PipeInit => PipeOK
<1> SUFFICES ASSUME PipeInit PROVE PipeOK
  OBVIOUS
<1>1. Zero \in Byte BY PipeAssumption DEF Zero
<1>2. is_open \in BOOLEAN BY Zenon DEF PipeInit
<1>3. buffer_size \in 0..BufSize /\ bytes_written \in Nat /\ bytes_read \in Nat
  BY PipeAssumption DEF PipeInit
<1>4. pipe_id \in {0, 1} /\ buffer \in [Index -> Byte] /\ out \in Seq(Byte)
  BY <1>1 DEF PipeInit
<1> QED BY <1>2, <1>3, <1>4, Zenon DEF PipeOK

\* The counters agree with the buffer from step to step.
LEMMA AccountStep == PipeOK /\ BytesAccounted /\ [PipeNext]_pipeVars => BytesAccounted'
<1> SUFFICES ASSUME PipeOK, BytesAccounted, [PipeNext]_pipeVars PROVE BytesAccounted'
  OBVIOUS
<1> USE PipeAssumption DEF PipeOK, BytesAccounted
<1>1. CASE ipc_create_pipe BY <1>1 DEF ipc_create_pipe
<1>2. ASSUME NEW d \in Data, ipc_pipe_write(d) PROVE BytesAccounted'
  <2>1. Len(d) \in Nat BY DEF Data
  <2> QED BY <1>2, <2>1 DEF ipc_pipe_write
<1>3. ASSUME NEW max \in 0..BufSize, ipc_pipe_read(max) PROVE BytesAccounted'
  BY <1>3 DEF ipc_pipe_read, Smaller
<1>4. CASE ipc_pipe_close BY <1>4 DEF ipc_pipe_close
<1>5. CASE UNCHANGED pipeVars BY <1>5 DEF pipeVars
<1> QED BY <1>1, <1>2, <1>3, <1>4, <1>5 DEF PipeNext

-----------------------------------------------------------------------------

\* Content is a sequence of buffer_size bytes.
LEMMA ContentIsSeq ==
  ASSUME PipeOK
  PROVE  /\ Content \in Seq(Byte) /\ Len(Content) = buffer_size
         /\ \A i \in 1..buffer_size : Content[i] = buffer[i - 1]
<1> USE PipeAssumption DEF PipeOK
<1>1. \A i \in 1..buffer_size : buffer[i - 1] \in Byte BY DEF Index
<1> QED BY <1>1 DEF Content

\* Equal lengths and equal elements make equal sequences.
LEMMA SeqExtensional ==
  ASSUME NEW S, NEW s \in Seq(S), NEW t \in Seq(S), Len(s) = Len(t),
         \A i \in 1..Len(s) : s[i] = t[i]
  PROVE  s = t
OBVIOUS

\* A write puts its data behind the content.
LEMMA WriteSends == ASSUME PipeOK, PipeOK', NEW d \in Data, ipc_pipe_write(d) PROVE Fifo!Send
<1> USE PipeAssumption
<1>1. /\ Len(d) \in Nat /\ buffer_size \in Nat
      /\ buffer_size' = buffer_size + Len(d) /\ buffer_size' <= BufSize
  BY DEF PipeOK, ipc_pipe_write, Data
<1>2. /\ Content' \in Seq(Byte) /\ Len(Content') = buffer_size'
      /\ \A i \in 1..buffer_size' : Content'[i] = buffer'[i - 1]
  <2>1. \A i \in 1..buffer_size' : buffer'[i - 1] \in Byte BY <1>1 DEF PipeOK, Index
  <2> QED BY <1>1, <2>1 DEF Content
<1>3. \A i \in 1..buffer_size : buffer'[i - 1] = buffer[i - 1]
  BY <1>1 DEF ipc_pipe_write, Index, PipeOK
<1>4. SubSeq(Content', 1, buffer_size) = Content
  <2>1. /\ SubSeq(Content', 1, buffer_size) \in Seq(Byte)
        /\ Len(SubSeq(Content', 1, buffer_size)) = buffer_size
        /\ \A i \in 1..buffer_size : SubSeq(Content', 1, buffer_size)[i] = Content'[i]
    BY <1>1, <1>2
  <2>2. \A i \in 1..buffer_size : Content'[i] = Content[i]
    BY <1>1, <1>2, <1>3, ContentIsSeq
  <2>3. \A i \in 1..buffer_size : SubSeq(Content', 1, buffer_size)[i] = Content[i]
    BY <2>1, <2>2, Zenon
  <2> QED BY <2>1, <2>3, ContentIsSeq, SeqExtensional
<1>5. Len(Content') \in Len(Content)..BufSize BY <1>1, <1>2, ContentIsSeq
<1>6. UNCHANGED out BY DEF ipc_pipe_write
<1> QED BY <1>2, <1>4, <1>5, <1>6, ContentIsSeq DEF Fifo!Send

\* A read takes the front of the content and leaves the rest.
LEMMA ReadReceives ==
  ASSUME PipeOK, PipeOK', NEW max \in 0..BufSize, ipc_pipe_read(max)
  PROVE  \E n \in 0..Len(Content) : Fifo!Receive(n)
<1> USE PipeAssumption
<1> DEFINE n == Smaller(max, buffer_size)
<1>1. n \in 0..buffer_size /\ buffer_size \in Nat /\ buffer_size <= BufSize
  BY DEF Smaller, PipeOK
<1> HIDE DEF n
<1>2. buffer' = Shift(buffer, n, buffer_size) /\ buffer_size' = buffer_size - n
      /\ out' = [i \in 1..n |-> buffer[i - 1]]
  BY DEF ipc_pipe_read, n
<1>3. out' = SubSeq(Content, 1, n)
  <2>1. /\ SubSeq(Content, 1, n) \in Seq(Byte) /\ Len(SubSeq(Content, 1, n)) = n
        /\ \A i \in 1..n : SubSeq(Content, 1, n)[i] = Content[i]
    BY <1>1, ContentIsSeq
  <2>2. out' \in Seq(Byte) /\ Len(out') = n /\ \A i \in 1..n : out'[i] = buffer[i - 1]
    BY <1>1, <1>2 DEF PipeOK
  <2>3. \A i \in 1..n : Content[i] = buffer[i - 1]
    BY <1>1, ContentIsSeq
  <2>4. \A i \in 1..n : out'[i] = SubSeq(Content, 1, n)[i]
    BY <2>1, <2>2, <2>3
  <2> QED BY <2>1, <2>2, <2>4, SeqExtensional
<1>4. Content' = SubSeq(Content, n + 1, buffer_size)
  <2> DEFINE r == SubSeq(Content, n + 1, buffer_size)
  <2>1. /\ r \in Seq(Byte) /\ Len(r) = buffer_size - n
        /\ \A i \in 1..(buffer_size - n) : r[i] = Content[n + i]
    BY <1>1, ContentIsSeq
  <2>2. /\ Content' \in Seq(Byte) /\ Len(Content') = buffer_size - n
        /\ \A i \in 1..(buffer_size - n) : Content'[i] = buffer'[i - 1]
    <3>1. \A i \in 1..buffer_size' : buffer'[i - 1] \in Byte
      BY <1>1, <1>2 DEF PipeOK, Index
    <3> QED BY <1>1, <1>2, <3>1 DEF Content
  <2>3. \A i \in 1..(buffer_size - n) : buffer'[i - 1] = buffer[n + i - 1]
    BY <1>1, <1>2 DEF Shift, Index
  <2>4. \A i \in 1..(buffer_size - n) : Content[n + i] = buffer[n + i - 1]
    BY <1>1, ContentIsSeq
  <2>5. \A i \in 1..Len(r) : Content'[i] = r[i]
    BY <2>1, <2>2, <2>3, <2>4
  <2> HIDE DEF r
  <2>6. Content' = r BY <2>1, <2>2, <2>5, SeqExtensional
  <2> QED BY <2>6 DEF r
<1> QED BY <1>1, <1>3, <1>4, ContentIsSeq DEF Fifo!Receive

\* Every step of the pipe is a step of the channel, or changes neither its
\* content nor what was read.
LEMMA StepSimulates ==
  PipeOK /\ PipeOK' /\ BytesAccounted /\ [PipeNext]_pipeVars => [Fifo!Next]_<<Content, out>>
<1> SUFFICES ASSUME PipeOK, PipeOK', BytesAccounted, [PipeNext]_pipeVars
             PROVE  Fifo!Next \/ UNCHANGED <<Content, out>>
  OBVIOUS
<1>0. buffer_size' = 0 => Content' = << >> BY DEF Content
<1>1. CASE ipc_create_pipe
  BY <1>0, <1>1 DEF ipc_create_pipe, Fifo!Next, Fifo!Empty
<1>2. ASSUME NEW d \in Data, ipc_pipe_write(d) PROVE Fifo!Next
  BY <1>2, WriteSends DEF Fifo!Next
<1>3. ASSUME NEW max \in 0..BufSize, ipc_pipe_read(max) PROVE Fifo!Next
  BY <1>3, ReadReceives DEF Fifo!Next
<1>4. CASE ipc_pipe_close
  BY <1>0, <1>4 DEF ipc_pipe_close, Fifo!Next, Fifo!Empty
<1>5. CASE UNCHANGED pipeVars
  BY <1>5 DEF pipeVars, Content
<1> QED BY <1>1, <1>2, <1>3, <1>4, <1>5 DEF PipeNext

-----------------------------------------------------------------------------
\* The message queue.

\* Of what a message is, only its set matters below; the empty slots hold one.
LEMMA BlankIsMessage == Blank \in Message
<1>1. (CHOOSE p \in Pid : TRUE) \in Pid BY QueueAssumption, Zenon
<1>2. 0 \in 0..MaxSize BY QueueAssumption
<1> QED BY <1>1, <1>2 DEF Blank, Message

\* Every call keeps the slot of the queue well typed: no send reaches past the
\* array, and no receive and no deletion leaves more messages than max_messages.
LEMMA QueueTypeStep == QueueOK /\ [QueueNext]_queueVars => QueueOK'
<1> SUFFICES ASSUME QueueOK, [QueueNext]_queueVars PROVE QueueOK'
  OBVIOUS
<1> USE QueueAssumption DEF QueueOK
<1>1. ASSUME NEW max \in 0..MaxMsgs, ipc_create_message_queue(max) PROVE QueueOK'
  BY <1>1, BlankIsMessage DEF ipc_create_message_queue
<1>2. ASSUME NEW msg \in Message, ipc_queue_send(msg) PROVE QueueOK'
  <2>1. messages' = [messages EXCEPT ![message_count] = msg] BY <1>2 DEF ipc_queue_send
  <2>2. messages' \in [Place -> Message] BY <2>1
  <2>3. message_count' \in 0..max_messages BY <1>2 DEF ipc_queue_send
  <2>4. total_sent' \in Nat BY <1>2 DEF ipc_queue_send
  <2> QED BY <1>2, <2>2, <2>3, <2>4 DEF ipc_queue_send
<1>3. ASSUME NEW max \in 0..MaxSize, ipc_queue_receive(max) PROVE QueueOK'
  <2>1. 0 \in Place /\ messages[0] \in Message
    BY <1>3 DEF ipc_queue_receive, Place
  <2>2. messages[0].size \in 0..MaxSize BY <2>1 DEF Message
  <2>3. copied' \in 0..MaxSize BY <1>3, <2>2 DEF ipc_queue_receive
  <2>4. messages' \in [Place -> Message]
    BY <1>3 DEF ipc_queue_receive, Place
  <2>5. got' \in Seq(Message) BY <1>3, <2>1 DEF ipc_queue_receive
  <2> QED BY <1>3, <2>3, <2>4, <2>5 DEF ipc_queue_receive
<1>4. CASE ipc_queue_delete
  BY <1>4 DEF ipc_queue_delete
<1>5. CASE UNCHANGED queueVars
  BY <1>5 DEF queueVars
<1> QED BY <1>1, <1>2, <1>3, <1>4, <1>5 DEF QueueNext

\* The initial slot of the queue is well typed.
LEMMA QueueInitType == QueueInit => QueueOK
BY BlankIsMessage, QueueAssumption DEF QueueInit, QueueOK

\* The messages in the queue are a sequence of message_count messages.
LEMMA QueueContent ==
  ASSUME QueueOK
  PROVE  /\ Waiting \in Seq(Message) /\ Len(Waiting) = message_count
         /\ \A i \in 1..message_count : Waiting[i] = messages[i - 1]
<1> USE QueueAssumption DEF QueueOK
<1>1. \A i \in 1..message_count : messages[i - 1] \in Message BY DEF Place
<1> QED BY <1>1 DEF Waiting

\* The same of the state after a step.
LEMMA NextQueueContent ==
  ASSUME QueueOK'
  PROVE  /\ Waiting' \in Seq(Message) /\ Len(Waiting') = message_count'
         /\ \A i \in 1..message_count' : Waiting'[i] = messages'[i - 1]
<1> USE QueueAssumption DEF QueueOK
<1>1. \A i \in 1..message_count' : messages'[i - 1] \in Message BY DEF Place
<1>2. message_count' \in Nat OBVIOUS
<1>3. Waiting' = [i \in 1..message_count' |-> messages'[i - 1]] BY DEF Waiting
<1> QED BY <1>1, <1>2, <1>3

\* A send puts its message behind the others.
LEMMA SendSends ==
  ASSUME QueueOK, QueueOK',
         NEW msg \in Message, ipc_queue_send(msg)
  PROVE  QueueFifo!Send
<1> USE QueueAssumption
<1> DEFINE d == SubSeq(Waiting', 1, message_count)
<1>1. /\ message_count \in Nat /\ message_count' = message_count + 1
      /\ message_count' <= MaxMsgs
  BY DEF QueueOK, ipc_queue_send
<1>2. \A i \in 1..message_count : messages'[i - 1] = messages[i - 1]
  BY <1>1 DEF ipc_queue_send, Place, QueueOK
<1>3. /\ d \in Seq(Message) /\ Len(d) = message_count
      /\ \A i \in 1..message_count : d[i] = Waiting'[i]
  BY <1>1, NextQueueContent
<1>4. \A i \in 1..message_count : d[i] = Waiting[i]
  <2>1. \A i \in 1..message_count : Waiting'[i] = Waiting[i]
    BY <1>1, <1>2, QueueContent, NextQueueContent
  <2> QED BY <1>3, <2>1, Zenon
<1> HIDE DEF d
<1>5. d = Waiting BY <1>3, <1>4, QueueContent, SeqExtensional
<1>6. Len(Waiting') \in Len(Waiting)..MaxMsgs
  BY <1>1, QueueContent, NextQueueContent
<1>7. UNCHANGED got BY DEF ipc_queue_send
<1> QED BY <1>5, <1>6, <1>7, QueueContent, NextQueueContent DEF QueueFifo!Send, d

\* A receive takes the oldest message and leaves the others in their order.
LEMMA ReceiveReceives ==
  ASSUME QueueOK, QueueOK',
         NEW max \in 0..MaxSize, ipc_queue_receive(max)
  PROVE  QueueFifo!Receive(1) /\ 1 \in 0..Len(Waiting)
<1> USE QueueAssumption
<1> DEFINE front == SubSeq(Waiting, 1, 1)
           rest == SubSeq(Waiting, 2, message_count)
<1>1. /\ message_count \in Nat /\ message_count > 0 /\ message_count <= MaxMsgs
      /\ message_count' = message_count - 1 /\ got' = <<messages[0]>>
  BY DEF QueueOK, ipc_queue_receive
<1>2. \A i \in 1..(message_count - 1) : messages'[i - 1] = messages[i]
  BY <1>1 DEF ipc_queue_receive, Place
<1>3. got' = front
  <2>1. front \in Seq(Message) /\ Len(front) = 1 /\ front[1] = Waiting[1]
    BY <1>1, QueueContent
  <2>2. Waiting[1] = messages[0] BY <1>1, QueueContent
  <2>3. got' \in Seq(Message) /\ Len(got') = 1 /\ got'[1] = messages[0]
    BY <1>1 DEF QueueOK
  <2> HIDE DEF front
  <2>4. \A i \in 1..Len(got') : got'[i] = front[i] BY <2>1, <2>2, <2>3
  <2> QED BY <2>1, <2>3, <2>4, SeqExtensional
<1>4. Waiting' = rest
  <2>1. /\ rest \in Seq(Message) /\ Len(rest) = message_count - 1
        /\ \A i \in 1..(message_count - 1) : rest[i] = Waiting[i + 1]
    BY <1>1, QueueContent
  <2>2. \A i \in 1..(message_count - 1) : Waiting[i + 1] = messages[i]
    BY <1>1, QueueContent
  <2>3. \A i \in 1..Len(rest) : Waiting'[i] = rest[i]
    BY <1>1, <1>2, <2>1, <2>2, NextQueueContent
  <2> HIDE DEF rest
  <2> QED BY <1>1, <2>1, <2>3, NextQueueContent, SeqExtensional
<1>5. 1 \in 0..Len(Waiting) BY <1>1, QueueContent
<1> QED BY <1>3, <1>4, <1>5, QueueContent DEF QueueFifo!Receive

\* Every step of the queue is a step of the channel, or changes neither its
\* messages nor the one received last.
LEMMA QueueSimulates ==
  QueueOK /\ QueueOK' /\ [QueueNext]_queueVars => [QueueFifo!Next]_<<Waiting, got>>
<1> SUFFICES ASSUME QueueOK, QueueOK', [QueueNext]_queueVars
             PROVE  QueueFifo!Next \/ UNCHANGED <<Waiting, got>>
  OBVIOUS
<1>0. message_count' = 0 => Waiting' = << >> BY DEF Waiting
<1>1. ASSUME NEW max \in 0..MaxMsgs, ipc_create_message_queue(max) PROVE QueueFifo!Next
  BY <1>0, <1>1 DEF ipc_create_message_queue, QueueFifo!Next, QueueFifo!Empty
<1>2. ASSUME NEW msg \in Message, ipc_queue_send(msg) PROVE QueueFifo!Next
  BY <1>2, SendSends DEF QueueFifo!Next
<1>3. ASSUME NEW max \in 0..MaxSize, ipc_queue_receive(max) PROVE QueueFifo!Next
  BY <1>3, ReceiveReceives DEF QueueFifo!Next
<1>4. CASE ipc_queue_delete
  BY <1>0, <1>4 DEF ipc_queue_delete, QueueFifo!Next, QueueFifo!Empty
<1>5. CASE UNCHANGED queueVars
  BY <1>5 DEF queueVars, Waiting
<1> QED BY <1>1, <1>2, <1>3, <1>4, <1>5 DEF QueueNext

-----------------------------------------------------------------------------
\* Both together.

\* A step of the component is a step of the pipe, or of the queue, and leaves the
\* other as it was.
LEMMA StepOfOne == [Next]_vars => [PipeNext]_pipeVars /\ [QueueNext]_queueVars
BY Zenon DEF Next, vars, PipeNext, QueueNext

\* Pipe and queue of ipc_manager.c stay within their arrays, and the counters of
\* the pipe account for every byte.
THEOREM Accounting == Spec => [](TypeOK /\ BytesAccounted)
<1>1. Init => PipeOK /\ QueueOK /\ BytesAccounted
  <2>1. PipeInit => BytesAccounted BY DEF PipeInit, BytesAccounted
  <2> QED BY <2>1, InitType, QueueInitType, Zenon DEF Init
<1>2. PipeOK /\ QueueOK /\ BytesAccounted /\ [Next]_vars => (PipeOK /\ QueueOK /\ BytesAccounted)'
  BY StepOfOne, TypeStep, AccountStep, QueueTypeStep, Zenon
<1>3. PipeOK /\ QueueOK /\ BytesAccounted => TypeOK /\ BytesAccounted BY Zenon DEF TypeOK
<1> QED BY <1>1, <1>2, <1>3, PTL DEF Spec

\* The pipe of ipc_manager.c is a FIFO channel.
THEOREM Implements == Spec => ImplementsFifo
<1>1. Init => Fifo!Init BY DEF Init, PipeInit, Fifo!Init, Content
<1>2. (TypeOK /\ BytesAccounted) /\ (TypeOK /\ BytesAccounted)' /\ [Next]_vars
        => [Fifo!Next]_<<Content, out>>
  BY StepOfOne, StepSimulates, Zenon DEF TypeOK
<1> QED BY <1>1, <1>2, Accounting, PTL DEF Spec, ImplementsFifo, Fifo!Spec

\* The message queue of ipc_manager.c is a FIFO channel, across deletions and
\* the sends that are accepted after them.
THEOREM QueueImplements == Spec => QueueImplementsFifo
<1>1. Init => QueueFifo!Init BY DEF Init, QueueInit, QueueFifo!Init, Waiting
<1>2. (TypeOK /\ BytesAccounted) /\ (TypeOK /\ BytesAccounted)' /\ [Next]_vars
        => [QueueFifo!Next]_<<Waiting, got>>
  BY StepOfOne, QueueSimulates, Zenon DEF TypeOK
<1> QED BY <1>1, <1>2, Accounting, PTL DEF Spec, QueueImplementsFifo, QueueFifo!Spec
=============================================================================
