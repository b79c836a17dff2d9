----------------------------- MODULE IpcManager -----------------------------
(***************************************************************************)
(* Pipes and message queues of core-services/ipc_manager.c, arrays and     *)
(* all.  The calls on a pipe or a queue touch no other slot of the tables, *)
(* so one slot of each is modelled.  A pipe is created once, and after     *)
(* ipc_pipe_close it never opens again; ipc_queue_delete empties a queue   *)
(* but does not close it.  A message is its size and its sender.           *)
(***************************************************************************)
EXTENDS Integers, Sequences

CONSTANTS
  Byte,       \* the byte values told apart
  BufSize,    \* PIPE_BUFFER_SIZE
  MaxWrite,   \* bound: the longest write, so that size + buffer_size cannot wrap
  MaxBytes,   \* bound: bytes written to the pipe in all
  Pid,        \* sender pids
  MaxMsgs,    \* MAX_QUEUE_MESSAGES; callers ask for no larger max_messages
  MaxSize,    \* MAX_MESSAGE_SIZE
  MaxSent     \* bound: messages sent to the queue in all

ASSUME PipeAssumption == BufSize \in Nat /\ MaxWrite \in Nat /\ MaxBytes \in Nat /\ Byte # {}
ASSUME QueueAssumption == MaxMsgs \in Nat /\ MaxSize \in Nat /\ MaxSent \in Nat /\ Pid # {}

Index == 0..(BufSize - 1)
Data == UNION {[1..n -> Byte] : n \in 0..MaxWrite}

Place == 0..(MaxMsgs - 1)
Message == [sender : Pid, size : 0..MaxSize]

VARIABLES
  pipe_id,        \* 0 until the slot is created
  is_open,
  buffer,
  buffer_size,
  bytes_written,
  bytes_read,
  out,            \* the reader's buffer after its last successful read
  queue_id,       \* 0 until the slot is created
  max_messages,
  messages,
  message_count,
  total_sent,
  total_received,
  got,            \* the message the last receive removed, as a sequence
  copied          \* how much of it fitted into the receiver's buffer

pipeVars == <<pipe_id, is_open, buffer, buffer_size, bytes_written, bytes_read, out>>

queueVars == <<queue_id, max_messages, messages, message_count, total_sent, total_received, got, copied>>

vars == <<pipeVars, queueVars>>

-----------------------------------------------------------------------------
\* A pipe.

\* The bytes the pipe holds, in order.
Content == [i \in 1..buffer_size |-> buffer[i - 1]]

PipeOK ==
  /\ pipe_id \in {0, 1} /\ is_open \in BOOLEAN
  /\ buffer \in [Index -> Byte] /\ buffer_size \in 0..BufSize
  /\ bytes_written \in Nat /\ bytes_read \in Nat
  /\ out \in Seq(Byte)

Zero == CHOOSE b \in Byte : TRUE

PipeInit ==
  /\ pipe_id = 0 /\ is_open = FALSE
  /\ buffer = [i \in Index |-> Zero] /\ buffer_size = 0
  /\ bytes_written = 0 /\ bytes_read = 0
  /\ out = << >>

ipc_create_pipe ==
  /\ pipe_id = 0
  /\ pipe_id' = 1 /\ is_open' = TRUE
  /\ buffer' = [i \in Index |-> Zero] /\ buffer_size' = 0
  /\ bytes_written' = 0 /\ bytes_read' = 0
  /\ UNCHANGED out

WriteUnchecked(d) ==        \* mistaken ipc_pipe_write: looks at size alone
  /\ pipe_id = 1 /\ is_open
  /\ Len(d) <= BufSize
  /\ bytes_written + Len(d) <= MaxBytes
  /\ buffer' = [i \in Index |-> IF i \in buffer_size..(buffer_size + Len(d) - 1)
                                  THEN d[i - buffer_size + 1] ELSE buffer[i]]
  /\ buffer_size' = buffer_size + Len(d)
  /\ bytes_written' = bytes_written + Len(d)
  /\ UNCHANGED <<pipe_id, is_open, bytes_read, out>>

\* All of the data or nothing: a write that does not fit is answered -1.
ipc_pipe_write(d) ==
  /\ pipe_id = 1 /\ is_open
  /\ Len(d) + buffer_size <= BufSize
  /\ bytes_written + Len(d) <= MaxBytes
  /\ buffer' = [i \in Index |-> IF i \in buffer_size..(buffer_size + Len(d) - 1)
                                  THEN d[i - buffer_size + 1] ELSE buffer[i]]
  /\ buffer_size' = buffer_size + Len(d)
  /\ bytes_written' = bytes_written + Len(d)
  /\ UNCHANGED <<pipe_id, is_open, bytes_read, out>>

ShiftShort(b, n, size) ==   \* mistaken Shift: moves one byte too few
  [i \in Index |-> IF i + 1 < size - n THEN b[i + n] ELSE b[i]]

\* memmove of the size - n bytes behind the first n to the front.
Shift(b, n, size) == [i \in Index |-> IF i < size - n THEN b[i + n] ELSE b[i]]

Smaller(a, b) == IF a < b THEN a ELSE b

\* An empty pipe answers 0 and leaves the reader's buffer alone.
ipc_pipe_read(max) ==
  /\ pipe_id = 1 /\ is_open /\ buffer_size > 0
  /\ LET n == Smaller(max, buffer_size) IN
       /\ out' = [i \in 1..n |-> buffer[i - 1]]
       /\ buffer' = Shift(buffer, n, buffer_size)
       /\ buffer_size' = buffer_size - n
       /\ bytes_read' = bytes_read + n
  /\ UNCHANGED <<pipe_id, is_open, bytes_written>>

CloseKeepingData ==         \* mistaken ipc_pipe_close: buffer_size not reset
  /\ pipe_id = 1
  /\ is_open' = FALSE
  /\ UNCHANGED <<pipe_id, buffer, buffer_size, bytes_written, bytes_read, out>>

\* Unread bytes are dropped; closing again has no further effect.
ipc_pipe_close ==
  /\ pipe_id = 1
  /\ is_open' = FALSE /\ buffer_size' = 0
  /\ UNCHANGED <<pipe_id, buffer, bytes_written, bytes_read, out>>

PipeNext ==
  /\ \/ ipc_create_pipe
     \/ \E d \in Data : ipc_pipe_write(d)
     \/ \E max \in 0..BufSize : ipc_pipe_read(max)
     \/ ipc_pipe_close
  /\ UNCHANGED queueVars

-----------------------------------------------------------------------------
\* A message queue.

\* The messages the queue holds, in order.
Waiting == [i \in 1..message_count |-> messages[i - 1]]

QueueOK ==
  /\ queue_id \in {0, 1} /\ max_messages \in 0..MaxMsgs
  /\ messages \in [Place -> Message] /\ message_count \in 0..max_messages
  /\ total_sent \in Nat /\ total_received \in Nat
  /\ got \in Seq(Message) /\ copied \in 0..MaxSize

Blank == [sender |-> CHOOSE p \in Pid : TRUE, size |-> 0]

QueueInit ==
  /\ queue_id = 0 /\ max_messages = 0
  /\ messages = [i \in Place |-> Blank] /\ message_count = 0
  /\ total_sent = 0 /\ total_received = 0
  /\ got = << >> /\ copied = 0

ipc_create_message_queue(max) ==
  /\ queue_id = 0
  /\ queue_id' = 1 /\ max_messages' = max
  /\ messages' = [i \in Place |-> Blank] /\ message_count' = 0
  /\ total_sent' = 0 /\ total_received' = 0
  /\ UNCHANGED <<got, copied>>

ipc_queue_send(msg) ==
  /\ queue_id = 1 /\ message_count < max_messages /\ total_sent < MaxSent
  /\ messages' = [messages EXCEPT ![message_count] = msg]
  /\ message_count' = message_count + 1
  /\ total_sent' = total_sent + 1
  /\ UNCHANGED <<queue_id, max_messages, total_received, got, copied>>

ReceiveLast(max) ==         \* mistaken ipc_queue_receive: last in, first out
  /\ queue_id = 1 /\ message_count > 0
  /\ got' = <<messages[message_count - 1]>> /\ copied' = 0
  /\ message_count' = message_count - 1
  /\ total_received' = total_received + 1
  /\ UNCHANGED <<queue_id, max_messages, messages, total_sent>>

\* The whole message leaves the queue, even if max cuts the copy short.
ipc_queue_receive(max) ==
  /\ queue_id = 1 /\ message_count > 0
  /\ got' = <<messages[0]>>
  /\ copied' = IF max < messages[0].size THEN max ELSE messages[0].size
  /\ messages' = [i \in Place |-> IF i < message_count - 1 THEN messages[i + 1] ELSE messages[i]]
  /\ message_count' = message_count - 1
  /\ total_received' = total_received + 1
  /\ UNCHANGED <<queue_id, max_messages, total_sent>>

ipc_queue_delete ==
  /\ queue_id = 1
  /\ message_count' = 0
  /\ UNCHANGED <<queue_id, max_messages, messages, total_sent, total_received, got, copied>>

QueueNext ==
  /\ \/ \E max \in 0..MaxMsgs : ipc_create_message_queue(max)
     \/ \E msg \in Message : ipc_queue_send(msg)
     \/ \E max \in 0..MaxSize : ipc_queue_receive(max)
     \/ ipc_queue_delete
  /\ UNCHANGED pipeVars

-----------------------------------------------------------------------------

TypeOK == PipeOK /\ QueueOK

Init == PipeInit /\ QueueInit

Next == PipeNext \/ QueueNext

Spec == Init /\ [][Next]_vars

\* The pipe implements a FIFO channel of capacity BufSize whose items are bytes:
\* memcpy behind the data and memmove to the front keep the order.
Fifo == INSTANCE FifoChannel WITH
          Item <- Byte, Capacity <- BufSize, pending <- Content, taken <- out

ImplementsFifo == Fifo!Spec

\* The counters account for every byte: an open pipe holds exactly the written
\* bytes that were not read, and a closed one holds none.
BytesAccounted ==
  /\ is_open => bytes_written = bytes_read + buffer_size
  /\ ~is_open => buffer_size = 0 /\ bytes_written >= bytes_read

\* The queue implements a FIFO channel of messages, across deletions that empty
\* it and the sends the code still accepts afterwards.
QueueFifo == INSTANCE FifoChannel WITH
          Item <- Message, Capacity <- MaxMsgs, pending <- Waiting, taken <- got

QueueImplementsFifo == QueueFifo!Spec
=============================================================================
