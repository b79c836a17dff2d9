CONSTANTS
  Byte = {b0, b1}
  BufSize = 4
  MaxWrite = 3
  MaxBytes = 7
  Pid = {p1, p2}
  MaxMsgs = 2
  MaxSize = 1
  MaxSent = 4
SPECIFICATION System
INVARIANTS
   BytesAccounted StreamsComplete
PROPERTIES
  ImplementsFifo QueueImplementsFifo NotificationsSound
