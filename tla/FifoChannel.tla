---------------------------- MODULE FifoChannel ----------------------------
(***************************************************************************)
(* What a pipe or a message queue of core-services/ipc_manager.c promises: *)
(* items come out in the order they went in, none twice, none invented,    *)
(* none lost unless the whole channel is emptied.                          *)
(***************************************************************************)
EXTENDS Naturals, Sequences

CONSTANTS Item, Capacity

VARIABLES
  pending,   \* items sent and not yet received
  taken      \* what the last receive returned

Init == pending = << >> /\ taken = << >>

\* New items go behind the pending ones.
Send ==
  /\ pending' \in Seq(Item) /\ Len(pending') \in Len(pending)..Capacity
  /\ SubSeq(pending', 1, Len(pending)) = pending
  /\ UNCHANGED taken

Receive(n) ==
  /\ taken' = SubSeq(pending, 1, n)
  /\ pending' = SubSeq(pending, n + 1, Len(pending))

Empty == pending' = << >> /\ UNCHANGED taken

Next == Send \/ (\E n \in 0..Len(pending) : Receive(n)) \/ Empty

Spec == Init /\ [][Next]_<<pending, taken>>
=============================================================================
