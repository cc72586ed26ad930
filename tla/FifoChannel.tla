---------------------------- MODULE FifoChannel ----------------------------
(***************************************************************************)
(* What a set of shared-memory rings promises its two ends: each channel   *)
(* is a bounded first-in first-out queue.  Whatever is put in comes out,   *)
(* once, whole and in order.                                               *)
(***************************************************************************)
EXTENDS Naturals, Sequences

CONSTANTS Channels, Frames, Capacity

VARIABLE queue

Init == queue = [c \in Channels |-> <<>>]

Put(c, f) ==
  /\ Len(queue[c]) < Capacity
  /\ queue' = [queue EXCEPT ![c] = Append(@, f)]

Take(c) ==
  /\ queue[c] # <<>>
  /\ queue' = [queue EXCEPT ![c] = Tail(@)]

Next == \E c \in Channels : Take(c) \/ \E f \in Frames : Put(c, f)

Spec == Init /\ [][Next]_queue
=============================================================================
