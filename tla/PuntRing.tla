------------------------------ MODULE PuntRing ------------------------------
(***************************************************************************)
(* The punt rings of the punt plugin (plugins/osvbng_punt): every VPP      *)
(* thread appends the control packets it meets to a ring of its own in     *)
(* shared memory (osvbng_punt_to_shm) and the osvbng daemon drains them    *)
(* all.  One eventfd serves every ring; a thread writes it on the 0 to 1   *)
(* edge of its own ring's interrupt_pending.                               *)
(*                                                                         *)
(* The frame and its descriptor are written to separate places, then head  *)
(* is published, then the flag is exchanged (a full barrier): each is a    *)
(* step.  The daemon is not in this repository; it is the consumer that    *)
(* the ring's comments describe and osvbng_egress_node mirrors.            *)
(***************************************************************************)
EXTENDS Naturals, Sequences

CONSTANTS
  Threads,       \* VPP threads
  Frames,        \* packets that may be punted
  PuntRingSize,  \* punt_ring_size, a power of two
  MaxPunts       \* bound: packets published on one ring

ASSUME PuntAssumption ==
  /\ PuntRingSize \in Nat \ {0}
  /\ MaxPunts \in Nat
  /\ Frames # {}

VARIABLES
  heads, tails, \* cursors of each ring
  flags,        \* interrupt_pending of each ring
  data, desc,   \* data slots and descriptors of each ring
  puntEvt,      \* the punt eventfd's counter is not zero
  pc,           \* "idle", "copy", "desc", "publish", "signal", per thread
  frame,        \* the packet the thread is punting
  at,           \* the head the thread loaded
  todo,         \* rings the daemon has still to visit
  awake         \* the daemon is in a round of visits

rings == <<heads, tails, flags, data, desc>>
worker == <<pc, frame, at>>
puntVars == <<heads, tails, flags, data, desc, puntEvt, pc, frame, at, todo, awake>>

Slots == 0..(PuntRingSize - 1)
SlotAt(i) == i % PuntRingSize

\* osvbng_punt_get_per_thread: the ring a thread writes.
RingOf(t) == t

PuntInit ==
  /\ heads = [t \in Threads |-> 0]
  /\ tails = [t \in Threads |-> 0]
  /\ flags = [t \in Threads |-> 0]
  /\ data \in [Threads -> [Slots -> {CHOOSE f \in Frames : TRUE}]]
  /\ desc = data
  /\ puntEvt = FALSE
  /\ pc = [t \in Threads |-> "idle"]
  /\ frame \in [Threads -> {CHOOSE f \in Frames : TRUE}]
  /\ at = [t \in Threads |-> 0]
  /\ todo = {}
  /\ awake = FALSE
-----------------------------------------------------------------------------
(* A VPP thread: osvbng_punt_to_shm.                                       *)

\* Mutant: the ring counts as full one slot late.
Admit_OneMore(t, f) ==
  LET r == RingOf(t) IN
  /\ pc[t] = "idle"
  /\ heads[r] < MaxPunts
  /\ heads[r] - tails[r] <= PuntRingSize
  /\ at' = [at EXCEPT ![t] = heads[r]]
  /\ frame' = [frame EXCEPT ![t] = f]
  /\ pc' = [pc EXCEPT ![t] = "copy"]
  /\ UNCHANGED <<rings, puntEvt, todo, awake>>

\* Head and tail are loaded; on a full ring the packet is dropped and counted,
\* and nothing else changes.
Admit(t, f) ==
  LET r == RingOf(t) IN
  /\ pc[t] = "idle"
  /\ heads[r] < MaxPunts
  /\ heads[r] - tails[r] < PuntRingSize
  /\ at' = [at EXCEPT ![t] = heads[r]]
  /\ frame' = [frame EXCEPT ![t] = f]
  /\ pc' = [pc EXCEPT ![t] = "copy"]
  /\ UNCHANGED <<rings, puntEvt, todo, awake>>

CopyFrame(t) ==
  /\ pc[t] = "copy"
  /\ data' = [data EXCEPT ![RingOf(t)][SlotAt(at[t])] = frame[t]]
  /\ pc' = [pc EXCEPT ![t] = "desc"]
  /\ UNCHANGED <<heads, tails, flags, desc, puntEvt, frame, at, todo, awake>>

WriteDesc(t) ==
  /\ pc[t] = "desc"
  /\ desc' = [desc EXCEPT ![RingOf(t)][SlotAt(at[t])] = frame[t]]
  /\ pc' = [pc EXCEPT ![t] = "publish"]
  /\ UNCHANGED <<heads, tails, flags, data, puntEvt, frame, at, todo, awake>>

\* The release store of head makes the slot the daemon's.
PublishHead(t) ==
  /\ pc[t] = "publish"
  /\ heads' = [heads EXCEPT ![RingOf(t)] = at[t] + 1]
  /\ pc' = [pc EXCEPT ![t] = "signal"]
  /\ UNCHANGED <<tails, flags, data, desc, puntEvt, frame, at, todo, awake>>

\* Mutant: the eventfd is written when the flag was up already.
Signal_WrongEdge(t) ==
  /\ pc[t] = "signal"
  /\ puntEvt' = (puntEvt \/ flags[RingOf(t)] = 1)
  /\ flags' = [flags EXCEPT ![RingOf(t)] = 1]
  /\ pc' = [pc EXCEPT ![t] = "idle"]
  /\ UNCHANGED <<heads, tails, data, desc, frame, at, todo, awake>>

\* The eventfd is written on the flag's 0 to 1 edge.
Signal(t) ==
  /\ pc[t] = "signal"
  /\ puntEvt' = (puntEvt \/ flags[RingOf(t)] = 0)
  /\ flags' = [flags EXCEPT ![RingOf(t)] = 1]
  /\ pc' = [pc EXCEPT ![t] = "idle"]
  /\ UNCHANGED <<heads, tails, data, desc, frame, at, todo, awake>>
-----------------------------------------------------------------------------
(* The daemon.                                                             *)

\* It wakes on the eventfd, reads it, and visits every ring.
DaemonWake ==
  /\ ~awake
  /\ puntEvt
  /\ puntEvt' = FALSE
  /\ awake' = TRUE
  /\ todo' = Threads
  /\ UNCHANGED <<rings, worker>>

DaemonTake(t) ==
  /\ t \in todo
  /\ tails[t] # heads[t]
  /\ tails' = [tails EXCEPT ![t] = @ + 1]
  /\ UNCHANGED <<heads, flags, data, desc, puntEvt, worker, todo, awake>>

\* Empty: the flag goes down and the ring is looked at once more; frames
\* that came in between keep the ring in the round.
DaemonClear(t) ==
  /\ t \in todo
  /\ tails[t] = heads[t]
  /\ flags[t] = 1
  /\ flags' = [flags EXCEPT ![t] = 0]
  /\ UNCHANGED <<heads, tails, data, desc, puntEvt, worker, todo, awake>>

DaemonLeave(t) ==
  /\ t \in todo
  /\ tails[t] = heads[t]
  /\ flags[t] = 0
  /\ todo' = todo \ {t}
  /\ UNCHANGED <<rings, puntEvt, worker, awake>>

DaemonSleep ==
  /\ awake
  /\ todo = {}
  /\ awake' = FALSE
  /\ UNCHANGED <<rings, puntEvt, worker, todo>>
-----------------------------------------------------------------------------
Punting(t) == CopyFrame(t) \/ WriteDesc(t) \/ PublishHead(t) \/ Signal(t)

PuntDaemon == \/ DaemonWake \/ DaemonSleep
              \/ \E t \in Threads : DaemonTake(t) \/ DaemonClear(t) \/ DaemonLeave(t)

PuntNext == \/ \E t \in Threads : Punting(t) \/ \E f \in Frames : Admit(t, f)
            \/ PuntDaemon

PuntSpec == PuntInit /\ [][PuntNext]_puntVars

\* A thread that began a punt finishes it; the daemon keeps running.
PuntFairness == (\A t \in Threads : WF_puntVars(Punting(t))) /\ WF_puntVars(PuntDaemon)

PuntFairSpec == PuntSpec /\ PuntFairness
-----------------------------------------------------------------------------
PuntTypeOK ==
  /\ heads \in [Threads -> 0..MaxPunts] /\ tails \in [Threads -> Nat]
  /\ flags \in [Threads -> {0, 1}]
  /\ data \in [Threads -> [Slots -> Frames]]
  /\ desc \in [Threads -> [Slots -> Frames]]
  /\ puntEvt \in BOOLEAN /\ awake \in BOOLEAN
  /\ pc \in [Threads -> {"idle", "copy", "desc", "publish", "signal"}]
  /\ frame \in [Threads -> Frames]
  /\ at \in [Threads -> Nat]
  /\ todo \subseteq Threads

\* A published slot's descriptor describes the frame in its data slot.
Whole(t) ==
  \A i \in tails[t]..(heads[t] - 1) : data[t][SlotAt(i)] = desc[t][SlotAt(i)]

\* Published and not yet taken, oldest first.
PuntQueue == [t \in Threads |->
                [i \in 1..(heads[t] - tails[t]) |-> desc[t][SlotAt(tails[t] + i - 1)]]]

PuntFifo == INSTANCE FifoChannel WITH
  Channels <- Threads, Capacity <- PuntRingSize, queue <- PuntQueue

\* Each ring is a bounded FIFO channel: no punt overwrites, loses or repeats
\* another, whatever the other threads and the daemon do.
PuntsAreFifo == PuntFifo!Spec

\* Every packet published is read by the daemon, also when nothing follows it:
\* one eventfd shared by the rings, signalled on edges, loses no wake-up.  And
\* it is read whole: whatever the daemon may read was written by one punt.
AllDelivered ==
  /\ [](PuntTypeOK /\ \A t \in Threads : Whole(t))
  /\ \A t \in Threads : \A n \in 1..MaxPunts : heads[t] >= n ~> tails[t] >= n
=============================================================================
