----------------------------- MODULE RingProofs -----------------------------
(***************************************************************************)
(* Proofs about the two rings of the punt plugin: about EgressRing, for    *)
(* every ring size, batch, number of frames and interfaces, with the       *)
(* node's stores lagging or not; and about PuntRing, for every ring size   *)
(* and any number of threads, frames and punts.                            *)
(***************************************************************************)
EXTENDS EgressRing, PuntRing, Integers, SequenceTheorems, TLAPS

\* Two positions less than a lap apart fall into different slots.
LEMMA ModDistinct ==
  ASSUME NEW S \in Nat \ {0}, NEW a \in Nat, NEW b \in Nat,
         a < b, b - a < S
  PROVE  a % S # b % S
<1> DEFINE q == a \div S
           p == b \div S
<1>1. /\ q \in Int /\ p \in Int
      /\ a = S * q + (a % S) /\ b = S * p + (b % S)
  OBVIOUS
<1>2. SUFFICES ASSUME a % S = b % S PROVE FALSE
  OBVIOUS
<1>3. b - a = S * (p - q)
  BY <1>1, <1>2
<1>4. p - q \in Int /\ (p - q <= 0 \/ p - q >= 1)
  BY <1>1
<1>5. CASE p - q <= 0
  BY <1>3, <1>5, <1>1
<1>6. CASE p - q >= 1
  <2>1. S * (p - q) >= S
    BY <1>6, <1>1
  <2> QED
    BY <2>1, <1>3
<1> QED
  BY <1>4, <1>5, <1>6
-----------------------------------------------------------------------------
(* The egress ring. *)

\* The cursors: what the daemon sees of the tail never overtakes the node,
\* the node never overtakes the daemon, and the ring is never over-full.
CursorsOrdered ==
  /\ tail <= ltail /\ ltail <= head
  /\ head - tail <= RingSize
  /\ seen <= head /\ (npc = "drain" => ltail <= seen)
  /\ dpc = "publish" => head - tail < RingSize /\ head < MaxFrames

\* The stores that lag are those of the last run, in the order made; none is
\* left when a run begins.
StoresShape ==
  /\ \/ storeBuf = <<>>
     \/ storeBuf = <<[loc |-> "flag", val |-> 0]>>
     \/ storeBuf = <<[loc |-> "tail", val |-> ltail],
                     [loc |-> "flag", val |-> 0]>>
  /\ npc = "drain" => storeBuf = <<>>

\* The slot about to be published holds the frame of that number.
Filled == dpc = "publish" => slots[Slot(head)].n = head

EgressInv == TypeOK /\ CursorsOrdered /\ SlotsIntact /\ Filled /\ StoresShape
-----------------------------------------------------------------------------
LEMMA SlotRange == ASSUME NEW a \in Nat PROVE Slot(a) \in 0..(RingSize - 1)
  BY EgressAssumption DEF Slot

LEMMA SlotDistinct ==
  ASSUME NEW a \in Nat, NEW b \in Nat, a < b, b - a < RingSize
  PROVE  Slot(a) # Slot(b)
  BY ModDistinct, EgressAssumption DEF Slot
-----------------------------------------------------------------------------
LEMMA InitInv == Init => EgressInv
<1> SUFFICES ASSUME Init PROVE EgressInv
  OBVIOUS
<1> USE EgressAssumption DEF Init
<1>1. NoFrame \in Frame
  BY DEF NoFrame, Frame
<1>2. TypeOK
  <2>1. slots \in [0..(RingSize - 1) -> Frame]
    BY <1>1
  <2>2. pending \in [Nodes -> Seq(Frame)] /\ out \in [Nodes -> Seq(Frame)]
    OBVIOUS
  <2>3. storeBuf \in Seq(Store)
    OBVIOUS
  <2> QED
    BY <2>1, <2>2, <2>3 DEF TypeOK
<1> QED
  BY <1>2 DEF EgressInv, CursorsOrdered, SlotsIntact, StoresShape, Filled

\* What the pending vectors and the output nodes hold stays well typed.
LEMMA GatherType ==
  ASSUME TypeOK, NEW f \in Frame, Gather(f)
  PROVE  /\ pending' \in [Nodes -> Seq(Frame)]
         /\ out' \in [Nodes -> Seq(Frame)]
<1> DEFINE d == OutputNode[f.ifc]
<1>1. d \in Nodes
  BY EgressAssumption DEF Frame
<1>2. /\ pending \in [Nodes -> Seq(Frame)] /\ out \in [Nodes -> Seq(Frame)]
      /\ pending[d] \in Seq(Frame) /\ out[d] \in Seq(Frame)
  BY <1>1 DEF TypeOK
<1>3. /\ Append(out[d], f) \in Seq(Frame)
      /\ Append(pending[d], f) \in Seq(Frame)
      /\ out[d] \o Append(pending[d], f) \in Seq(Frame)
      /\ <<>> \in Seq(Frame)
  BY <1>2
<1> QED
  BY <1>2, <1>3 DEF Gather

LEMMA FlushedType == TypeOK => Flushed \in [Nodes -> Seq(Frame)]
<1> SUFFICES ASSUME TypeOK PROVE Flushed \in [Nodes -> Seq(Frame)]
  OBVIOUS
<1>1. ASSUME NEW d \in Nodes PROVE out[d] \o pending[d] \in Seq(Frame)
  BY DEF TypeOK
<1> QED
  BY <1>1 DEF Flushed

LEMMA NextInv == EgressInv /\ [Next]_vars => EgressInv'
<1> SUFFICES ASSUME EgressInv, [Next]_vars PROVE EgressInv'
  OBVIOUS
<1> USE EgressAssumption
<1>0. TypeOK /\ CursorsOrdered /\ SlotsIntact /\ Filled /\ StoresShape
  BY DEF EgressInv
<1>slot. ASSUME NEW a \in Nat PROVE slots[Slot(a)] \in Frame
  BY <1>0, SlotRange DEF TypeOK
<1>1. ASSUME NEW i \in Ifaces, DaemonFill(i) PROVE EgressInv'
  <2> DEFINE f == [ifc |-> i, n |-> head]
  <2>0. head \in 0..MaxFrames /\ head \in Nat
    BY <1>0 DEF TypeOK
  <2>1. f \in Frame /\ Slot(head) \in 0..(RingSize - 1)
    <3>1. f \in Frame
      BY <2>0 DEF Frame
    <3> QED
      BY <2>0, <3>1, SlotRange
  <2>2. TypeOK'
    BY <1>1, <1>0, <2>1 DEF TypeOK, DaemonFill, node
  <2>3. CursorsOrdered'
    BY <1>1, <1>0 DEF TypeOK, DaemonFill, node, CursorsOrdered
  <2>4. SlotsIntact'
    <3> SUFFICES ASSUME NEW a \in ltail..(head - 1)
                 PROVE  slots'[Slot(a)].n = a
      BY <1>1 DEF SlotsIntact, DaemonFill, node
    <3>1. a \in Nat /\ a < head /\ head - a < RingSize
      BY <1>0, <1>1 DEF TypeOK, CursorsOrdered, DaemonFill
    <3>2. Slot(a) # Slot(head)
      BY <3>1, <1>0, SlotDistinct DEF TypeOK
    <3>3. slots'[Slot(a)] = slots[Slot(a)]
      BY <3>2, <3>1, <1>1, <1>0, SlotRange DEF DaemonFill, TypeOK
    <3> QED
      BY <3>3, <1>0 DEF SlotsIntact
  <2>5. StoresShape'
    BY <1>1, <1>0 DEF StoresShape, DaemonFill, node
  <2>6. Filled'
    BY <1>1, <1>0, <2>1 DEF Filled, DaemonFill, TypeOK
  <2> QED
    BY <2>2, <2>3, <2>4, <2>5, <2>6 DEF EgressInv
<1>2. CASE DaemonPublish
  <2>1. TypeOK'
    BY <1>0, <1>2 DEF TypeOK, CursorsOrdered, DaemonPublish, node
  <2>2. CursorsOrdered'
    BY <1>0, <1>2 DEF TypeOK, CursorsOrdered, DaemonPublish, node
  <2>3. SlotsIntact'
    <3> SUFFICES ASSUME NEW a \in ltail..head PROVE slots[Slot(a)].n = a
      BY <1>0, <1>2 DEF SlotsIntact, DaemonPublish, node, TypeOK
    <3>1. CASE a = head
      BY <3>1, <1>0, <1>2 DEF Filled, DaemonPublish
    <3>2. CASE a # head
      BY <3>2, <1>0 DEF SlotsIntact, TypeOK
    <3> QED
      BY <3>1, <3>2
  <2>4. Filled' /\ StoresShape'
    BY <1>0, <1>2 DEF Filled, StoresShape, DaemonPublish, node
  <2> QED
    BY <2>1, <2>2, <2>3, <2>4 DEF EgressInv
<1>3. CASE DaemonSignal
  <2>1. TypeOK' /\ CursorsOrdered'
    BY <1>0, <1>3 DEF TypeOK, CursorsOrdered, DaemonSignal, node
  <2>2. SlotsIntact' /\ Filled' /\ StoresShape'
    BY <1>0, <1>3 DEF SlotsIntact, Filled, StoresShape, DaemonSignal, node
  <2> QED
    BY <2>1, <2>2 DEF EgressInv
<1>4. CASE EventHandler
  <2>1. TypeOK' /\ CursorsOrdered'
    BY <1>0, <1>4 DEF TypeOK, CursorsOrdered, EventHandler, ring, daemon, node
  <2>2. SlotsIntact' /\ Filled' /\ StoresShape'
    BY <1>0, <1>4
    DEF SlotsIntact, Filled, StoresShape, EventHandler, ring, daemon, node
  <2> QED
    BY <2>1, <2>2 DEF EgressInv
<1>5. ASSUME NEW i \in Ifaces, SetInterface(i) PROVE EgressInv'
  <2>1. TypeOK' /\ CursorsOrdered'
    BY <1>0, <1>5 DEF TypeOK, CursorsOrdered, SetInterface, ring, daemon, node
  <2>2. SlotsIntact' /\ Filled' /\ StoresShape'
    BY <1>0, <1>5
    DEF SlotsIntact, Filled, StoresShape, SetInterface, ring, daemon, node
  <2> QED
    BY <2>1, <2>2 DEF EgressInv
<1>6. CASE NodeStart
  <2>1. TypeOK'
    <3>1. seen' \in Nat /\ ntx' \in 0..Batch
      BY <1>0, <1>6 DEF TypeOK, NodeStart
    <3>2. irq' \in BOOLEAN
      BY <1>6 DEF NodeStart
    <3>3. npc' \in {"idle", "drain", "recheck"}
      BY <1>6 DEF NodeStart
    <3> QED
      BY <1>0, <1>6, <3>1, <3>2, <3>3 DEF TypeOK, NodeStart, ring, daemon
  <2>2. CursorsOrdered'
    BY <1>0, <1>6 DEF TypeOK, CursorsOrdered, NodeStart, ring, daemon
  <2>3. SlotsIntact' /\ Filled' /\ StoresShape'
    BY <1>0, <1>6 DEF SlotsIntact, Filled, StoresShape, NodeStart, ring, daemon
  <2> QED
    BY <2>1, <2>2, <2>3 DEF EgressInv
<1>7. CASE NodeSkip
  <2>1. ltail \in Nat /\ slots[Slot(ltail)] \in Frame
    BY <1>0, <1>slot DEF TypeOK
  <2>2. TypeOK'
    BY <1>0, <1>7, <2>1 DEF TypeOK, NodeSkip, ring, daemon
  <2>3. CursorsOrdered'
    BY <1>0, <1>7 DEF TypeOK, CursorsOrdered, NodeSkip, Draining, ring, daemon
  <2>4. SlotsIntact'
    BY <1>0, <1>7 DEF TypeOK, SlotsIntact, NodeSkip, Draining, ring, daemon
  <2>5. Filled' /\ StoresShape'
    BY <1>0, <1>7 DEF Filled, StoresShape, NodeSkip, Draining, ring, daemon
  <2> QED
    BY <2>2, <2>3, <2>4, <2>5 DEF EgressInv
<1>8. CASE NodeSend
  <2>1. ltail \in Nat /\ slots[Slot(ltail)] \in Frame
    BY <1>0, <1>slot DEF TypeOK
  <2>2. /\ pending' \in [Nodes -> Seq(Frame)]
        /\ out' \in [Nodes -> Seq(Frame)]
    BY <1>0, <1>8, <2>1, GatherType DEF NodeSend
  <2>3. TypeOK'
    BY <1>0, <1>8, <2>1, <2>2 DEF TypeOK, NodeSend, Draining, ring, daemon
  <2>4. CursorsOrdered'
    BY <1>0, <1>8 DEF TypeOK, CursorsOrdered, NodeSend, Draining, ring, daemon
  <2>5. SlotsIntact'
    BY <1>0, <1>8 DEF TypeOK, SlotsIntact, NodeSend, Draining, ring, daemon
  <2>6. Filled' /\ StoresShape'
    BY <1>0, <1>8 DEF Filled, StoresShape, NodeSend, Draining, ring, daemon
  <2> QED
    BY <2>3, <2>4, <2>5, <2>6 DEF EgressInv
<1>9. CASE NodeFinish
  <2> DEFINE st == <<[loc |-> "tail", val |-> ltail],
                     [loc |-> "flag", val |-> 0]>>
  <2>1. storeBuf' = st
    BY <1>0, <1>9 DEF NodeFinish, StoresShape
  <2>2. st \in Seq(Store)
    BY <1>0 DEF TypeOK, Store
  <2>3. [d \in Nodes |-> <<>>] \in [Nodes -> Seq(Frame)]
    OBVIOUS
  <2>4. TypeOK'
    BY <1>0, <1>9, <2>1, <2>2, <2>3, FlushedType
    DEF TypeOK, NodeFinish, ring, daemon
  <2>5. CursorsOrdered'
    BY <1>0, <1>9 DEF TypeOK, CursorsOrdered, NodeFinish, ring, daemon
  <2>6. SlotsIntact' /\ Filled'
    BY <1>0, <1>9 DEF SlotsIntact, Filled, NodeFinish, ring, daemon
  <2>7. StoresShape'
    BY <1>9, <2>1 DEF StoresShape, NodeFinish
  <2> QED
    BY <2>4, <2>5, <2>6, <2>7 DEF EgressInv
<1>10. CASE FlushStore
  <2> DEFINE ft == [loc |-> "tail", val |-> ltail]
             ff == [loc |-> "flag", val |-> 0]
  <2>1. \/ storeBuf = <<ff>> /\ tail' = tail /\ flag' = 0 /\ storeBuf' = <<>>
        \/ /\ storeBuf = <<ft, ff>> /\ tail' = ltail /\ flag' = flag
           /\ storeBuf' = <<ff>>
    <3>1. /\ ft.loc = "tail" /\ ft.val = ltail
          /\ ff.loc = "flag" /\ ff.val = 0
      OBVIOUS
    <3>2. CASE storeBuf = <<ff>>
      <4>1. Head(storeBuf) = ff /\ Tail(storeBuf) = <<>>
        BY <3>2
      <4> QED
        BY <3>1, <3>2, <4>1, <1>10 DEF FlushStore
    <3>3. CASE storeBuf = <<ft, ff>>
      <4>1. Head(storeBuf) = ft /\ Tail(storeBuf) = <<ff>>
        BY <3>3
      <4> QED
        BY <3>1, <3>3, <4>1, <1>10 DEF FlushStore
    <3>4. storeBuf = <<ff>> \/ storeBuf = <<ft, ff>>
      BY <1>0, <1>10 DEF StoresShape, FlushStore
    <3> QED
      BY <3>2, <3>3, <3>4
  <2>2. <<ff>> \in Seq(Store) /\ <<>> \in Seq(Store)
    BY DEF Store
  <2>3. TypeOK'
    BY <1>0, <1>10, <2>1, <2>2 DEF TypeOK, FlushStore, daemon, node
  <2>4. CursorsOrdered'
    BY <1>0, <1>10, <2>1 DEF TypeOK, CursorsOrdered, FlushStore, daemon, node
  <2>5. SlotsIntact' /\ Filled'
    BY <1>0, <1>10 DEF SlotsIntact, Filled, FlushStore, daemon, node
  <2>6. StoresShape'
    BY <1>0, <1>10, <2>1 DEF StoresShape, FlushStore, node
  <2> QED
    BY <2>3, <2>4, <2>5, <2>6 DEF EgressInv
<1>11. CASE NodeRecheck
  <2>1. TypeOK' /\ CursorsOrdered'
    BY <1>0, <1>11 DEF TypeOK, CursorsOrdered, NodeRecheck, ring, daemon
  <2>2. SlotsIntact' /\ Filled' /\ StoresShape'
    BY <1>0, <1>11
    DEF SlotsIntact, Filled, StoresShape, NodeRecheck, ring, daemon
  <2> QED
    BY <2>1, <2>2 DEF EgressInv
<1>12. CASE UNCHANGED vars
  BY <1>0, <1>12
  DEF EgressInv, TypeOK, CursorsOrdered, SlotsIntact, Filled, StoresShape, vars
<1> QED
  BY <1>1, <1>2, <1>3, <1>4, <1>5, <1>6, <1>7, <1>8, <1>9, <1>10, <1>11, <1>12
  DEF Next, Daemon, Node

\* The invariant the other theorems rest on, for every instance.
THEOREM RingInvariant == Spec => []EgressInv
  BY InitInv, NextInv, PTL DEF Spec

\* Type correctness of the egress ring.
THEOREM RingTypes == Spec => []TypeOK
<1>1. EgressInv => TypeOK
  BY DEF EgressInv
<1> QED
  BY <1>1, RingInvariant, PTL

\* No frame the node has yet to read is overwritten, for every ring size.
THEOREM NoOverwrite == Spec => []SlotsIntact
<1>1. EgressInv => SlotsIntact
  BY DEF EgressInv
<1> QED
  BY <1>1, RingInvariant, PTL
-----------------------------------------------------------------------------
(* The ring implements the channel.  Publishing appends, dequeuing takes,  *)
(* and every other step leaves the queue as it was.                        *)

LEMMA QueueType ==
  ASSUME EgressInv
  PROVE  /\ head - ltail \in Nat
         /\ Queue["egress"] \in Seq(Frame)
         /\ Len(Queue["egress"]) = head - ltail
<1>1. head \in Nat /\ ltail \in Nat /\ ltail <= head
  BY EgressAssumption DEF EgressInv, TypeOK, CursorsOrdered
<1>2. ASSUME NEW i \in 1..(head - ltail)
      PROVE  slots[Slot(ltail + i - 1)] \in Frame
  <2>1. ltail + i - 1 \in Nat
    BY <1>1
  <2> QED
    BY <2>1, SlotRange DEF EgressInv, TypeOK
<1>3. head - ltail \in Nat
  BY <1>1
<1> QED
  BY <1>2, <1>3 DEF Queue

\* A step that keeps both cursors and the slots between them keeps the queue.
LEMMA QueueKept ==
  ASSUME EgressInv, head' = head, ltail' = ltail,
         \A a \in ltail..(head - 1) : slots'[Slot(a)] = slots[Slot(a)]
  PROVE  Queue' = Queue
<1>1. head \in Nat /\ ltail \in Nat
  BY EgressAssumption DEF EgressInv, TypeOK
<1>2. ASSUME NEW i \in 1..(head - ltail)
      PROVE  slots'[Slot(ltail + i - 1)] = slots[Slot(ltail + i - 1)]
  <2>1. ltail + i - 1 \in ltail..(head - 1)
    BY <1>1
  <2> QED
    BY <2>1
<1> QED
  BY <1>2 DEF Queue, Slot

LEMMA PublishPuts ==
  ASSUME EgressInv, dpc = "publish",
         head' = head + 1, ltail' = ltail, slots' = slots
  PROVE  Fifo!Put("egress", slots[Slot(head)])
<1> DEFINE q == Queue["egress"]
<1>1. /\ head \in Nat /\ ltail \in Nat /\ tail \in Nat /\ ltail <= head
      /\ tail <= ltail /\ head - tail < RingSize /\ RingSize \in Nat
  BY EgressAssumption DEF EgressInv, TypeOK, CursorsOrdered
<1>2. Len(q) < RingSize
  BY <1>1, QueueType
<1>3. slots[Slot(head)] \in Frame
  BY <1>1, SlotRange DEF EgressInv, TypeOK
<1>4. Queue'["egress"] = Append(q, slots[Slot(head)])
  <2>1. Queue'["egress"]
          = [i \in 1..(head' - ltail') |-> slots'[Slot(ltail' + i - 1)]]
    BY DEF Queue, Slot
  <2>2. q = [i \in 1..(head - ltail) |-> slots[Slot(ltail + i - 1)]]
    BY DEF Queue
  <2>3. Append(q, slots[Slot(head)])
          = [i \in 1..(head - ltail + 1) |->
               IF i = head - ltail + 1 THEN slots[Slot(head)] ELSE q[i]]
    BY QueueType, <1>3
  <2>4. ASSUME NEW i \in 1..(head - ltail + 1)
        PROVE  slots'[Slot(ltail' + i - 1)]
                 = IF i = head - ltail + 1 THEN slots[Slot(head)] ELSE q[i]
    <3>1. CASE i = head - ltail + 1
      <4>1. ltail' + i - 1 = head
        BY <3>1, <1>1
      <4> QED
        BY <3>1, <4>1
    <3>2. CASE i # head - ltail + 1
      <4>1. i \in 1..(head - ltail)
        BY <3>2, <1>1
      <4> QED
        BY <3>2, <4>1, <2>2
    <3> QED
      BY <3>1, <3>2
  <2>5. head' - ltail' = head - ltail + 1
    BY <1>1
  <2> QED
    BY <2>1, <2>3, <2>4, <2>5
<1>5. Queue' = [Queue EXCEPT !["egress"] = Append(@, slots[Slot(head)])]
  BY <1>4 DEF Queue
<1> QED
  BY <1>2, <1>5 DEF Fifo!Put

LEMMA DequeueTakes ==
  ASSUME EgressInv, ltail < head, ltail' = ltail + 1, head' = head, slots' = slots
  PROVE  Fifo!Take("egress")
<1> DEFINE q == Queue["egress"]
<1>1. head \in Nat /\ ltail \in Nat
  BY EgressAssumption DEF EgressInv, TypeOK
<1>2. q \in Seq(Frame) /\ Len(q) = head - ltail /\ head - ltail >= 1
  BY <1>1, QueueType
<1>3. q # <<>>
  BY <1>2
<1>4. Queue'["egress"] = Tail(q)
  <2>1. Queue'["egress"]
          = [i \in 1..(head - (ltail + 1)) |-> slots[Slot(ltail + 1 + i - 1)]]
    BY DEF Queue, Slot
  <2>2. Tail(q) = [i \in 1..(head - ltail - 1) |-> q[i + 1]]
    BY <1>2, <1>3
  <2>3. ASSUME NEW i \in 1..(head - ltail - 1)
        PROVE  q[i + 1] = slots[Slot(ltail + 1 + i - 1)]
    <3>1. i + 1 \in 1..(head - ltail) /\ ltail + (i + 1) - 1 = ltail + 1 + i - 1
      BY <1>1
    <3> QED
      BY <3>1 DEF Queue
  <2>4. head - (ltail + 1) = head - ltail - 1
    BY <1>1
  <2> QED
    BY <2>1, <2>2, <2>3, <2>4
<1>5. Queue' = [Queue EXCEPT !["egress"] = Tail(@)]
  BY <1>4 DEF Queue
<1> QED
  BY <1>3, <1>5 DEF Fifo!Take

LEMMA InitFifo == Init => Fifo!Init
<1> SUFFICES ASSUME Init PROVE Fifo!Init
  OBVIOUS
<1>1. [i \in 1..(head - ltail) |-> slots[Slot(ltail + i - 1)]] = <<>>
  BY DEF Init
<1> QED
  BY <1>1 DEF Fifo!Init, Queue

LEMMA NextFifo == EgressInv /\ [Next]_vars => [Fifo!Next]_Queue
<1> SUFFICES ASSUME EgressInv, [Next]_vars PROVE [Fifo!Next]_Queue
  OBVIOUS
<1>0. /\ head \in Nat /\ ltail \in Nat /\ tail \in Nat /\ seen \in Nat
      /\ ltail <= head /\ tail <= ltail /\ seen <= head
      /\ npc = "drain" => ltail <= seen
  BY EgressAssumption DEF EgressInv, TypeOK, CursorsOrdered
<1>1. ASSUME NEW i \in Ifaces, DaemonFill(i) PROVE Queue' = Queue
  <2>1. ASSUME NEW a \in ltail..(head - 1)
        PROVE  slots'[Slot(a)] = slots[Slot(a)]
    <3>1. a \in Nat /\ a < head /\ head - a < RingSize
      BY <1>0, <1>1, EgressAssumption DEF DaemonFill
    <3>2. Slot(a) # Slot(head) /\ Slot(a) \in 0..(RingSize - 1)
      BY <3>1, <1>0, SlotDistinct, SlotRange
    <3> QED
      BY <3>2, <1>1 DEF DaemonFill, EgressInv, TypeOK
  <2> QED
    BY <2>1, <1>1, QueueKept DEF DaemonFill, node
<1>2. CASE DaemonPublish
  <2>1. slots[Slot(head)] \in Frame
    BY <1>0, SlotRange DEF EgressInv, TypeOK
  <2> QED
    BY <1>2, <2>1, PublishPuts DEF Fifo!Next, DaemonPublish, node
<1>3. CASE NodeSkip \/ NodeSend
  <2>1. /\ ltail < head /\ ltail' = ltail + 1 /\ head' = head
        /\ slots' = slots
    BY <1>3, <1>0 DEF NodeSkip, NodeSend, Draining, ring
  <2> QED
    BY <2>1, DequeueTakes DEF Fifo!Next
<1>4. CASE \/ DaemonSignal \/ EventHandler \/ NodeStart \/ NodeFinish
           \/ FlushStore \/ NodeRecheck \/ UNCHANGED vars
           \/ \E i \in Ifaces : SetInterface(i)
  <2>1. head' = head /\ ltail' = ltail /\ slots' = slots
    BY <1>4 DEF DaemonSignal, EventHandler, NodeStart, NodeFinish, FlushStore,
                NodeRecheck, SetInterface, vars, ring, node
  <2> QED
    BY <2>1, QueueKept
<1> QED
  BY <1>1, <1>2, <1>3, <1>4 DEF Next, Daemon, Node

\* The egress ring implements a bounded FIFO channel, whatever its size and
\* however the daemon, the node and the node's stores interleave.
THEOREM RingIsFifo == Spec => IsFifo
  BY InitFifo, NextFifo, RingInvariant, PTL DEF Spec, IsFifo, Fifo!Spec
-----------------------------------------------------------------------------
(* What leaves the node.  A frame is appended to what leaves through its   *)
(* output node whichever way it takes, and the end of a run moves frames   *)
(* from the vectors to the nodes without changing what leaves.             *)

\* The numbers of the frames that leave through an output node.
Numbers(d) == {Leaving(d)[i].n : i \in DOMAIN Leaving(d)}

\* Every frame that left is one the node is past.
LeftBehind == \A d \in Nodes : \A i \in DOMAIN Leaving(d) : Leaving(d)[i].n < ltail

OutInv == EgressInv /\ LeftBehind /\ OrderKept /\ AllAccounted

LEMMA LeavingType ==
  ASSUME TypeOK, NEW d \in Nodes
  PROVE  /\ Leaving(d) \in Seq(Frame) /\ out[d] \in Seq(Frame) /\ pending[d] \in Seq(Frame)
         /\ Len(Leaving(d)) \in Nat /\ DOMAIN Leaving(d) = 1..Len(Leaving(d))
         /\ \A i \in DOMAIN Leaving(d) : Leaving(d)[i] \in Frame
<1>1. out[d] \in Seq(Frame) /\ pending[d] \in Seq(Frame)
  BY DEF TypeOK
<1>2. Leaving(d) \in Seq(Frame)
  BY <1>1, ConcatProperties DEF Leaving
<1> QED BY <1>1, <1>2, LenProperties, ElementOfSeq

LEMMA ConcatAppend ==
  ASSUME NEW s \in Seq(Frame), NEW t \in Seq(Frame), NEW f \in Frame
  PROVE  s \o Append(t, f) = Append(s \o t, f)
<1>1. /\ Append(t, f) \in Seq(Frame) /\ Len(Append(t, f)) = Len(t) + 1
      /\ \A i \in 1..(Len(t) + 1) : Append(t, f)[i] = IF i = Len(t) + 1 THEN f ELSE t[i]
  OBVIOUS
<1>2. Len(s) \in Nat /\ Len(t) \in Nat
  OBVIOUS
<1>3. PICK u \in Seq(Frame) : u = Append(t, f)
  BY <1>1
<1>4. PICK v \in Seq(Frame) : v = s \o t
  BY ConcatProperties
<1>5. /\ s \o u \in Seq(Frame) /\ Len(s \o u) = Len(s) + Len(u)
      /\ \A i \in 1..(Len(s) + Len(u)) : (s \o u)[i] = IF i <= Len(s) THEN s[i] ELSE u[i - Len(s)]
  BY ConcatProperties
<1>6. /\ Len(v) = Len(s) + Len(t)
      /\ \A i \in 1..(Len(s) + Len(t)) : v[i] = IF i <= Len(s) THEN s[i] ELSE t[i - Len(s)]
  BY <1>4, ConcatProperties
<1>7. /\ Append(v, f) \in Seq(Frame) /\ Len(Append(v, f)) = Len(v) + 1
      /\ \A i \in 1..(Len(v) + 1) : Append(v, f)[i] = IF i = Len(v) + 1 THEN f ELSE v[i]
  OBVIOUS
<1>8. PICK x \in Seq(Frame), y \in Seq(Frame) : x = s \o u /\ y = Append(v, f)
  BY <1>5, <1>7
<1>9. Len(x) = Len(s) + Len(t) + 1 /\ Len(y) = Len(x)
  BY <1>1, <1>2, <1>3, <1>5, <1>6, <1>7, <1>8
<1>10. ASSUME NEW i \in 1..Len(x) PROVE x[i] = y[i]
  <2>1. x[i] = IF i <= Len(s) THEN s[i] ELSE u[i - Len(s)]
    BY <1>1, <1>2, <1>3, <1>5, <1>8, <1>9
  <2>2. y[i] = IF i = Len(s) + Len(t) + 1 THEN f ELSE v[i]
    BY <1>2, <1>6, <1>7, <1>8, <1>9
  <2>3. CASE i <= Len(s)
    BY <1>2, <1>6, <1>9, <2>1, <2>2, <2>3
  <2>4. CASE i > Len(s)
    <3>1. i - Len(s) \in 1..(Len(t) + 1)
      BY <1>2, <1>9, <2>4
    <3>2. u[i - Len(s)] = IF i = Len(s) + Len(t) + 1 THEN f ELSE t[i - Len(s)]
      BY <1>1, <1>2, <1>3, <3>1
    <3>3. i # Len(s) + Len(t) + 1 => v[i] = t[i - Len(s)]
      <4>1. i # Len(s) + Len(t) + 1 => i \in 1..(Len(s) + Len(t)) /\ ~(i <= Len(s))
        BY <1>2, <1>9, <2>4
      <4> QED BY <1>6, <4>1
    <3> QED BY <1>2, <2>1, <2>2, <2>4, <3>2, <3>3
  <2> QED BY <1>2, <1>9, <2>3, <2>4
<1>11. x = y
  BY <1>9, <1>10, SeqEqual
<1> QED BY <1>3, <1>4, <1>8, <1>11

\* The frame goes behind what is already on its way to the output node.
LEMMA GatherAppends ==
  ASSUME TypeOK, NEW f \in Frame, Gather(f), NEW d \in Nodes
  PROVE  Leaving(d)' = IF d = OutputNode[f.ifc] THEN Append(Leaving(d), f) ELSE Leaving(d)
<1> DEFINE o == OutputNode[f.ifc]
<1>1. out \in [Nodes -> Seq(Frame)] /\ pending \in [Nodes -> Seq(Frame)] /\ o \in Nodes
  BY EgressAssumption DEF TypeOK, Frame
<1>2. CASE d # o
  <2>1. out'[d] = out[d] /\ pending'[d] = pending[d]
    BY <1>1, <1>2 DEF Gather
  <2> QED BY <1>2, <2>1 DEF Leaving
<1>3. CASE d = o
  <2>1. out[d] \in Seq(Frame) /\ pending[d] \in Seq(Frame) /\ <<f>> \in Seq(Frame)
    BY <1>1
  <2>2. \A s \in Seq(Frame) : Append(s, f) = s \o <<f>> /\ Append(s, f) \in Seq(Frame)
    BY <2>1
  <2>3. /\ Append(out[d], f) \o <<>> = Append(out[d], f)
        /\ (out[d] \o Append(pending[d], f)) \o <<>> = out[d] \o Append(pending[d], f)
        /\ out[d] \o <<>> = out[d]
    BY <2>1, <2>2, ConcatEmptySeq, ConcatProperties
  <2>4. out[d] \o Append(pending[d], f) = Append(Leaving(d), f)
    BY <2>1, ConcatAppend DEF Leaving
  <2>5. CASE d \notin Open /\ out' = [out EXCEPT ![d] = Append(@, f)] /\ UNCHANGED pending
    <3>1. pending[d] = <<>> /\ pending'[d] = <<>> /\ out'[d] = Append(out[d], f)
      BY <1>1, <2>5 DEF Open
    <3> QED BY <1>3, <2>3, <3>1 DEF Leaving
  <2>6. CASE pending' = [pending EXCEPT ![d] = Append(@, f)] /\ UNCHANGED out
    <3>1. pending'[d] = Append(pending[d], f) /\ out'[d] = out[d]
      BY <1>1, <2>6
    <3> QED BY <1>3, <2>4, <3>1 DEF Leaving
  <2>7. CASE /\ out' = [out EXCEPT ![d] = @ \o Append(pending[d], f)]
             /\ pending' = [pending EXCEPT ![d] = <<>>]
    <3>1. pending'[d] = <<>> /\ out'[d] = out[d] \o Append(pending[d], f)
      BY <1>1, <2>7
    <3> QED BY <1>3, <2>3, <2>4, <3>1 DEF Leaving
  <2> QED BY <1>3, <2>5, <2>6, <2>7 DEF Gather
<1> QED BY <1>2, <1>3

\* A frame behind all others keeps the order and adds its number.
LEMMA AppendOrdered ==
  ASSUME NEW s \in Seq(Frame), NEW f \in Frame,
         \A i \in DOMAIN s : s[i].n < f.n,
         \A i, j \in DOMAIN s : i < j => s[i].n < s[j].n
  PROVE  LET t == Append(s, f) IN
         /\ \A i \in DOMAIN t : t[i].n < f.n + 1
         /\ \A i, j \in DOMAIN t : i < j => t[i].n < t[j].n
         /\ {t[i].n : i \in DOMAIN t} = {s[i].n : i \in DOMAIN s} \cup {f.n}
<1> DEFINE t == Append(s, f)
<1>1. /\ Len(s) \in Nat /\ DOMAIN s = 1..Len(s) /\ DOMAIN t = 1..(Len(s) + 1)
      /\ t[Len(s) + 1] = f /\ \A i \in 1..Len(s) : t[i] = s[i]
  <2>1. Len(s) \in Nat /\ DOMAIN s = 1..Len(s)
    BY LenProperties
  <2> QED BY <2>1
<1>2. f.n \in Nat /\ \A i \in DOMAIN s : s[i].n \in Nat
  <2>1. \A i \in DOMAIN s : s[i] \in Frame
    BY ElementOfSeq, LenProperties
  <2>2. \A g \in Frame : g.n \in Nat
    BY EgressAssumption DEF Frame
  <2> QED BY <2>1, <2>2
<1>3. DOMAIN t = DOMAIN s \cup {Len(s) + 1} /\ \A i \in DOMAIN s : i < Len(s) + 1
  BY <1>1
<1> HIDE DEF t
<1>4. \A i \in DOMAIN t : t[i].n < f.n + 1
  BY <1>1, <1>2, <1>3
<1>5. ASSUME NEW i \in DOMAIN t, NEW j \in DOMAIN t, i < j PROVE t[i].n < t[j].n
  <2>1. i \in DOMAIN s /\ t[i] = s[i]
    BY <1>1, <1>3, <1>5
  <2>2. CASE j = Len(s) + 1
    BY <1>1, <2>1, <2>2
  <2>3. CASE j \in DOMAIN s
    BY <1>1, <1>5, <2>1, <2>3
  <2> QED BY <1>3, <2>2, <2>3
<1>6. {t[i].n : i \in DOMAIN t} = {s[i].n : i \in DOMAIN s} \cup {f.n}
  BY <1>1, <1>3
<1> QED BY <1>4, <1>5, <1>6 DEF t

LEMMA OutInit == Init => OutInv
<1> SUFFICES ASSUME Init PROVE OutInv
  OBVIOUS
<1>1. EgressInv
  BY InitInv
<1>2. ASSUME NEW d \in Nodes PROVE Leaving(d) = <<>>
  <2>1. out[d] = <<>> /\ pending[d] = <<>>
    BY DEF Init
  <2> QED BY <2>1, EmptySeq, ConcatEmptySeq DEF Leaving
<1>3. ltail = 0 /\ skipped = {}
  BY DEF Init
<1>4. LeftBehind /\ OrderKept
  BY <1>2 DEF LeftBehind, OrderKept
<1>5. AllAccounted
  <2>1. 0..(ltail - 1) = {}
    BY <1>3
  <2> QED BY <1>2, <1>3, <2>1 DEF AllAccounted
<1> QED BY <1>1, <1>4, <1>5 DEF OutInv

\* A step that neither dequeues nor changes what leaves.
LEMMA OutKept ==
  ASSUME LeftBehind, OrderKept, AllAccounted, UNCHANGED <<ltail, skipped>>,
         \A d \in Nodes : Leaving(d)' = Leaving(d)
  PROVE  LeftBehind' /\ OrderKept' /\ AllAccounted'
<1>1. LeftBehind' /\ OrderKept'
  BY DEF LeftBehind, OrderKept
<1>2. AllAccounted'
  BY DEF AllAccounted
<1> QED BY <1>1, <1>2

LEMMA OutNext == OutInv /\ [Next]_vars => OutInv'
<1> SUFFICES ASSUME OutInv, [Next]_vars PROVE OutInv'
  OBVIOUS
<1>0. /\ TypeOK /\ CursorsOrdered /\ SlotsIntact /\ EgressInv'
      /\ LeftBehind /\ OrderKept /\ AllAccounted
  BY NextInv DEF OutInv, EgressInv
<1>1. ASSUME UNCHANGED <<ltail, skipped, out, pending>>
      PROVE  LeftBehind' /\ OrderKept' /\ AllAccounted'
  BY <1>0, <1>1, OutKept DEF Leaving
<1>2. ASSUME NodeFinish PROVE LeftBehind' /\ OrderKept' /\ AllAccounted'
  <2>1. ASSUME NEW d \in Nodes PROVE Leaving(d)' = Leaving(d)
    <3>1. out'[d] = Leaving(d) /\ pending'[d] = <<>>
      BY <1>2 DEF NodeFinish, Flushed, Leaving
    <3>2. Leaving(d) \in Seq(Frame)
      BY <1>0, LeavingType
    <3>3. Leaving(d) \o <<>> = Leaving(d)
      BY <3>2, ConcatEmptySeq
    <3> QED BY <3>1, <3>3 DEF Leaving
  <2>2. UNCHANGED <<ltail, skipped>>
    BY <1>2 DEF NodeFinish
  <2> QED BY <1>0, <2>1, <2>2, OutKept
<1>3. ASSUME NodeSkip \/ NodeSend
      PROVE  /\ ltail \in Nat /\ ltail' = ltail + 1
             /\ slots[Slot(ltail)] \in Frame /\ slots[Slot(ltail)].n = ltail
             /\ 0..(ltail' - 1) = 0..(ltail - 1) \cup {ltail}
  <2>1. ltail \in Nat /\ head \in Nat /\ ltail < head /\ ltail' = ltail + 1
    BY <1>0, <1>3, EgressAssumption DEF TypeOK, CursorsOrdered, NodeSkip, NodeSend, Draining
  <2>2. ltail \in ltail..(head - 1)
    BY <2>1
  <2>3. slots[Slot(ltail)] \in Frame
    BY <1>0, <2>1, SlotRange DEF TypeOK
  <2> QED BY <1>0, <2>1, <2>2, <2>3 DEF SlotsIntact
<1>4. ASSUME NodeSkip PROVE LeftBehind' /\ OrderKept' /\ AllAccounted'
  <2>1. /\ UNCHANGED <<out, pending>> /\ skipped' = skipped \cup {slots[Slot(ltail)]}
    BY <1>4 DEF NodeSkip
  <2>2. \A d \in Nodes : Leaving(d)' = Leaving(d)
    BY <2>1 DEF Leaving
  <2>3. \A d \in Nodes : \A i \in DOMAIN Leaving(d) : Leaving(d)[i].n \in Nat
    <3>1. \A g \in Frame : g.n \in Nat
      BY EgressAssumption DEF Frame
    <3> QED BY <1>0, <3>1, LeavingType
  <2>4. LeftBehind' /\ OrderKept'
    BY <1>0, <1>3, <1>4, <2>2, <2>3 DEF LeftBehind, OrderKept
  <2>5. {f.n : f \in skipped'} = {f.n : f \in skipped} \cup {ltail}
    BY <1>3, <1>4, <2>1
  <2>6. AllAccounted'
    <3>1. UNION {Numbers(d)' : d \in Nodes} = UNION {Numbers(d) : d \in Nodes}
      <4>1. \A d \in Nodes : Numbers(d)' = Numbers(d)
        BY <2>2 DEF Numbers
      <4> QED BY <4>1
    <3>2. {f.n : f \in skipped} \cup UNION {Numbers(d) : d \in Nodes} = 0..(ltail - 1)
      BY <1>0 DEF AllAccounted, Numbers
    <3>3. 0..(ltail' - 1) = 0..(ltail - 1) \cup {ltail}
      BY <1>3, <1>4
    <3>4. {f.n : f \in skipped'} \cup UNION {Numbers(d)' : d \in Nodes} = 0..(ltail' - 1)
      BY <2>5, <3>1, <3>2, <3>3, Zenon
    <3> QED BY <3>4 DEF AllAccounted, Numbers
  <2> QED BY <2>4, <2>6
<1>5. ASSUME NodeSend PROVE LeftBehind' /\ OrderKept' /\ AllAccounted'
  <2>1. PICK f \in Frame : f = slots[Slot(ltail)] /\ f.n = ltail
    BY <1>3, <1>5
  <2>2. Gather(f) /\ UNCHANGED skipped /\ ltail' = ltail + 1 /\ ltail \in Nat
    BY <1>3, <1>5, <2>1 DEF NodeSend
  <2>3. PICK o \in Nodes : o = OutputNode[f.ifc]
    BY EgressAssumption DEF Frame
  <2>4. /\ Leaving(o)' = Append(Leaving(o), f)
        /\ \A d \in Nodes : d # o => Leaving(d)' = Leaving(d)
    BY <1>0, <2>2, <2>3, GatherAppends
  <2>5. PICK s, t : /\ s \in Seq(Frame) /\ s = Leaving(o)
                    /\ t = Leaving(o)' /\ t = Append(s, f)
    BY <1>0, <2>4, LeavingType
  <2>6. /\ \A i \in DOMAIN s : s[i].n < f.n
        /\ \A i, j \in DOMAIN s : i < j => s[i].n < s[j].n
    BY <1>0, <2>1, <2>5 DEF LeftBehind, OrderKept
  <2>7. /\ \A i \in DOMAIN t : t[i].n < ltail + 1
        /\ \A i, j \in DOMAIN t : i < j => t[i].n < t[j].n
        /\ {t[i].n : i \in DOMAIN t} = {s[i].n : i \in DOMAIN s} \cup {ltail}
    BY <2>1, <2>5, <2>6, AppendOrdered
  <2>8. \A d \in Nodes : \A i \in DOMAIN Leaving(d) : Leaving(d)[i].n \in Nat
    <3>1. \A g \in Frame : g.n \in Nat
      BY EgressAssumption DEF Frame
    <3> QED BY <1>0, <3>1, LeavingType
  <2>9. LeftBehind'
    <3>1. ASSUME NEW d \in Nodes, NEW i \in DOMAIN Leaving(d)' PROVE Leaving(d)'[i].n < ltail'
      <4>1. CASE d = o
        BY <2>2, <2>5, <2>7, <4>1
      <4>2. CASE d # o
        BY <1>0, <2>2, <2>4, <2>8, <4>2 DEF LeftBehind
      <4> QED BY <4>1, <4>2
    <3> QED BY <3>1 DEF LeftBehind
  <2>10. OrderKept'
    <3>1. ASSUME NEW d \in Nodes, NEW i \in DOMAIN Leaving(d)', NEW j \in DOMAIN Leaving(d)', i < j
          PROVE  Leaving(d)'[i].n < Leaving(d)'[j].n
      <4>1. CASE d = o
        BY <2>5, <2>7, <3>1, <4>1
      <4>2. CASE d # o
        BY <1>0, <2>4, <3>1, <4>2 DEF OrderKept
      <4> QED BY <4>1, <4>2
    <3> QED BY <3>1 DEF OrderKept
  <2>11. AllAccounted'
    <3>1. Numbers(o)' = Numbers(o) \cup {ltail}
      BY <2>5, <2>7 DEF Numbers
    <3>2. \A d \in Nodes : d # o => Numbers(d)' = Numbers(d)
      BY <2>4 DEF Numbers
    <3>3. \A x : x \in 0..(ltail - 1) <=>
                   (\E g \in skipped : x = g.n) \/ \E d \in Nodes : x \in Numbers(d)
      <4>1. \A x : x \in 0..(ltail - 1) <=>
                     x \in {g.n : g \in skipped} \/ x \in UNION {Numbers(d) : d \in Nodes}
        BY <1>0 DEF AllAccounted, Numbers
      <4> QED BY <4>1
    <3>4. \A x : x \in 0..(ltail' - 1) <=> x \in 0..(ltail - 1) \/ x = ltail
      BY <1>3, <1>5
    <3>5. \A x : x \in 0..(ltail' - 1) <=>
                   (\E g \in skipped' : x = g.n) \/ \E d \in Nodes : x \in Numbers(d)'
      BY <2>2, <3>1, <3>2, <3>3, <3>4, Zenon
    <3>6. \A x : x \in 0..(ltail' - 1) <=>
                   x \in {g.n : g \in skipped'} \/ x \in UNION {Numbers(d)' : d \in Nodes}
      BY <3>5
    <3> QED BY <3>6 DEF AllAccounted, Numbers
  <2> QED BY <2>9, <2>10, <2>11
<1>6. ASSUME \/ Daemon \/ EventHandler \/ NodeStart \/ FlushStore \/ NodeRecheck
             \/ UNCHANGED vars \/ \E i \in Ifaces : SetInterface(i)
      PROVE  UNCHANGED <<ltail, skipped, out, pending>>
  BY <1>6 DEF Daemon, DaemonFill, DaemonPublish, DaemonSignal, EventHandler, NodeStart,
              FlushStore, NodeRecheck, SetInterface, vars, node
<1>7. LeftBehind' /\ OrderKept' /\ AllAccounted'
  BY <1>1, <1>2, <1>4, <1>5, <1>6 DEF Next, Node
<1> QED BY <1>0, <1>7 DEF OutInv

\* What left is in order and complete, in every behaviour of the ring.
THEOREM OutInvariant == Spec => []OutInv
  BY OutInit, OutNext, PTL DEF Spec

\* Frames for one output node leave in the order the daemon injected them,
\* for any number of output nodes, vector sizes and slots of the pending array
\* (osvbng_egress_node).
THEOREM LeavesInOrder == Spec => []OrderKept
<1>1. OutInv => OrderKept
  BY DEF OutInv
<1> QED BY <1>1, OutInvariant, PTL

\* Every frame the node is past went out or was skipped, and no other did,
\* also when a batch ends early or a buffer cannot be had
\* (osvbng_egress_node).
THEOREM NothingUnaccounted == Spec => []AllAccounted
<1>1. OutInv => AllAccounted
  BY DEF OutInv
<1> QED BY <1>1, OutInvariant, PTL
-----------------------------------------------------------------------------
(* The punt rings. *)

Steps == {"idle", "copy", "desc", "publish", "signal"}

\* The cursors of a ring, and a slot that is being filled: it is the one at
\* head, which is not the daemon's yet.
Cursors(t) ==
  /\ tails[t] <= heads[t] /\ heads[t] - tails[t] <= PuntRingSize
  /\ pc[t] \in {"copy", "desc", "publish"} =>
       at[t] = heads[t] /\ heads[t] - tails[t] < PuntRingSize /\ heads[t] < MaxPunts

\* How far the slot at head is filled.
FilledSlot(t) ==
  /\ pc[t] \in {"desc", "publish"} => data[t][SlotAt(heads[t])] = frame[t]
  /\ pc[t] = "publish" => desc[t][SlotAt(heads[t])] = frame[t]

PuntInv == PuntTypeOK /\ \A t \in Threads : Cursors(t) /\ FilledSlot(t) /\ Whole(t)
-----------------------------------------------------------------------------
LEMMA PuntSlotRange == ASSUME NEW a \in Nat PROVE SlotAt(a) \in Slots
  BY PuntAssumption DEF SlotAt, Slots

LEMMA PuntSlotDistinct ==
  ASSUME NEW a \in Nat, NEW b \in Nat, a < b, b - a < PuntRingSize
  PROVE  SlotAt(a) # SlotAt(b)
  BY ModDistinct, PuntAssumption DEF SlotAt

\* The cursors of a thread's ring as numbers.
LEMMA RingNumbers ==
  ASSUME PuntTypeOK, NEW t \in Threads
  PROVE  /\ heads[t] \in Nat /\ tails[t] \in Nat /\ at[t] \in Nat /\ heads[t] <= MaxPunts
         /\ PuntRingSize \in Nat /\ MaxPunts \in Nat /\ frame[t] \in Frames
         /\ pc[t] \in Steps
  BY PuntAssumption DEF PuntTypeOK, Steps

\* The slot at head is none of those the daemon may read.
LEMMA HeadFree ==
  ASSUME PuntInv, NEW t \in Threads, pc[t] \in {"copy", "desc"}
  PROVE  /\ at[t] = heads[t] /\ SlotAt(heads[t]) \in Slots
         /\ \A i \in tails[t]..(heads[t] - 1) : SlotAt(i) \in Slots /\ SlotAt(i) # SlotAt(heads[t])
<1>1. /\ heads[t] \in Nat /\ tails[t] \in Nat /\ PuntRingSize \in Nat
      /\ at[t] = heads[t] /\ heads[t] - tails[t] < PuntRingSize
  BY RingNumbers DEF PuntInv, Cursors
<1>2. ASSUME NEW i \in tails[t]..(heads[t] - 1)
      PROVE  SlotAt(i) \in Slots /\ SlotAt(i) # SlotAt(heads[t])
  <2>1. i \in Nat /\ i < heads[t] /\ heads[t] - i < PuntRingSize
    BY <1>1
  <2> QED BY <1>1, <2>1, PuntSlotRange, PuntSlotDistinct
<1> QED BY <1>1, <1>2, PuntSlotRange
-----------------------------------------------------------------------------
LEMMA PuntInitInv == PuntInit => PuntInv
<1> SUFFICES ASSUME PuntInit PROVE PuntInv
  OBVIOUS
<1> USE PuntAssumption
<1>1. (CHOOSE f \in Frames : TRUE) \in Frames
  OBVIOUS
<1>2. PICK f \in Frames : /\ data \in [Threads -> [Slots -> {f}]]
                         /\ frame \in [Threads -> {f}]
  BY <1>1 DEF PuntInit
<1>3. PuntTypeOK
  <2>1. frame \in [Threads -> Frames]
    BY <1>2
  <2>2. ASSUME NEW t \in Threads PROVE data[t] \in [Slots -> Frames]
    <3>1. data[t] \in [Slots -> {f}]
      BY <1>2
    <3> QED BY <3>1
  <2>3. data \in [Threads -> [Slots -> Frames]]
    BY <1>2, <2>2
  <2>4. data \in [Threads -> [Slots -> Frames]] /\ desc \in [Threads -> [Slots -> Frames]]
    BY <2>3 DEF PuntInit
  <2>5. /\ heads \in [Threads -> 0..MaxPunts] /\ tails \in [Threads -> Nat]
        /\ flags \in [Threads -> {0, 1}] /\ at \in [Threads -> Nat]
        /\ pc \in [Threads -> {"idle", "copy", "desc", "publish", "signal"}]
    BY DEF PuntInit
  <2>6. puntEvt \in BOOLEAN /\ awake \in BOOLEAN /\ todo \subseteq Threads
    BY DEF PuntInit
  <2> QED BY <2>1, <2>4, <2>5, <2>6 DEF PuntTypeOK
<1>4. ASSUME NEW t \in Threads PROVE Cursors(t) /\ FilledSlot(t) /\ Whole(t)
  BY DEF PuntInit, Cursors, FilledSlot, Whole
<1> QED BY <1>3, <1>4 DEF PuntInv

\* A step that touches one ring, or none, leaves the others as they were.
LEMMA Others ==
  ASSUME PuntInv, NEW t \in Threads,
         heads'[t] = heads[t], tails'[t] = tails[t], data'[t] = data[t], desc'[t] = desc[t],
         pc'[t] = pc[t], frame'[t] = frame[t], at'[t] = at[t]
  PROVE  (Cursors(t) /\ FilledSlot(t) /\ Whole(t))'
  BY DEF PuntInv, Cursors, FilledSlot, Whole

LEMMA AdmitStep ==
  ASSUME PuntInv, NEW t \in Threads, NEW f \in Frames, Admit(t, f)
  PROVE  PuntInv'
<1>1. /\ pc[t] = "idle" /\ heads[t] < MaxPunts /\ heads[t] - tails[t] < PuntRingSize
      /\ at' = [at EXCEPT ![t] = heads[t]] /\ frame' = [frame EXCEPT ![t] = f]
      /\ pc' = [pc EXCEPT ![t] = "copy"]
      /\ UNCHANGED <<heads, tails, flags, data, desc, puntEvt, todo, awake>>
  BY DEF Admit, RingOf, rings
<1>2. PuntTypeOK
  BY DEF PuntInv
<1>3. PuntTypeOK'
  <2>1. heads[t] \in Nat
    BY <1>2, RingNumbers
  <2> QED BY <1>1, <1>2, <2>1 DEF PuntTypeOK
<1>4. (Cursors(t) /\ FilledSlot(t) /\ Whole(t))'
  <2>1. pc'[t] = "copy" /\ at'[t] = heads[t]
    BY <1>1, <1>2 DEF PuntTypeOK
  <2> QED BY <1>1, <2>1 DEF PuntInv, Cursors, FilledSlot, Whole
<1>5. ASSUME NEW u \in Threads, u # t PROVE (Cursors(u) /\ FilledSlot(u) /\ Whole(u))'
  BY <1>1, <1>2, <1>5, Others DEF PuntTypeOK
<1> QED BY <1>3, <1>4, <1>5 DEF PuntInv

LEMMA CopyStep ==
  ASSUME PuntInv, NEW t \in Threads, CopyFrame(t)
  PROVE  PuntInv'
<1>1. /\ pc[t] = "copy" /\ pc' = [pc EXCEPT ![t] = "desc"]
      /\ data' = [data EXCEPT ![t][SlotAt(at[t])] = frame[t]]
      /\ UNCHANGED <<heads, tails, flags, desc, puntEvt, frame, at, todo, awake>>
  BY DEF CopyFrame, RingOf
<1>2. PuntTypeOK /\ Cursors(t) /\ Whole(t)
  BY DEF PuntInv
<1>3. /\ at[t] = heads[t] /\ SlotAt(heads[t]) \in Slots
      /\ \A i \in tails[t]..(heads[t] - 1) : SlotAt(i) \in Slots /\ SlotAt(i) # SlotAt(heads[t])
  BY <1>1, HeadFree
<1>4. data \in [Threads -> [Slots -> Frames]] /\ frame[t] \in Frames
  BY <1>2 DEF PuntTypeOK
<1>5. /\ data' \in [Threads -> [Slots -> Frames]] /\ data'[t][SlotAt(heads[t])] = frame[t]
      /\ \A x \in Slots : x # SlotAt(heads[t]) => data'[t][x] = data[t][x]
      /\ \A u \in Threads : u # t => data'[u] = data[u]
  BY <1>1, <1>3, <1>4
<1>6. PuntTypeOK'
  BY <1>1, <1>2, <1>5 DEF PuntTypeOK
<1>7. pc'[t] = "desc" /\ \A u \in Threads : u # t => pc'[u] = pc[u]
  BY <1>1, <1>2 DEF PuntTypeOK
<1>8. Cursors(t)' /\ FilledSlot(t)'
  BY <1>1, <1>2, <1>5, <1>7 DEF Cursors, FilledSlot
<1>9. Whole(t)'
  BY <1>1, <1>2, <1>3, <1>5 DEF Whole
<1>10. ASSUME NEW u \in Threads, u # t PROVE (Cursors(u) /\ FilledSlot(u) /\ Whole(u))'
  BY <1>1, <1>5, <1>7, <1>10, Others
<1> QED BY <1>6, <1>8, <1>9, <1>10 DEF PuntInv

LEMMA DescStep ==
  ASSUME PuntInv, NEW t \in Threads, WriteDesc(t)
  PROVE  /\ PuntInv' /\ desc'[t][SlotAt(heads[t])] = frame[t]
         /\ \A u \in Threads : \A i \in tails[u]..(heads[u] - 1) :
              desc'[u][SlotAt(i)] = desc[u][SlotAt(i)]
<1>1. /\ pc[t] = "desc" /\ pc' = [pc EXCEPT ![t] = "publish"]
      /\ desc' = [desc EXCEPT ![t][SlotAt(at[t])] = frame[t]]
      /\ UNCHANGED <<heads, tails, flags, data, puntEvt, frame, at, todo, awake>>
  BY DEF WriteDesc, RingOf
<1>2. PuntTypeOK /\ Cursors(t) /\ Whole(t) /\ FilledSlot(t)
  BY DEF PuntInv
<1>3. /\ at[t] = heads[t] /\ SlotAt(heads[t]) \in Slots
      /\ \A i \in tails[t]..(heads[t] - 1) : SlotAt(i) \in Slots /\ SlotAt(i) # SlotAt(heads[t])
  BY <1>1, HeadFree
<1>4. desc \in [Threads -> [Slots -> Frames]] /\ frame[t] \in Frames
  BY <1>2 DEF PuntTypeOK
<1>5. /\ desc' \in [Threads -> [Slots -> Frames]] /\ desc'[t][SlotAt(heads[t])] = frame[t]
      /\ \A x \in Slots : x # SlotAt(heads[t]) => desc'[t][x] = desc[t][x]
      /\ \A u \in Threads : u # t => desc'[u] = desc[u]
  BY <1>1, <1>3, <1>4
<1>6. PuntTypeOK'
  BY <1>1, <1>2, <1>5 DEF PuntTypeOK
<1>7. pc'[t] = "publish" /\ \A u \in Threads : u # t => pc'[u] = pc[u]
  BY <1>1, <1>2 DEF PuntTypeOK
<1>8. Cursors(t)' /\ FilledSlot(t)'
  BY <1>1, <1>2, <1>5, <1>7 DEF Cursors, FilledSlot
<1>9. Whole(t)'
  BY <1>1, <1>2, <1>3, <1>5 DEF Whole
<1>10. ASSUME NEW u \in Threads, u # t PROVE (Cursors(u) /\ FilledSlot(u) /\ Whole(u))'
  BY <1>1, <1>5, <1>7, <1>10, Others
<1>11. \A u \in Threads : \A i \in tails[u]..(heads[u] - 1) : desc'[u][SlotAt(i)] = desc[u][SlotAt(i)]
  BY <1>3, <1>5
<1> QED BY <1>5, <1>6, <1>8, <1>9, <1>10, <1>11 DEF PuntInv

\* Publishing hands the slot at head, which is whole, to the daemon.
LEMMA PublishStep ==
  ASSUME PuntInv, NEW t \in Threads, PublishHead(t)
  PROVE  PuntInv'
<1>1. /\ pc[t] = "publish" /\ pc' = [pc EXCEPT ![t] = "signal"]
      /\ heads' = [heads EXCEPT ![t] = at[t] + 1]
      /\ UNCHANGED <<tails, flags, data, desc, puntEvt, frame, at, todo, awake>>
  BY DEF PublishHead, RingOf
<1>2. PuntTypeOK /\ Cursors(t) /\ Whole(t) /\ FilledSlot(t)
  BY DEF PuntInv
<1>3. /\ heads[t] \in Nat /\ tails[t] \in Nat /\ PuntRingSize \in Nat /\ MaxPunts \in Nat
      /\ at[t] = heads[t] /\ tails[t] <= heads[t] /\ heads[t] - tails[t] < PuntRingSize
      /\ heads[t] < MaxPunts
  BY <1>1, <1>2, RingNumbers DEF Cursors
<1>4. /\ heads' \in [Threads -> 0..MaxPunts] /\ heads'[t] = heads[t] + 1
      /\ \A u \in Threads : u # t => heads'[u] = heads[u]
  BY <1>1, <1>2, <1>3 DEF PuntTypeOK
<1>5. pc'[t] = "signal" /\ \A u \in Threads : u # t => pc'[u] = pc[u]
  BY <1>1, <1>2 DEF PuntTypeOK
<1>6. PuntTypeOK'
  BY <1>1, <1>2, <1>4 DEF PuntTypeOK
<1>7. Cursors(t)' /\ FilledSlot(t)'
  BY <1>1, <1>3, <1>4, <1>5 DEF Cursors, FilledSlot
<1>8. Whole(t)'
  <2> SUFFICES ASSUME NEW i \in tails[t]..heads[t] PROVE data[t][SlotAt(i)] = desc[t][SlotAt(i)]
    BY <1>1, <1>3, <1>4 DEF Whole, SlotAt
  <2>1. CASE i = heads[t]
    BY <2>1, <1>1, <1>2 DEF FilledSlot
  <2>2. CASE i # heads[t]
    BY <2>2, <1>2, <1>3 DEF Whole
  <2> QED BY <2>1, <2>2
<1>9. ASSUME NEW u \in Threads, u # t PROVE (Cursors(u) /\ FilledSlot(u) /\ Whole(u))'
  BY <1>1, <1>4, <1>5, <1>9, Others
<1> QED BY <1>6, <1>7, <1>8, <1>9 DEF PuntInv

LEMMA SignalStep ==
  ASSUME PuntInv, NEW t \in Threads, Signal(t)
  PROVE  PuntInv'
<1>1. /\ pc[t] = "signal" /\ pc' = [pc EXCEPT ![t] = "idle"]
      /\ puntEvt' \in BOOLEAN /\ flags' = [flags EXCEPT ![t] = 1]
      /\ UNCHANGED <<heads, tails, data, desc, frame, at, todo, awake>>
  BY DEF Signal, RingOf
<1>2. PuntTypeOK /\ Cursors(t) /\ Whole(t)
  BY DEF PuntInv
<1>3. pc'[t] = "idle" /\ \A u \in Threads : u # t => pc'[u] = pc[u]
  BY <1>1, <1>2 DEF PuntTypeOK
<1>4. PuntTypeOK'
  BY <1>1, <1>2 DEF PuntTypeOK
<1>5. (Cursors(t) /\ FilledSlot(t) /\ Whole(t))'
  BY <1>1, <1>2, <1>3 DEF Cursors, FilledSlot, Whole
<1>6. ASSUME NEW u \in Threads, u # t PROVE (Cursors(u) /\ FilledSlot(u) /\ Whole(u))'
  BY <1>1, <1>3, <1>6, Others
<1> QED BY <1>4, <1>5, <1>6 DEF PuntInv

LEMMA TakeStep ==
  ASSUME PuntInv, NEW t \in Threads, DaemonTake(t)
  PROVE  PuntInv'
<1>1. /\ tails[t] # heads[t] /\ tails' = [tails EXCEPT ![t] = tails[t] + 1]
      /\ UNCHANGED <<heads, flags, data, desc, puntEvt, pc, frame, at, todo, awake>>
  BY DEF DaemonTake, worker
<1>2. PuntTypeOK /\ Cursors(t) /\ Whole(t) /\ FilledSlot(t)
  BY DEF PuntInv
<1>3. /\ heads[t] \in Nat /\ tails[t] \in Nat /\ PuntRingSize \in Nat
      /\ tails[t] <= heads[t] /\ heads[t] - tails[t] <= PuntRingSize
  BY <1>2, RingNumbers DEF Cursors
<1>4. /\ tails' \in [Threads -> Nat] /\ tails'[t] = tails[t] + 1
      /\ \A u \in Threads : u # t => tails'[u] = tails[u]
  BY <1>1, <1>2, <1>3 DEF PuntTypeOK
<1>5. PuntTypeOK'
  BY <1>1, <1>2, <1>4 DEF PuntTypeOK
<1>6. Cursors(t)'
  BY <1>1, <1>2, <1>3, <1>4 DEF Cursors
<1>7. FilledSlot(t)' /\ Whole(t)'
  BY <1>1, <1>2, <1>3, <1>4 DEF FilledSlot, Whole
<1>8. ASSUME NEW u \in Threads, u # t PROVE (Cursors(u) /\ FilledSlot(u) /\ Whole(u))'
  BY <1>1, <1>4, <1>8, Others
<1> QED BY <1>5, <1>6, <1>7, <1>8 DEF PuntInv

\* What is left of the daemon moves no cursor and writes no slot.
LEMMA DaemonStep ==
  ASSUME PuntInv,
         \/ DaemonWake \/ DaemonSleep \/ UNCHANGED puntVars
         \/ \E t \in Threads : DaemonClear(t) \/ DaemonLeave(t)
  PROVE  PuntInv' /\ UNCHANGED <<heads, tails, data, desc, pc, frame, at>>
<1>1. PuntTypeOK
  BY DEF PuntInv
<1>2. UNCHANGED <<heads, tails, data, desc, pc, frame, at>>
  BY DEF DaemonWake, DaemonSleep, DaemonClear, DaemonLeave, rings, worker, puntVars
<1>3. flags' \in [Threads -> {0, 1}] /\ todo' \subseteq Threads
  BY <1>1 DEF PuntTypeOK, DaemonWake, DaemonSleep, DaemonClear, DaemonLeave, rings, puntVars
<1>4. puntEvt' \in BOOLEAN /\ awake' \in BOOLEAN
  BY <1>1 DEF PuntTypeOK, DaemonWake, DaemonSleep, DaemonClear, DaemonLeave, puntVars
<1>5. PuntTypeOK'
  BY <1>1, <1>2, <1>3, <1>4 DEF PuntTypeOK
<1>6. ASSUME NEW t \in Threads PROVE (Cursors(t) /\ FilledSlot(t) /\ Whole(t))'
  BY <1>2, Others
<1> QED BY <1>2, <1>5, <1>6 DEF PuntInv

LEMMA PuntNextInv == PuntInv /\ [PuntNext]_puntVars => PuntInv'
<1> SUFFICES ASSUME PuntInv, [PuntNext]_puntVars PROVE PuntInv'
  OBVIOUS
<1>1. ASSUME NEW t \in Threads, Punting(t) PROVE PuntInv'
  BY <1>1, CopyStep, DescStep, PublishStep, SignalStep DEF Punting
<1>2. ASSUME NEW t \in Threads, NEW f \in Frames, Admit(t, f) PROVE PuntInv'
  BY <1>2, AdmitStep
<1>3. CASE PuntDaemon \/ UNCHANGED puntVars
  BY <1>3, TakeStep, DaemonStep DEF PuntDaemon
<1> QED BY <1>1, <1>2, <1>3 DEF PuntNext

\* The invariant of the punt rings, for every instance.
THEOREM RingsInvariant == PuntSpec => []PuntInv
  BY PuntInitInv, PuntNextInv, PTL DEF PuntSpec

\* What the daemon may read is whole: a published slot's descriptor and its
\* data were written by one punt (osvbng_punt_to_shm), whatever the threads and
\* the daemon do meanwhile.  The safety half of AllDelivered.
THEOREM ReadWhole == PuntSpec => [](PuntTypeOK /\ \A t \in Threads : Whole(t))
<1>1. PuntInv => PuntTypeOK /\ \A t \in Threads : Whole(t)
  BY DEF PuntInv
<1> QED BY <1>1, RingsInvariant, PTL
-----------------------------------------------------------------------------
(* The rings implement the channels.  Publishing appends to its thread's   *)
(* queue, the daemon takes from the front, every other step keeps them.    *)

LEMMA PuntQueueType ==
  ASSUME PuntInv, NEW t \in Threads
  PROVE  /\ heads[t] \in Nat /\ tails[t] \in Nat /\ heads[t] - tails[t] \in Nat
         /\ PuntQueue[t] \in Seq(Frames) /\ Len(PuntQueue[t]) = heads[t] - tails[t]
         /\ PuntQueue[t] = [i \in 1..(heads[t] - tails[t]) |-> desc[t][SlotAt(tails[t] + i - 1)]]
<1>1. heads[t] \in Nat /\ tails[t] \in Nat /\ tails[t] <= heads[t]
  BY RingNumbers DEF PuntInv, Cursors
<1>2. ASSUME NEW i \in 1..(heads[t] - tails[t])
      PROVE  desc[t][SlotAt(tails[t] + i - 1)] \in Frames
  <2>1. tails[t] + i - 1 \in Nat
    BY <1>1
  <2> QED BY <2>1, PuntSlotRange DEF PuntInv, PuntTypeOK
<1>3. heads[t] - tails[t] \in Nat
  BY <1>1
<1> QED BY <1>1, <1>2, <1>3 DEF PuntQueue

LEMMA PuntQueueKept ==
  ASSUME PuntInv, heads' = heads, tails' = tails,
         \A u \in Threads : \A i \in tails[u]..(heads[u] - 1) :
           desc'[u][SlotAt(i)] = desc[u][SlotAt(i)]
  PROVE  PuntQueue' = PuntQueue
<1>1. ASSUME NEW t \in Threads, NEW i \in 1..(heads[t] - tails[t])
      PROVE  desc'[t][SlotAt(tails[t] + i - 1)] = desc[t][SlotAt(tails[t] + i - 1)]
  <2>1. heads[t] \in Nat /\ tails[t] \in Nat
    BY PuntQueueType
  <2>2. tails[t] + i - 1 \in tails[t]..(heads[t] - 1)
    BY <2>1
  <2> QED BY <2>2
<1>2. ASSUME NEW t \in Threads
      PROVE  [i \in 1..(heads[t] - tails[t]) |-> desc'[t][SlotAt(tails[t] + i - 1)]]
               = [i \in 1..(heads[t] - tails[t]) |-> desc[t][SlotAt(tails[t] + i - 1)]]
  BY <1>1
<1> DEFINE Items(t) == [i \in 1..(heads[t] - tails[t]) |-> desc[t][SlotAt(tails[t] + i - 1)]]
           Kept(t) == [i \in 1..(heads[t] - tails[t]) |-> desc'[t][SlotAt(tails[t] + i - 1)]]
<1>3. PuntQueue = [t \in Threads |-> Items(t)] /\ PuntQueue' = [t \in Threads |-> Kept(t)]
  BY DEF PuntQueue, SlotAt
<1>4. \A t \in Threads : Items(t) = Kept(t)
  BY <1>2
<1> HIDE DEF Items, Kept
<1> QED BY <1>3, <1>4

LEMMA PuntPuts ==
  ASSUME PuntInv, NEW t \in Threads, PublishHead(t)
  PROVE  PuntFifo!Put(t, desc[t][SlotAt(heads[t])]) /\ desc[t][SlotAt(heads[t])] \in Frames
<1> DEFINE q == PuntQueue[t]
           f == desc[t][SlotAt(heads[t])]
           n == heads[t] - tails[t]
<1>1. /\ heads' = [heads EXCEPT ![t] = heads[t] + 1] /\ tails' = tails /\ desc' = desc
      /\ n < PuntRingSize
  BY DEF PublishHead, RingOf, PuntInv, Cursors
<1>2. /\ heads[t] \in Nat /\ tails[t] \in Nat /\ n \in Nat
      /\ q \in Seq(Frames) /\ Len(q) = n
      /\ q = [i \in 1..n |-> desc[t][SlotAt(tails[t] + i - 1)]]
  BY PuntQueueType
<1>3. f \in Frames
  BY <1>2, PuntSlotRange DEF PuntInv, PuntTypeOK
<1>4. heads'[t] = heads[t] + 1 /\ \A u \in Threads : u # t => heads'[u] = heads[u]
  BY <1>1 DEF PuntInv, PuntTypeOK
<1>5. PuntQueue'[t] = Append(q, f)
  <2>1. PuntQueue'[t] = [i \in 1..(heads'[t] - tails'[t]) |-> desc'[t][SlotAt(tails'[t] + i - 1)]]
    BY DEF PuntQueue, SlotAt
  <2>2. Append(q, f) = [i \in 1..(n + 1) |-> IF i = n + 1 THEN f ELSE q[i]]
    BY <1>2, <1>3
  <2>3. ASSUME NEW i \in 1..(n + 1)
        PROVE  desc[t][SlotAt(tails[t] + i - 1)] = IF i = n + 1 THEN f ELSE q[i]
    <3>1. CASE i = n + 1
      <4>1. tails[t] + i - 1 = heads[t]
        BY <3>1, <1>2
      <4> QED BY <3>1, <4>1
    <3>2. CASE i # n + 1
      <4>1. i \in 1..n
        BY <3>2, <1>2
      <4> QED BY <3>2, <4>1, <1>2
    <3> QED BY <3>1, <3>2
  <2>4. heads'[t] - tails'[t] = n + 1
    BY <1>1, <1>2, <1>4
  <2> HIDE DEF q, f, n
  <2>5. PuntQueue'[t] = [i \in 1..(n + 1) |-> desc[t][SlotAt(tails[t] + i - 1)]]
    BY <2>1, <2>4, <1>1
  <2> QED BY <2>2, <2>3, <2>5
<1>6. ASSUME NEW u \in Threads, u # t PROVE PuntQueue'[u] = PuntQueue[u]
  BY <1>1, <1>4, <1>6 DEF PuntQueue, SlotAt
<1>7. PuntQueue' = [PuntQueue EXCEPT ![t] = Append(q, f)]
  BY <1>5, <1>6 DEF PuntQueue
<1>8. Len(PuntQueue[t]) < PuntRingSize
  BY <1>1, <1>2
<1> QED BY <1>3, <1>7, <1>8 DEF PuntFifo!Put

LEMMA TakeTakes ==
  ASSUME PuntInv, NEW t \in Threads, DaemonTake(t)
  PROVE  PuntFifo!Take(t)
<1> DEFINE q == PuntQueue[t]
           n == heads[t] - tails[t]
<1>1. /\ heads' = heads /\ tails' = [tails EXCEPT ![t] = tails[t] + 1] /\ desc' = desc
      /\ tails[t] # heads[t]
  BY DEF DaemonTake
<1>2. /\ heads[t] \in Nat /\ tails[t] \in Nat /\ n \in Nat
      /\ q \in Seq(Frames) /\ Len(q) = n
      /\ q = [i \in 1..n |-> desc[t][SlotAt(tails[t] + i - 1)]]
  BY PuntQueueType
<1>3. q # <<>>
  BY <1>1, <1>2
<1>4. tails'[t] = tails[t] + 1 /\ \A u \in Threads : u # t => tails'[u] = tails[u]
  BY <1>1 DEF PuntInv, PuntTypeOK
<1>5. PuntQueue'[t] = Tail(q)
  <2>1. PuntQueue'[t] = [i \in 1..(heads'[t] - tails'[t]) |-> desc'[t][SlotAt(tails'[t] + i - 1)]]
    BY DEF PuntQueue, SlotAt
  <2>2. Tail(q) = [i \in 1..(n - 1) |-> q[i + 1]]
    <3>1. q \in Seq(Frames) /\ Len(q) = n /\ n \in Nat /\ n >= 1 /\ q # <<>>
      BY <1>1, <1>2, <1>3
    <3> HIDE DEF q, n
    <3>2. /\ Tail(q) \in Seq(Frames) /\ Len(Tail(q)) = n - 1
          /\ \A i \in 1..(n - 1) : Tail(q)[i] = q[i + 1]
      BY <3>1, HeadTailProperties
    <3>3. Tail(q) \in [1..(n - 1) -> Frames]
      BY <3>2, LenProperties
    <3> QED BY <3>2, <3>3
  <2>3. ASSUME NEW i \in 1..(n - 1)
        PROVE  q[i + 1] = desc[t][SlotAt(tails[t] + 1 + i - 1)]
    <3>1. i + 1 \in 1..n /\ tails[t] + (i + 1) - 1 = tails[t] + 1 + i - 1
      BY <1>2
    <3> QED BY <3>1, <1>2
  <2>4. heads'[t] - tails'[t] = n - 1
    BY <1>1, <1>2, <1>4
  <2> HIDE DEF q, n
  <2>5. PuntQueue'[t] = [i \in 1..(n - 1) |-> desc[t][SlotAt(tails[t] + 1 + i - 1)]]
    BY <2>1, <2>4, <1>1, <1>4
  <2> QED BY <2>2, <2>3, <2>5
<1>6. ASSUME NEW u \in Threads, u # t PROVE PuntQueue'[u] = PuntQueue[u]
  BY <1>1, <1>4, <1>6 DEF PuntQueue, SlotAt
<1>7. PuntQueue' = [PuntQueue EXCEPT ![t] = Tail(q)]
  BY <1>5, <1>6 DEF PuntQueue
<1> QED BY <1>3, <1>7 DEF PuntFifo!Take

LEMMA PuntInitFifo == PuntInit => PuntFifo!Init
<1> SUFFICES ASSUME PuntInit PROVE PuntFifo!Init
  OBVIOUS
<1>1. ASSUME NEW t \in Threads
      PROVE  [i \in 1..(heads[t] - tails[t]) |-> desc[t][SlotAt(tails[t] + i - 1)]] = <<>>
  <2>1. heads[t] = 0 /\ tails[t] = 0
    BY DEF PuntInit
  <2> QED BY <2>1
<1> DEFINE Items(t) == [i \in 1..(heads[t] - tails[t]) |-> desc[t][SlotAt(tails[t] + i - 1)]]
<1>2. PuntQueue = [t \in Threads |-> Items(t)] /\ \A t \in Threads : Items(t) = <<>>
  BY <1>1 DEF PuntQueue
<1> HIDE DEF Items
<1> QED BY <1>2 DEF PuntFifo!Init

LEMMA PuntNextFifo == PuntInv /\ [PuntNext]_puntVars => [PuntFifo!Next]_PuntQueue
<1> SUFFICES ASSUME PuntInv, [PuntNext]_puntVars PROVE [PuntFifo!Next]_PuntQueue
  OBVIOUS
<1>1. ASSUME NEW t \in Threads, PublishHead(t) PROVE PuntFifo!Next
  BY <1>1, PuntPuts DEF PuntFifo!Next
<1>2. ASSUME NEW t \in Threads, DaemonTake(t) PROVE PuntFifo!Next
  BY <1>2, TakeTakes DEF PuntFifo!Next
<1>3. ASSUME NEW t \in Threads, WriteDesc(t) PROVE PuntQueue' = PuntQueue
  BY <1>3, DescStep, PuntQueueKept DEF WriteDesc
<1>4. ASSUME NEW t \in Threads, CopyFrame(t) \/ Signal(t) \/ \E f \in Frames : Admit(t, f)
      PROVE  PuntQueue' = PuntQueue
  <2>1. heads' = heads /\ tails' = tails /\ desc' = desc
    BY <1>4 DEF CopyFrame, Signal, Admit, rings
  <2> QED BY <2>1, PuntQueueKept
<1>5. ASSUME \/ DaemonWake \/ DaemonSleep \/ UNCHANGED puntVars
             \/ \E t \in Threads : DaemonClear(t) \/ DaemonLeave(t)
      PROVE  PuntQueue' = PuntQueue
  BY <1>5, DaemonStep, PuntQueueKept
<1> QED BY <1>1, <1>2, <1>3, <1>4, <1>5 DEF PuntNext, Punting, PuntDaemon

\* Each punt ring implements a bounded FIFO channel, whatever its size and
\* however many threads punt: no frame is overwritten, lost or repeated.
THEOREM RingsAreFifo == PuntSpec => PuntsAreFifo
  BY PuntInitFifo, PuntNextFifo, RingsInvariant, PTL DEF PuntSpec, PuntsAreFifo, PuntFifo!Spec
=============================================================================
