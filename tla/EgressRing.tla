----------------------------- MODULE EgressRing -----------------------------
(***************************************************************************)
(* The egress ring of the punt plugin (plugins/osvbng_punt): the osvbng    *)
(* daemon appends frames, the node osvbng-egress drains them on VPP's main *)
(* thread.  Nothing is locked.  The daemon raises interrupt_pending and    *)
(* writes the eventfd on its 0 to 1 edge; the node lowers it, then reads   *)
(* head again and re-arms itself if frames are left.                       *)
(*                                                                         *)
(* The node's two closing stores (tail, interrupt_pending) are release     *)
(* stores and its closing load is an acquire load of another location, so  *)
(* the load may be performed before the stores are visible: they wait in   *)
(* storeBuf until Flush.  The daemon's exchange of the flag is a full      *)
(* barrier.  StoresDrain = TRUE keeps only the executions in which the     *)
(* stores are visible before the load.                                     *)
(***************************************************************************)
EXTENDS Naturals, Sequences, FiniteSets

CONSTANTS
  Ifaces,       \* software interfaces
  Nodes,        \* output nodes of hardware interfaces
  OutputNode,   \* [Ifaces -> Nodes], the sup hw interface's output node
  RingSize,     \* egress_ring_size, a power of two
  Batch,        \* OSVBNG_EGRESS_MAX_BATCH
  FrameSize,    \* VLIB_FRAME_SIZE
  MaxIfs,       \* OSVBNG_EGRESS_MAX_IFS
  MaxFrames,    \* bound: frames the daemon injects
  StoresDrain   \* the node's stores drain before its closing load

ASSUME EgressAssumption ==
  /\ Ifaces # {} /\ OutputNode \in [Ifaces -> Nodes]
  /\ RingSize \in Nat \ {0} /\ Batch \in Nat \ {0} /\ FrameSize \in Nat \ {0, 1}
  /\ MaxIfs \in Nat \ {0} /\ MaxFrames \in Nat
  /\ StoresDrain \in BOOLEAN

\* A frame in the ring: the interface it leaves through, and its payload,
\* which here is the number of the injection.
Frame == [ifc : Ifaces, n : 0..MaxFrames]

VARIABLES
  head,      \* ring->head
  tail,      \* ring->tail, as the daemon sees it
  flag,      \* ring->interrupt_pending
  slots,     \* egress_descs and their data slots
  evt,       \* the egress eventfd's counter is not zero
  irq,       \* the node's interrupt is pending
  dpc,       \* where the daemon is: "idle", "publish", "signal"
  npc,       \* where the node is: "idle", "drain", "recheck"
  ltail,     \* egress_tail, the node's running tail
  seen,      \* the head the node loaded
  ntx,       \* n_tx of this run
  pending,   \* the vector being filled for each output node
  out,       \* frames handed to each output node, oldest first
  skipped,   \* frames dropped because their interface was not up
  ifup,      \* interfaces admin up and not hidden
  storeBuf   \* the node's stores not visible yet

ring == <<head, tail, flag, slots>>
daemon == <<dpc>>
node == <<npc, ltail, seen, ntx, pending, out, skipped>>
vars == <<head, tail, flag, slots, evt, irq, dpc, npc, ltail, seen, ntx,
          pending, out, skipped, ifup, storeBuf>>

Slot(i) == i % RingSize
\* The region is created zeroed: interface 0, length 0.
NoFrame == [ifc |-> CHOOSE i \in Ifaces : TRUE, n |-> 0]

Store == [loc : {"tail", "flag"}, val : Nat]

Init ==
  /\ head = 0 /\ tail = 0 /\ flag = 0
  /\ slots = [i \in 0..(RingSize - 1) |-> NoFrame]
  /\ evt = FALSE /\ irq = FALSE
  /\ dpc = "idle" /\ npc = "idle"
  /\ ltail = 0 /\ seen = 0 /\ ntx = 0
  /\ pending = [d \in Nodes |-> <<>>]
  /\ out = [d \in Nodes |-> <<>>]
  /\ skipped = {}
  /\ ifup = Ifaces
  /\ storeBuf = <<>>
-----------------------------------------------------------------------------
(* The daemon, the ring's only producer.                                   *)

\* osvbng_ring_has_space, then the frame and its descriptor.
DaemonFill(i) ==
  /\ dpc = "idle"
  /\ head < MaxFrames
  /\ head - tail + 1 <= RingSize
  /\ slots' = [slots EXCEPT ![Slot(head)] = [ifc |-> i, n |-> head]]
  /\ dpc' = "publish"
  /\ UNCHANGED <<head, tail, flag, evt, irq, node, ifup, storeBuf>>

DaemonPublish ==
  /\ dpc = "publish"
  /\ head' = head + 1
  /\ dpc' = "signal"
  /\ UNCHANGED <<tail, flag, slots, evt, irq, node, ifup, storeBuf>>

\* The daemon writes the eventfd on the flag's 0 to 1 edge only.
DaemonSignal ==
  /\ dpc = "signal"
  /\ evt' = (evt \/ flag = 0)
  /\ flag' = 1
  /\ dpc' = "idle"
  /\ UNCHANGED <<head, tail, slots, irq, node, ifup, storeBuf>>
-----------------------------------------------------------------------------
(* VPP's main thread: the eventfd handler, the node, and the handlers that *)
(* change interfaces.  They do not overlap.                                *)

\* osvbng_egress_eventfd_handler.
EventHandler ==
  /\ npc = "idle"
  /\ evt
  /\ evt' = FALSE
  /\ irq' = TRUE
  /\ UNCHANGED <<ring, daemon, node, ifup, storeBuf>>

\* An interface goes down, is hidden for reuse, or comes back.
SetInterface(i) ==
  /\ npc = "idle"
  /\ ifup' = IF i \in ifup THEN ifup \ {i} ELSE ifup \cup {i}
  /\ UNCHANGED <<ring, evt, irq, daemon, node, storeBuf>>

\* The dispatcher clears the interrupt and calls the node, which loads head.
\* Bound: the stores of one run are visible before the next run begins.
NodeStart ==
  /\ npc = "idle"
  /\ storeBuf = <<>>
  /\ irq
  /\ irq' = FALSE
  /\ seen' = head
  /\ ntx' = 0
  /\ npc' = "drain"
  /\ UNCHANGED <<ring, evt, daemon, ltail, pending, out, skipped, ifup,
                 storeBuf>>

Draining == npc = "drain" /\ ltail # seen /\ ntx < Batch

\* The frame's interface is free, down or hidden: skip it.
NodeSkip ==
  LET f == slots[Slot(ltail)] IN
  /\ Draining
  /\ f.ifc \notin ifup
  /\ ltail' = ltail + 1
  /\ skipped' = skipped \cup {f}
  /\ UNCHANGED <<ring, evt, irq, daemon, npc, seen, ntx, pending, out, ifup,
                 storeBuf>>

\* Output nodes with a slot of the pending array.
Open == {d \in Nodes : pending[d] # <<>>}

\* Mutant: with every slot taken the frame goes out alone, past the vector
\* already gathered for its node.
Gather_NoSearch(f) ==
  LET d == OutputNode[f.ifc] IN
  \/ /\ Cardinality(Open) >= MaxIfs
     /\ out' = [out EXCEPT ![d] = Append(@, f)]
     /\ UNCHANGED pending
  \/ /\ Cardinality(Open) < MaxIfs
     /\ pending' = [pending EXCEPT ![d] = Append(@, f)]
     /\ UNCHANGED out

\* The frame goes out alone if its output node has no slot and none is free;
\* else it joins the node's vector, which goes out when it is full.
Gather(f) ==
  LET d == OutputNode[f.ifc]
      slot == d \in Open \/ Cardinality(Open) < MaxIfs
  IN \/ /\ ~slot
        /\ out' = [out EXCEPT ![d] = Append(@, f)]
        /\ UNCHANGED pending
     \/ /\ slot /\ Len(pending[d]) + 1 < FrameSize
        /\ pending' = [pending EXCEPT ![d] = Append(@, f)]
        /\ UNCHANGED out
     \/ /\ slot /\ Len(pending[d]) + 1 >= FrameSize
        /\ out' = [out EXCEPT ![d] = @ \o Append(pending[d], f)]
        /\ pending' = [pending EXCEPT ![d] = <<>>]

NodeSend ==
  /\ Draining
  /\ slots[Slot(ltail)].ifc \in ifup
  /\ Gather(slots[Slot(ltail)])
  /\ ltail' = ltail + 1
  /\ ntx' = ntx + 1
  /\ UNCHANGED <<ring, evt, irq, daemon, npc, seen, skipped, ifup, storeBuf>>

\* What ends the loop: the ring as loaded is empty, the batch is done, or no
\* buffer can be allocated.  Every pending vector goes out, then the tail is
\* stored and the flag cleared.
Flushed == [d \in Nodes |-> out[d] \o pending[d]]

\* Mutant: on an allocation failure the frame is dropped.
NodeFinish_DropsFrame ==
  /\ npc = "drain"
  /\ \/ ltail = seen \/ ntx >= Batch
     \/ ltail # seen /\ slots[Slot(ltail)].ifc \in ifup
  /\ ltail' = IF Draining THEN ltail + 1 ELSE ltail
  /\ out' = Flushed
  /\ pending' = [d \in Nodes |-> <<>>]
  /\ storeBuf' = storeBuf \o <<[loc |-> "tail", val |-> ltail'],
                             [loc |-> "flag", val |-> 0]>>
  /\ npc' = "recheck"
  /\ UNCHANGED <<ring, evt, irq, daemon, seen, ntx, skipped, ifup>>

\* Mutant: the tail stored is the head that was loaded, not where the loop
\* stopped.
NodeFinish_StoresSeen ==
  /\ npc = "drain"
  /\ \/ ltail = seen \/ ntx >= Batch
     \/ ltail # seen /\ slots[Slot(ltail)].ifc \in ifup
  /\ out' = Flushed
  /\ pending' = [d \in Nodes |-> <<>>]
  /\ storeBuf' = storeBuf \o <<[loc |-> "tail", val |-> seen],
                             [loc |-> "flag", val |-> 0]>>
  /\ npc' = "recheck"
  /\ UNCHANGED <<ring, evt, irq, daemon, ltail, seen, ntx, skipped, ifup>>

NodeFinish ==
  /\ npc = "drain"
  /\ \/ ltail = seen \/ ntx >= Batch
     \/ ltail # seen /\ slots[Slot(ltail)].ifc \in ifup
  /\ out' = Flushed
  /\ pending' = [d \in Nodes |-> <<>>]
  /\ storeBuf' = storeBuf \o <<[loc |-> "tail", val |-> ltail],
                             [loc |-> "flag", val |-> 0]>>
  /\ npc' = "recheck"
  /\ UNCHANGED <<ring, evt, irq, daemon, ltail, seen, ntx, skipped, ifup>>

\* A store of the node becomes visible.
FlushStore ==
  /\ storeBuf # <<>>
  /\ LET s == Head(storeBuf) IN
     /\ tail' = IF s.loc = "tail" THEN s.val ELSE tail
     /\ flag' = IF s.loc = "flag" THEN s.val ELSE flag
  /\ storeBuf' = Tail(storeBuf)
  /\ UNCHANGED <<head, slots, evt, irq, daemon, node, ifup>>

\* Mutant: no second look at head.
NodeRecheck_Never ==
  /\ npc = "recheck"
  /\ StoresDrain => storeBuf = <<>>
  /\ npc' = "idle"
  /\ UNCHANGED <<ring, evt, irq, daemon, ltail, seen, ntx, pending, out,
                 skipped, ifup, storeBuf>>

\* Frames left, or enqueued since: the node interrupts itself.
NodeRecheck ==
  /\ npc = "recheck"
  /\ StoresDrain => storeBuf = <<>>
  /\ irq' = (irq \/ head # ltail)
  /\ npc' = "idle"
  /\ UNCHANGED <<ring, evt, daemon, ltail, seen, ntx, pending, out, skipped,
                 ifup, storeBuf>>
-----------------------------------------------------------------------------
Daemon == (\E i \in Ifaces : DaemonFill(i)) \/ DaemonPublish \/ DaemonSignal

Node == NodeStart \/ NodeSkip \/ NodeSend \/ NodeFinish \/ NodeRecheck

Next == \/ Daemon \/ EventHandler \/ Node \/ FlushStore
        \/ \E i \in Ifaces : SetInterface(i)

Spec == Init /\ [][Next]_vars

\* The main thread keeps polling and dispatching, stores drain, the daemon
\* finishes an injection it began, and buffers come back to the pool: a node
\* that is retried finds one sooner or later.
Fairness == /\ WF_vars(DaemonPublish \/ DaemonSignal)
            /\ WF_vars(EventHandler)
            /\ WF_vars(Node)
            /\ WF_vars(FlushStore)
            /\ SF_vars(NodeSend \/ NodeSkip)

FairSpec == Spec /\ Fairness
-----------------------------------------------------------------------------
TypeOK ==
  /\ head \in 0..MaxFrames /\ tail \in Nat /\ flag \in {0, 1}
  /\ slots \in [0..(RingSize - 1) -> Frame]
  /\ evt \in BOOLEAN /\ irq \in BOOLEAN
  /\ dpc \in {"idle", "publish", "signal"}
  /\ npc \in {"idle", "drain", "recheck"}
  /\ ltail \in Nat /\ seen \in Nat /\ ntx \in 0..Batch
  /\ pending \in [Nodes -> Seq(Frame)]
  /\ out \in [Nodes -> Seq(Frame)]
  /\ skipped \subseteq Frame
  /\ ifup \subseteq Ifaces
  /\ storeBuf \in Seq(Store)

\* No slot the node has yet to read is overwritten: slot i of the ring still
\* holds the frame injected as number i.
SlotsIntact == \A i \in ltail..(head - 1) : slots[Slot(i)].n = i

\* The frames between the node's tail and head, oldest first.
Queue == [c \in {"egress"} |->
            [i \in 1..(head - ltail) |-> slots[Slot(ltail + i - 1)]]]

\* The ring is a bounded FIFO channel: nothing is lost, repeated, torn or
\* reordered between the daemon's inject and the node's dequeue.
Fifo == INSTANCE FifoChannel WITH
  Channels <- {"egress"}, Frames <- Frame, Capacity <- RingSize,
  queue <- Queue

IsFifo == Fifo!Spec

\* Frames for one output node leave in the order they were injected, however
\* they were spread over pending vectors, full vectors and lone frames.
Leaving(d) == out[d] \o pending[d]

OrderKept ==
  \A d \in Nodes : \A i, j \in DOMAIN Leaving(d) :
    i < j => Leaving(d)[i].n < Leaving(d)[j].n

\* Every frame the node is past went out or was skipped, and only those did.
AllAccounted ==
  {f.n : f \in skipped}
    \cup UNION {{Leaving(d)[i].n : i \in DOMAIN Leaving(d)} : d \in Nodes}
    = 0..(ltail - 1)

\* Every injected frame is dequeued, also when the daemon injects nothing
\* after it ("without this self-interrupt a burst larger than one batch would
\* strand its tail ... Also covers a frame enqueued between the drain and the
\* flag clear", osvbng_egress_node).
NothingStranded == \A n \in 1..MaxFrames : head >= n ~> ltail >= n
=============================================================================
