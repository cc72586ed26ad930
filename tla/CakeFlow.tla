------------------------------ MODULE CakeFlow ------------------------------
(***************************************************************************)
(* The flow queues of one scheduler of the QoS plugin                      *)
(* (plugins/osvbng_qos_sched): per tin a set associative table of flows,   *)
(* three lists that a flow moves between, and a count of bulk flows per    *)
(* destination host.  Operators here take a scheduler and give it back as  *)
(* an enqueue, an eviction or a turn of the dequeue loop leaves it; who    *)
(* calls them is CakeOwner's.                                              *)
(*                                                                         *)
(* A packet is its tin, its hash (nonzero), the hash of its destination    *)
(* and its length, which stands for its length on the wire as well.  The   *)
(* linked lists are sequences.  What COBALT keeps for a flow only decides  *)
(* whether a packet is dropped, and that is left open.                     *)
(***************************************************************************)
EXTENDS Integers, Sequences, FiniteSets, SequencesExt, FiniteSetsExt

CONSTANTS
  NTins,      \* cs->n_tins
  NSets,      \* CAKE_SET_COUNT
  NWays,      \* CAKE_SET_WAYS
  NHosts,     \* CAKE_HOSTS
  RingSize,   \* CAKE_FLOW_RING_SIZE
  Quantum,    \* tin->quantum
  Limit       \* cs->buffer_limit

ASSUME FlowAssumption ==
  /\ {NTins, NSets, NWays, NHosts, RingSize, Quantum} \subseteq Nat \ {0}
  /\ Limit \in Nat

Tins == 1..NTins
Queues == 0..(NSets * NWays - 1)
HostSlots == 0..(NHosts - 1)
HostProbes == 4

\* An element of tin->flows; clib_memset gives a free one.
NoFlow == [state |-> "none", ring |-> <<>>, backlog |-> 0, deficit |-> 0, host |-> 0]

\* cake_tin_init
NewTin ==
  [flows |-> [i \in Queues |-> NoFlow], tags |-> [i \in Queues |-> 0],
   new |-> <<>>, old |-> <<>>, decaying |-> <<>>,
   flowCount |-> 0, sparse |-> 0, bulk |-> 0,
   hosts |-> [h \in HostSlots |-> [hash |-> 0, bulk |-> 0]]]

Bytes(ring) == SumFunction(ring)

Packet == [tin : Tins, tag : Nat \ {0}, host : Nat, len : Nat]

Flow == [state : {"none", "sparse", "bulk", "decaying"}, ring : Seq(Nat),
         backlog : Nat, deficit : Int, host : HostSlots]

Tin == [flows : [Queues -> Flow], tags : [Queues -> Nat],
        new : Seq(Queues), old : Seq(Queues), decaying : Seq(Queues),
        flowCount : Nat, sparse : Nat, bulk : Nat,
        hosts : [HostSlots -> [hash : Nat, bulk : Nat]]]
-----------------------------------------------------------------------------
(* Finding a flow. *)

\* The ways of the packet's set, in order.
Ways(p) == LET base == (p.tag % NSets) * NWays IN base..(base + NWays - 1)

\* cake_flow_lookup: the packet's own slot, else the first that is free, else
\* the first of those with the least backlog, which is to be evicted.
SlotOf(tin, p) ==
  LET own == {i \in Ways(p) : tin.tags[i] = p.tag}
      free == {i \in Ways(p) : tin.tags[i] = 0}
      least == {i \in Ways(p) : \A j \in Ways(p) :
                                  tin.flows[i].backlog <= tin.flows[j].backlog}
  IN IF own # {} THEN Min(own) ELSE IF free # {} THEN Min(free) ELSE Min(least)

\* Mutant: the host keeps counting the flow that went.
HostLeft_Kept(tin, i) == tin.hosts

\* One bulk flow fewer for the host of flow i; a host that was taken over
\* starts at 0 again and is not counted below it.
HostLeft(tin, i) ==
  [tin.hosts EXCEPT ![tin.flows[i].host].bulk = IF @ > 0 THEN @ - 1 ELSE 0]

HostJoined(tin, i) == [tin.hosts EXCEPT ![tin.flows[i].host].bulk = @ + 1]

\* Flow i leaves its list and its tin's counts, and its slot is zeroed.
Unlinked(tin, i) ==
  LET f == tin.flows[i]
      In(s) == IF f.state = s THEN 1 ELSE 0
  IN [tin EXCEPT !.flows[i] = NoFlow,
                 !.new = RemoveFirst(@, i),
                 !.old = RemoveFirst(@, i),
                 !.decaying = RemoveFirst(@, i),
                 !.sparse = @ - In("sparse"),
                 !.bulk = @ - In("bulk"),
                 !.flowCount = @ - (1 - In("none")),
                 !.hosts = IF f.state = "bulk" THEN HostLeft(tin, i) ELSE @]

\* cake_flow_evict, with the discard of what is queued.
Evicted(cs, t, i) ==
  LET f == cs.tins[t].flows[i]
  IN [cs EXCEPT !.tins[t] = Unlinked(cs.tins[t], i),
                !.usage = @ - f.backlog,
                !.queued = @ - Len(f.ring)]

\* The scheduler when the packet's flow has its slot.  The tag stays there
\* also if the packet is then refused.
Found(cs, p) ==
  LET i == SlotOf(cs.tins[p.tin], p)
      tag == cs.tins[p.tin].tags[i]
      room == IF tag \in {0, p.tag} THEN cs ELSE Evicted(cs, p.tin, i)
  IN [room EXCEPT !.tins[p.tin].tags[i] = p.tag]

\* cake_host_lookup: the slot of the host, the first free one of four, or its
\* first one taken over.
HostOf(tin, hash) ==
  LET probe(k) == (hash + k) % NHosts
      hit == {k \in 0..(HostProbes - 1) : tin.hosts[probe(k)].hash \in {hash, 0}}
  IN IF hit # {} THEN probe(Min(hit)) ELSE probe(0)

HostsWith(tin, hash) ==
  LET h == HostOf(tin, hash)
      known == tin.hosts[h].hash \in {hash, 0}
  IN [tin.hosts EXCEPT ![h] = [hash |-> hash, bulk |-> IF known THEN @.bulk ELSE 0]]

\* cake_quantum_for_flow: a bulk flow shares its host's quantum.
QuantumOf(tin, f) ==
  LET load == Max({1, Min({tin.hosts[f.host].bulk, NSets * NWays})})
  IN Max({1, (Quantum * (65535 \div load)) \div 65536})
-----------------------------------------------------------------------------
(* Enqueue. *)

\* A flow that is not in use becomes sparse, at the head of the new flows.
Opened(tin, i, p) ==
  LET hosts == HostsWith(tin, p.host)
      f == [NoFlow EXCEPT !.state = "sparse", !.host = HostOf(tin, p.host)]
  IN IF tin.flows[i].state # "none" THEN tin
     ELSE [tin EXCEPT !.hosts = hosts,
                      !.flows[i] = [f EXCEPT !.deficit =
                                     QuantumOf([tin EXCEPT !.hosts = hosts], f)],
                      !.new = <<i>> \o @,
                      !.flowCount = @ + 1,
                      !.sparse = @ + 1]

Promotes(f) == \/ f.state = "sparse" /\ Len(f.ring) > 1
               \/ f.state = "decaying"

\* A sparse flow with a second packet, and a decaying flow with a first one,
\* go to the tail of the old flows.
Promoted(tin, i) ==
  LET f == tin.flows[i] IN
  IF Promotes(f)
  THEN [tin EXCEPT !.flows[i].state = "bulk",
                   !.new = RemoveFirst(@, i),
                   !.decaying = RemoveFirst(@, i),
                   !.old = Append(@, i),
                   !.sparse = IF f.state = "sparse" THEN @ - 1 ELSE @,
                   !.bulk = @ + 1,
                   !.hosts = HostJoined(tin, i)]
  ELSE tin

\* Whether the scheduler's limit and the flow's ring have room for p.
Fits(cs, p) ==
  LET tin == Found(cs, p).tins[p.tin] IN
  /\ Found(cs, p).usage + p.len <= Limit
  /\ Len(tin.flows[SlotOf(tin, p)].ring) < RingSize

\* The scheduler with p queued; its weight counts from the first packet on.
Queued(cs, p) ==
  LET found == Found(cs, p)
      tin == found.tins[p.tin]
      i == SlotOf(tin, p)
      open == Opened(tin, i, p)
      full == [open EXCEPT !.flows[i].ring = Append(@, p.len),
                           !.flows[i].backlog = @ + p.len]
  IN [found EXCEPT !.tins[p.tin] = Promoted(full, i),
                   !.usage = @ + p.len,
                   !.queued = @ + 1,
                   !.weighted = TRUE]
-----------------------------------------------------------------------------
(* Dequeue: one turn of the loop of cake_dequeue_node. *)

\* Tins with something to do; the highest goes first.
Busy(cs) == {t \in Tins : \/ cs.tins[t].sparse + cs.tins[t].bulk > 0
                          \/ cs.tins[t].decaying # <<>>}
TinOf(cs) == Max(Busy(cs))

\* cake_select_flow
FlowOf(cs) ==
  LET tin == cs.tins[TinOf(cs)]
  IN IF tin.new # <<>> THEN Head(tin.new)
     ELSE IF tin.old # <<>> THEN Head(tin.old) ELSE Head(tin.decaying)

Selected(cs) == cs.tins[TinOf(cs)].flows[FlowOf(cs)]
IsSparse(cs) == Selected(cs).state = "sparse"

\* The deficit a turn starts with: a sparse flow has no use for it.
Deficit(cs) ==
  LET f == Selected(cs)
  IN IF IsSparse(cs) \/ f.deficit > 0 THEN f.deficit
     ELSE f.deficit + QuantumOf(cs.tins[TinOf(cs)], f)

Refilled(cs) == [cs EXCEPT !.tins[TinOf(cs)].flows[FlowOf(cs)].deficit = Deficit(cs)]

\* cake_flow_reclaim: the slot is free again, its tag too.
Reclaimed(tin, i) == [Unlinked(tin, i) EXCEPT !.tags[i] = 0]

\* A bulk flow that spent its deficit goes to the tail of its list.
Rotated(tin, i) ==
  LET f == tin.flows[i] IN
  IF f.state = "bulk" /\ f.deficit <= 0 /\ f.ring # <<>>
  THEN [tin EXCEPT !.old = Append(RemoveFirst(@, i), i),
                   !.flows[i].deficit = 0]
  ELSE tin

\* A bulk flow that ran dry decays.
Decayed(tin, i) ==
  [tin EXCEPT !.flows[i].state = "decaying",
              !.old = RemoveFirst(@, i),
              !.decaying = Append(@, i),
              !.bulk = @ - 1,
              !.hosts = HostLeft(tin, i)]

\* Whether the turn comes to cake_dequeue_one with a packet.
HasPacket(cs) == /\ IsSparse(cs) \/ Deficit(cs) > 0
                 /\ Selected(cs).ring # <<>>

\* The turn of a flow with no packet to take: it is still in debt and waits
\* another round, or it ran dry and decays, or it decayed and goes.
Turned(cs) ==
  LET t == TinOf(cs)
      i == FlowOf(cs)
      tin == Refilled(cs).tins[t]
      next == IF tin.flows[i].deficit <= 0 THEN Rotated(tin, i)
              ELSE IF tin.flows[i].state = "bulk" THEN Decayed(tin, i)
              ELSE Reclaimed(tin, i)
  IN [cs EXCEPT !.tins[t] = next]

\* The turn that takes the packet at the head of the flow, spending its
\* length if it is sent.  A sparse flow without packets is reclaimed at once;
\* a bulk flow that spent its deficit is rotated unless the shaper ends the
\* visit first.
Taken(cs, sent, shaped) ==
  LET t == TinOf(cs)
      i == FlowOf(cs)
      f == Selected(cs)
      l == Head(f.ring)
      tin == [cs.tins[t] EXCEPT
                !.flows[i].ring = Tail(@),
                !.flows[i].backlog = @ - l,
                !.flows[i].deficit = Deficit(cs) - (IF sent THEN l ELSE 0)]
      next == IF IsSparse(cs)
              THEN IF Len(f.ring) = 1 THEN Reclaimed(tin, i) ELSE tin
              ELSE IF shaped THEN tin ELSE Rotated(tin, i)
  IN [cs EXCEPT !.tins[t] = next, !.usage = @ - l, !.queued = @ - 1]
-----------------------------------------------------------------------------
\* The flows of tin whose list, counts and state say the same.
ListsAgree(tin) ==
  LET Of(s) == {i \in Queues : tin.flows[i].state = s}
  IN /\ IsInjective(tin.new) /\ IsInjective(tin.old) /\ IsInjective(tin.decaying)
     /\ ToSet(tin.new) = Of("sparse") /\ tin.sparse = Len(tin.new)
     /\ ToSet(tin.old) = Of("bulk") /\ tin.bulk = Len(tin.old)
     /\ ToSet(tin.decaying) = Of("decaying")
     /\ tin.flowCount = Cardinality(Queues \ Of("none"))

\* The queues of tin are those of the flows in use, one per hash and among the
\* ways of its set.
QueuesAgree(tin) ==
  \A i \in Queues :
    LET f == tin.flows[i] IN
    /\ f.backlog = Bytes(f.ring) /\ Len(f.ring) <= RingSize
    /\ f.state = "sparse" => Len(f.ring) = 1
    /\ f.state \in {"none", "decaying"} => f.ring = <<>>
    /\ f.state # "none" => tin.tags[i] # 0
    /\ tin.tags[i] # 0 => i \in Ways([tag |-> tin.tags[i]])
    /\ \A j \in Queues \ {i} : tin.tags[i] = tin.tags[j] => tin.tags[i] = 0

\* A host is never taken to have more bulk flows than it has.
HostsBounded(tin) ==
  \A h \in HostSlots :
    tin.hosts[h].bulk
      <= Cardinality({i \in Queues : tin.flows[i].state = "bulk" /\ tin.flows[i].host = h})

\* What is queued, by queue: bytes, and packets.
Rings == Tins \X Queues
Backlogs(cs) == [r \in Rings |-> cs.tins[r[1]].flows[r[2]].backlog]
Lengths(cs) == [r \in Rings |-> Len(cs.tins[r[1]].flows[r[2]].ring)]

\* A scheduler's lists, counts and queues say the same: a flow is in the list
\* of its state and nowhere else, its hash names one queue, the bytes and
\* packets on the scheduler's account are those in its queues and within its
\* limit, and no host is charged for a flow it does not have.
Whole(cs) ==
  /\ \A t \in Tins : /\ ListsAgree(cs.tins[t]) /\ QueuesAgree(cs.tins[t])
                     /\ HostsBounded(cs.tins[t])
  /\ cs.usage = SumFunctionOnSet(Backlogs(cs), Rings)
  /\ cs.queued = SumFunctionOnSet(Lengths(cs), Rings)
  /\ cs.usage <= Limit
=============================================================================
