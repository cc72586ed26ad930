----------------------------- MODULE CakeOwner -----------------------------
(***************************************************************************)
(* Who runs a scheduler of the QoS plugin (plugins/osvbng_qos_sched).  The *)
(* first thread that sees a packet of a scheduler claims it with a         *)
(* compare-and-swap and starts its dequeue node; the others hand their     *)
(* packets over through the owner's frame queue.  A thread marks the       *)
(* schedulers it has to visit in a bitmap of its own.  The control plane   *)
(* enables and disables schedulers under the worker barrier; an index is   *)
(* reused, and packets that were handed over may find another scheduler,   *)
(* another owner or none.                                                  *)
(*                                                                         *)
(* Whether the aggregates above admit a packet, whether their gates and    *)
(* the scheduler's own shaper are open and when the frame budget ends is   *)
(* left open here: CakeTree and CakeShare are about that.                  *)
(***************************************************************************)
EXTENDS CakeFlow

CONSTANTS
  Threads,   \* VPP threads
  Ifaces,    \* subscriber interfaces
  NScheds,   \* bound: elements of cm->schedulers
  QueueSize, \* elements of a thread's frame queue
  Loads,     \* sets of <<thread, interface, packet>> that may arrive
  None       \* ~0

Scheds == 1..NScheds

\* cake_sched_t
Scheduler == [owner : Threads \cup {None}, tins : [Tins -> Tin],
              usage : Nat, queued : Nat, weighted : BOOLEAN]

ASSUME OwnerAssumption ==
  /\ NScheds \in Nat /\ QueueSize \in Nat \ {0}
  /\ \A load \in Loads : load \subseteq Threads \X Ifaces \X Packet
  /\ None \notin Threads \cup Scheds \cup Scheduler

VARIABLES
  load,     \* the traffic, the same throughout
  open,     \* whether it still comes
  sched,    \* cm->schedulers, None a free element
  schedOf,  \* sched_index_by_sw_if_index
  active,   \* active_bitmap of each thread
  polling,  \* threads whose dequeue node is polling
  handoff,  \* each thread's frame queue
  doing,    \* the packet in a thread's enqueue node, and what it read
  walk      \* the schedulers a thread's dequeue node has still to visit

vars == <<load, open, sched, schedOf, active, polling, handoff, doing, walk>>

Idle == [step |-> "idle"]
Has(step, i, p) == [step |-> step, on |-> i, pkt |-> p]

\* As cake_sched_enable_disable leaves it.
NewSched == [owner |-> None, tins |-> [t \in Tins |-> NewTin],
             usage |-> 0, queued |-> 0, weighted |-> FALSE]

Init ==
  /\ load \in Loads
  /\ open = TRUE
  /\ sched = [s \in Scheds |-> None]
  /\ schedOf = [i \in Ifaces |-> None]
  /\ active = [t \in Threads |-> {}]
  /\ polling = {}
  /\ handoff = [t \in Threads |-> <<>>]
  /\ doing = [t \in Threads |-> Idle]
  /\ walk = [t \in Threads |-> {}]

Free(t) == doing[t] = Idle /\ walk[t] = {}
Barrier == \A t \in Threads : Free(t)
-----------------------------------------------------------------------------
(* The control plane: cake_sched_enable_disable. *)

\* Only interfaces with traffic are of interest.
Enable(i, s) ==
  /\ Barrier
  /\ \E a \in load : a[2] = i
  /\ schedOf[i] = None /\ sched[s] = None
  /\ sched' = [sched EXCEPT ![s] = NewSched]
  /\ schedOf' = [schedOf EXCEPT ![i] = s]
  /\ UNCHANGED <<load, open, active, polling, handoff, doing, walk>>

\* Mutant: the owner's node stops with any of its schedulers.
Disable_StopsNode(i) ==
  LET s == schedOf[i] IN
  /\ Barrier
  /\ s # None
  /\ sched' = [sched EXCEPT ![s] = None]
  /\ schedOf' = [schedOf EXCEPT ![i] = None]
  /\ active' = [t \in Threads |-> active[t] \ {s}]
  /\ polling' = polling \ {sched[s].owner}
  /\ UNCHANGED <<load, open, handoff, doing, walk>>

\* Also when the interface is deleted.  What is queued is freed, every
\* thread's bit is cleared, and the owner's node stops with its last scheduler.
Disable(i) ==
  LET s == schedOf[i]
      others == {r \in Scheds \ {s} : sched[r] # None /\ sched[r].owner = sched[s].owner}
  IN
  /\ Barrier
  /\ s # None
  /\ sched' = [sched EXCEPT ![s] = None]
  /\ schedOf' = [schedOf EXCEPT ![i] = None]
  /\ active' = [t \in Threads |-> active[t] \ {s}]
  /\ polling' = IF others = {} THEN polling \ {sched[s].owner} ELSE polling
  /\ UNCHANGED <<load, open, handoff, doing, walk>>
-----------------------------------------------------------------------------
(* The enqueue node. *)

Receive(t, i, p) ==
  /\ open /\ Free(t)
  /\ <<t, i, p>> \in load
  /\ doing' = [doing EXCEPT ![t] = Has("read", i, p)]
  /\ UNCHANGED <<load, open, sched, schedOf, active, polling, handoff, walk>>

\* The frame queue leads to the enqueue node, which looks everything up anew.
ReceiveHandoff(t) ==
  /\ Free(t) /\ handoff[t] # <<>>
  /\ doing' = [doing EXCEPT ![t] = Has("read", Head(handoff[t]).on, Head(handoff[t]).pkt)]
  /\ handoff' = [handoff EXCEPT ![t] = Tail(@)]
  /\ UNCHANGED <<load, open, sched, schedOf, active, polling, walk>>

\* The traffic stops.
Lull ==
  /\ open
  /\ open' = FALSE
  /\ UNCHANGED <<load, sched, schedOf, active, polling, handoff, doing, walk>>

At(t) == schedOf[doing[t].on]
Done(t) == doing' = [doing EXCEPT ![t] = Idle]

\* No scheduler on the interface: the packet goes on unshaped.
PassThrough(t) ==
  /\ doing[t].step = "read" /\ At(t) = None
  /\ Done(t)
  /\ UNCHANGED <<load, open, sched, schedOf, active, polling, handoff, walk>>

\* The scheduler has no owner yet; another thread may see that as well.
SeeUnowned(t) ==
  /\ doing[t].step = "read" /\ At(t) # None
  /\ sched[At(t)].owner = None
  /\ doing' = [doing EXCEPT ![t].step = "claim"]
  /\ UNCHANGED <<load, open, sched, schedOf, active, polling, handoff, walk>>

\* Mutant: the claim is a test and a store.
MayClaim_Store(t) == doing[t].step = "claim"

\* The compare-and-swap makes the thread the owner.
MayClaim(t) == doing[t].step = "claim" /\ sched[At(t)].owner = None

\* The thread may touch the scheduler.
Own(t) == \/ doing[t].step = "read" /\ At(t) # None /\ sched[At(t)].owner = t
          \/ MayClaim(t)

Claimed(t) == [sched[At(t)] EXCEPT !.owner = t]

EnqueueLocal(t) ==
  /\ Own(t)
  /\ Fits(sched[At(t)], doing[t].pkt)
  /\ sched' = [sched EXCEPT ![At(t)] = Queued(Claimed(t), doing[t].pkt)]
  /\ polling' = polling \cup {t}
  /\ active' = [active EXCEPT ![t] = @ \cup {At(t)}]
  /\ Done(t)
  /\ UNCHANGED <<load, open, schedOf, handoff, walk>>

\* Refused by the scheduler's limit, by an aggregate or by the flow's ring:
\* the flow was looked up, and another may have been evicted for it.
EnqueueDrop(t) ==
  /\ Own(t)
  /\ sched' = [sched EXCEPT ![At(t)] = Found(Claimed(t), doing[t].pkt)]
  /\ polling' = polling \cup {t}
  /\ Done(t)
  /\ UNCHANGED <<load, open, schedOf, active, handoff, walk>>

\* Another thread is the owner, or was faster: the handoff node reads who it
\* is and appends to its frame queue; a full one drops the packet.
HandOff(t) ==
  LET owner == sched[At(t)].owner
      p == [on |-> doing[t].on, pkt |-> doing[t].pkt]
  IN
  /\ doing[t].step \in {"read", "claim"} /\ At(t) # None
  /\ owner \notin {t, None}
  /\ handoff' = [handoff EXCEPT ![owner] = IF Len(@) < QueueSize THEN Append(@, p) ELSE @]
  /\ Done(t)
  /\ UNCHANGED <<load, open, sched, schedOf, active, polling, walk>>
-----------------------------------------------------------------------------
(* The dequeue node. *)

Dispatch(t) ==
  /\ Free(t) /\ t \in polling
  /\ active[t] # {}
  /\ walk' = [walk EXCEPT ![t] = active[t]]
  /\ UNCHANGED <<load, open, sched, schedOf, active, polling, handoff, doing>>

\* The scheduler the walk is at, in ascending order of index.
Visited(t) == Min(walk[t])
Leave(t) == walk' = [walk EXCEPT ![t] = @ \ {Visited(t)}]

\* The scheduler is live, the thread's own, and has a flow.
Serves(t) ==
  /\ walk[t] # {}
  /\ sched[Visited(t)] # None /\ sched[Visited(t)].owner = t
  /\ Busy(sched[Visited(t)]) # {}

Set(t, cs) ==
  /\ sched' = [sched EXCEPT ![Visited(t)] = cs]
  /\ UNCHANGED <<load, open, schedOf, active, polling, handoff, doing>>

\* The scheduler's shaper is closed.
VisitShaped(t) ==
  /\ Serves(t)
  /\ Leave(t)
  /\ UNCHANGED <<load, open, sched, schedOf, active, polling, handoff, doing>>

\* A flow without a packet to take: the loop goes on.
VisitTurn(t) ==
  LET cs == sched[Visited(t)] IN
  /\ Serves(t) /\ ~HasPacket(cs)
  /\ Set(t, Turned(cs))
  /\ UNCHANGED walk

\* A gate above is closed, or the share is spent: the visit ends.
VisitBlocked(t) ==
  LET cs == sched[Visited(t)] IN
  /\ Serves(t) /\ HasPacket(cs)
  /\ Set(t, Refilled(cs))
  /\ Leave(t)

\* COBALT drops the packet.
VisitDrop(t) ==
  LET cs == sched[Visited(t)] IN
  /\ Serves(t) /\ HasPacket(cs)
  /\ Set(t, Taken(cs, FALSE, FALSE))
  /\ UNCHANGED walk

\* The packet is sent; the loop goes on, the shaper closes or the budget of
\* the dispatch ends.
VisitSend(t) ==
  LET cs == sched[Visited(t)] IN
  /\ Serves(t) /\ HasPacket(cs)
  /\ \/ Set(t, Taken(cs, TRUE, FALSE)) /\ UNCHANGED walk
     \/ Set(t, Taken(cs, TRUE, TRUE)) /\ Leave(t)
     \/ /\ \E shaped \in BOOLEAN : Set(t, Taken(cs, TRUE, shaped))
        /\ walk' = [walk EXCEPT ![t] = {}]

\* Nothing to do: a live scheduler of the thread's takes its weight back, and
\* the bit goes, whoever's it is.  (The code clears it after the walk, before
\* anything else runs on the thread.)
VisitIdle(t) ==
  LET s == Visited(t) IN
  /\ walk[t] # {} /\ ~Serves(t)
  /\ sched' = IF sched[s] # None /\ sched[s].owner = t
              THEN [sched EXCEPT ![s].weighted = FALSE] ELSE sched
  /\ active' = [active EXCEPT ![t] = @ \ {s}]
  /\ Leave(t)
  /\ UNCHANGED <<load, open, schedOf, polling, handoff, doing>>
-----------------------------------------------------------------------------
Enqueue(t) == \/ PassThrough(t) \/ SeeUnowned(t)
              \/ EnqueueLocal(t) \/ EnqueueDrop(t) \/ HandOff(t)
Visit(t) == \/ VisitShaped(t) \/ VisitTurn(t) \/ VisitBlocked(t)
            \/ VisitDrop(t) \/ VisitSend(t) \/ VisitIdle(t)

Next ==
  \/ \E i \in Ifaces : Disable(i) \/ \E s \in Scheds : Enable(i, s)
  \/ \E a \in load : Receive(a[1], a[2], a[3])
  \/ Lull
  \/ \E t \in Threads : \/ ReceiveHandoff(t) \/ Enqueue(t)
                        \/ Dispatch(t) \/ Visit(t)

Spec == Init /\ [][Next]_vars

\* Every thread keeps dispatching its nodes, leaves the enqueue node and
\* empties its frame queue.  Time passes, so the shaper and the gates do not
\* refuse for ever: a thread that again and again has a flow to serve serves
\* one again and again (strong fairness of VisitTurn \/ VisitSend, which is
\* enabled when Serves is).
Fairness ==
  \A t \in Threads :
    /\ []<>(doing[t] = Idle)
    /\ WF_vars(VisitIdle(t))
    /\ SF_vars(ReceiveHandoff(t)) /\ SF_vars(Dispatch(t))
    /\ <>[]~Serves(t) \/ []<><<VisitTurn(t) \/ VisitSend(t)>>_vars

FairSpec == Spec /\ Fairness
-----------------------------------------------------------------------------
Live == {s \in Scheds : sched[s] # None}

TypeOK ==
  /\ load \in Loads /\ open \in BOOLEAN
  /\ sched \in [Scheds -> Scheduler \cup {None}]
  /\ schedOf \in [Ifaces -> Scheds \cup {None}]
  /\ active \in [Threads -> SUBSET Scheds] /\ walk \in [Threads -> SUBSET Scheds]
  /\ polling \subseteq Threads
  /\ handoff \in [Threads -> Seq([on : Ifaces, pkt : Packet])]
  /\ \A t \in Threads : Len(handoff[t]) <= QueueSize
  /\ doing \in [Threads -> {Idle} \cup
                 [step : {"read", "claim"}, on : Ifaces, pkt : Packet]]

\* Whatever was evicted, refused, dropped, sent or left over when a gate
\* closed, every scheduler's lists, counts and queues say the same.
FlowsWhole == TypeOK /\ \A s \in Live : Whole(sched[s])

\* "Each subscriber's scheduler is owned by exactly one VPP worker thread"
\* (INTRODUCTION.md), and that thread looks after it: only the owner has the
\* scheduler in its bitmap, it has it there while anything is queued and
\* exactly while the scheduler's weight counts, and a node polls exactly
\* while its thread owns a scheduler.  Also after claims that raced, and
\* after an index was given to a scheduler of another owner.
OwnerServes ==
  /\ \A s \in Live : /\ sched[s].queued > 0 => sched[s].weighted
                     /\ sched[s].weighted <=> \E t \in Threads : s \in active[t]
  /\ \A t \in Threads : \A s \in active[t] : s \in Live /\ sched[s].owner = t
  /\ polling = {t \in Threads : \E s \in Live : sched[s].owner = t}

\* Once the traffic stops every packet leaves, those handed over included, and
\* every scheduler goes idle and gives its weight back: no packet waits for
\* the next one to come.
Drains ==
  ~open ~> /\ \A t \in Threads : handoff[t] = <<>> /\ active[t] = {}
           /\ \A s \in Live : sched[s].queued = 0
=============================================================================
