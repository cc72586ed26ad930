------------------------------ MODULE CakeTree ------------------------------
(***************************************************************************)
(* The aggregate tree of the QoS scheduler (plugins/osvbng_qos_sched).     *)
(* Subscriber schedulers hang off an S-VLAN aggregate or a port aggregate, *)
(* an S-VLAN off its port.  Each tier keeps the weight and the number of   *)
(* its active children and the bytes queued beneath it, in plain counters  *)
(* that the owner threads of the schedulers move with separate atomic      *)
(* operations.  The control plane changes the tree under the worker        *)
(* barrier and moves what the change implies.                              *)
(*                                                                         *)
(* A scheduler is one process here: what its owner thread does for it.     *)
(* Schedulers that share a thread run one after the other, which is some   *)
(* of these interleavings.  How flows and gates choose packets is not      *)
(* decided here: any queued packet may leave.                              *)
(***************************************************************************)
EXTENDS Integers, Sequences, FiniteSets, FiniteSetsExt, Functions

CONSTANTS
  Agg,      \* the slots of cm->aggregates
  Port,     \* interfaces that may carry a port aggregate
  Tag,      \* S-VLAN ids, an interval
  Sched,    \* interfaces that may carry a scheduler
  Chain,    \* Chain[s]: the interfaces from s up its sup_sw_if_index, each
            \* with its single 802.1Q tag
  None,     \* ~0
  Rates,    \* rates of the requests; 0 on update keeps the rate
  Weights,  \* weights of the requests; 0 on update keeps the weight
  Limits,   \* buffer limits of the requests; 0 on update keeps the limit
  Lens,     \* packet lengths
  SchedLimit, \* buffer_limit of every scheduler
  MaxActive \* bound: schedulers with an operation under way at once

ASSUME TreeAssumption ==
  /\ IsFiniteSet(Agg) /\ IsFiniteSet(Sched) /\ IsFiniteSet(Port)
  /\ None \notin Agg \cup Tag /\ Tag \subseteq Nat
  /\ Rates \subseteq Nat /\ Weights \subseteq Nat /\ Limits \subseteq Nat \ {0}
  /\ Lens \subseteq Nat \ {0} /\ IsFiniteSet(Lens)
  /\ SchedLimit \in Nat /\ MaxActive \in Nat \ {0}
  /\ \A s \in Sched :
       /\ Len(Chain[s]) \in Nat /\ DOMAIN Chain[s] = 1..Len(Chain[s])
       /\ \A i \in DOMAIN Chain[s] : Chain[s][i].tag \in Tag \cup {None}

VARIABLES
  live,    \* slots in use
  agg,     \* the aggregates
  aggOf,   \* agg_index_by_sw_if_index
  sched,   \* the schedulers
  job,     \* what the owner thread is doing for a scheduler
  ctl      \* the control operation that holds the barrier

vars == <<live, agg, aggOf, sched, job, ctl>>

\* cake_effective_weight
EffectiveWeight(rate, weight) ==
  (IF rate = 0 THEN 1 ELSE rate) * (IF weight = 0 THEN 1 ELSE weight)

NewAgg(parent, first, last, rate, weight, limit) ==
  [parent |-> parent, first |-> first, last |-> last, rate |-> rate,
   weight |-> IF weight = 0 THEN 1 ELSE weight,
   eweight |-> EffectiveWeight(rate, weight), limit |-> limit,
   map |-> [t \in Tag |-> None], activeWeight |-> 0, nActive |-> 0, usage |-> 0]

\* pool_get zeroes a slot, and nothing reads a free one.
FreeAgg == NewAgg(None, 0, 0, 0, 0, 0)

Disabled == [on |-> FALSE, attach |-> None, eweight |-> 0, active |-> FALSE,
             queue |-> [l \in Lens |-> 0]]

\* A job in progress: the step it is at, the tier it is at, the bytes it moves.
Idle == [pc |-> "idle", at |-> None, amt |-> 0]
Job(pc, at, amt) == [pc |-> pc, at |-> at, amt |-> amt]

\* Reattach the schedulers in todo, then put the slot gone; cascade is the
\* interface being deleted, tags what is left of its S-VLANs.
NoCtl == [todo |-> {}, gone |-> None, cascade |-> None, tags |-> {}]

Init ==
  /\ live = {}
  /\ agg = [a \in Agg |-> FreeAgg]
  /\ aggOf = [p \in Port |-> None]
  /\ sched = [s \in Sched |-> Disabled]
  /\ job = [s \in Sched |-> Idle]
  /\ ctl = NoCtl

\* The bytes of so many packets of each length
Bytes(q) == SumFunctionOnSet([l \in Lens |-> l * q[l]], Lens)

\* cs->buffer_usage, the bytes of what it has queued
Queued(s) == Bytes(sched[s].queue)

\* The tiers from a up: cake_agg_chain
ChainOf(a) ==
  IF a = None THEN {}
  ELSE {a} \cup (IF agg[a].parent = None THEN {} ELSE {agg[a].parent})

\* cake_sched_resolve_attachment: the nearest interface above s that carries
\* an aggregate, and in its map the outermost tag seen on the way.
Resolve(s, of, g) ==
  LET hops == {i \in 2..Len(Chain[s]) :
                 Chain[s][i].sw \in Port /\ of[Chain[s][i].sw] # None}
  IN IF hops = {} THEN None
     ELSE LET at   == Min(hops)
              port == of[Chain[s][at].sw]
              tags == {i \in 1..(at - 1) : Chain[s][i].tag # None}
              svlan == IF tags = {} THEN None
                       ELSE g[port].map[Chain[s][Max(tags)].tag]
          IN IF svlan = None THEN port ELSE svlan
-----------------------------------------------------------------------------
(* The owner threads. *)

\* The barrier is not held, and the bound lets s start.
MayStart(s) ==
  /\ ctl.todo = {} /\ ctl.gone = None
  /\ sched[s].on /\ job[s] = Idle
  /\ Cardinality({r \in Sched : job[r] # Idle}) < MaxActive

Goto(s, pc, at, amt) == job' = [job EXCEPT ![s] = Job(pc, at, amt)]

\* A packet of length l reaches its scheduler: its own limit, then the chain.
Enqueue(s, l) ==
  /\ MayStart(s)
  /\ Queued(s) + l <= SchedLimit
  /\ Goto(s, IF sched[s].attach = None THEN "admitted" ELSE "filter",
          sched[s].attach, l)
  /\ UNCHANGED <<live, agg, aggOf, sched, ctl>>

\* Refused at tier a: the tiers below a that admitted the packet let go.
Refused(s, a) ==
  IF a = sched[s].attach THEN Idle ELSE Job("unwind", sched[s].attach, job[s].amt)

\* cake_agg_admit_chain: the read-only overload filter of a tier.
Filter(s) ==
  LET a == job[s].at IN
  /\ job[s].pc = "filter"
  /\ job' = [job EXCEPT ![s] =
       IF agg[a].usage > agg[a].limit THEN Refused(s, a)
       ELSE Job("add", a, @.amt)]
  /\ UNCHANGED <<live, agg, aggOf, sched, ctl>>

\* Mutant: the comparison leaves the packet out.
Fits_Before(a, l) == agg[a].usage <= agg[a].limit

\* prev + len against the limit
Fits(a, l) == agg[a].usage + l <= agg[a].limit

\* cake_agg_admit: add first, and verify with what was there before.
Add(s) ==
  LET a == job[s].at
      fits == Fits(a, job[s].amt)
      up == agg[a].parent
  IN
  /\ job[s].pc = "add"
  /\ agg' = [agg EXCEPT ![a].usage = @ + job[s].amt]
  /\ job' = [job EXCEPT ![s] =
       IF ~fits THEN Job("undo", a, @.amt)
       ELSE IF up = None THEN Job("admitted", sched[s].attach, @.amt)
       ELSE Job("filter", up, @.amt)]
  /\ UNCHANGED <<live, aggOf, sched, ctl>>

\* cake_agg_admit: a refusal takes its own addition back.
Undo(s) ==
  LET a == job[s].at IN
  /\ job[s].pc = "undo"
  /\ agg' = [agg EXCEPT ![a].usage = @ - job[s].amt]
  /\ job' = [job EXCEPT ![s] = Refused(s, a)]
  /\ UNCHANGED <<live, aggOf, sched, ctl>>

\* Mutant: the port's refusal leaves the S-VLAN charged.
Unwind_Leak(s) ==
  /\ job[s].pc = "unwind"
  /\ job' = [job EXCEPT ![s] = Idle]
  /\ UNCHANGED <<live, agg, aggOf, sched, ctl>>

\* cake_agg_admit_chain: a refusal at the port releases the S-VLAN.
Unwind(s) ==
  LET a == job[s].at IN
  /\ job[s].pc = "unwind"
  /\ agg' = [agg EXCEPT ![a].usage = @ - job[s].amt]
  /\ job' = [job EXCEPT ![s] = Idle]
  /\ UNCHANGED <<live, aggOf, sched, ctl>>

\* The packet is charged at every tier: it is queued, and an idle scheduler
\* becomes active and brings its weight to the tier above.
Commit(s) ==
  LET l == job[s].amt
      joins == ~sched[s].active /\ sched[s].attach # None
  IN
  /\ job[s].pc = "admitted"
  /\ sched' = [sched EXCEPT ![s].queue[l] = @ + 1, ![s].active = TRUE]
  /\ job' = [job EXCEPT ![s] =
       IF joins THEN Job("joinW", sched[s].attach, 0) ELSE Idle]
  /\ UNCHANGED <<live, agg, aggOf, ctl>>

\* The packet's flow has its ring full: the charge is given back.
RingFull(s) ==
  /\ job[s].pc = "admitted"
  /\ job' = [job EXCEPT ![s] =
       IF sched[s].attach = None THEN Idle
       ELSE Job("release", sched[s].attach, job[s].amt)]
  /\ UNCHANGED <<live, agg, aggOf, sched, ctl>>

\* cake_agg_discharge, one tier at a time through the current attachment.
Release(s) ==
  LET a == job[s].at IN
  /\ job[s].pc = "release"
  /\ agg' = [agg EXCEPT ![a].usage = @ - job[s].amt]
  /\ job' = [job EXCEPT ![s] =
       IF agg[a].parent = None THEN Idle ELSE Job("release", agg[a].parent, @.amt)]
  /\ UNCHANGED <<live, aggOf, sched, ctl>>

\* Packets leave the scheduler's queue and their charge is released.
Remove(s, out) ==
  /\ sched' = [sched EXCEPT ![s].queue = [l \in Lens |-> @[l] - out[l]]]
  /\ job' = [job EXCEPT ![s] =
       IF sched[s].attach = None THEN Idle
       ELSE Job("release", sched[s].attach, Bytes(out))]
  /\ UNCHANGED <<live, agg, aggOf, ctl>>

\* cake_dequeue_one sends a packet, or COBALT drops it.
Dequeue(s, l) ==
  /\ MayStart(s) /\ sched[s].queue[l] > 0
  /\ Remove(s, [k \in Lens |-> IF k = l THEN 1 ELSE 0])

\* cake_flow_evict discards the whole backlog of one flow, some of the
\* packets, to make room for another flow.
Evict(s) ==
  /\ MayStart(s)
  /\ \E out \in {f \in [Lens -> 0..SchedLimit] :
                   \A l \in Lens : f[l] <= sched[s].queue[l]} :
       /\ \E l \in Lens : out[l] > 0
       /\ Remove(s, out)

\* The dequeue walk finds the scheduler empty: cake_sched_drr_deactivate.
Deactivate(s) ==
  /\ MayStart(s) /\ sched[s].active /\ Queued(s) = 0
  /\ sched' = [sched EXCEPT ![s].active = FALSE]
  /\ job' = [job EXCEPT ![s] =
       IF sched[s].attach = None THEN Idle ELSE Job("leaveW", sched[s].attach, 0)]
  /\ UNCHANGED <<live, agg, aggOf, ctl>>

\* The weight that moves at the tier a job is at: the scheduler's own into its
\* parent, and the S-VLAN's into the port.
Moving(s) ==
  IF job[s].at = sched[s].attach THEN sched[s].eweight
  ELSE agg[sched[s].attach].eweight

\* cake_drr_parent_join, the weight.
JoinWeight(s) ==
  LET a == job[s].at IN
  /\ job[s].pc = "joinW"
  /\ agg' = [agg EXCEPT ![a].activeWeight = @ + Moving(s)]
  /\ Goto(s, "joinN", a, 0)
  /\ UNCHANGED <<live, aggOf, sched, ctl>>

\* Mutant: every join is carried upward.
JoinCount_Every(s) ==
  LET a == job[s].at IN
  /\ job[s].pc = "joinN"
  /\ agg' = [agg EXCEPT ![a].nActive = @ + 1]
  /\ job' = [job EXCEPT ![s] =
       IF agg[a].parent # None THEN Job("joinW", agg[a].parent, 0) ELSE Idle]
  /\ UNCHANGED <<live, aggOf, sched, ctl>>

\* cake_drr_parent_join, the count; only 0 -> 1 is carried upward.
JoinCount(s) ==
  LET a == job[s].at IN
  /\ job[s].pc = "joinN"
  /\ agg' = [agg EXCEPT ![a].nActive = @ + 1]
  /\ job' = [job EXCEPT ![s] =
       IF agg[a].nActive = 0 /\ agg[a].parent # None
       THEN Job("joinW", agg[a].parent, 0) ELSE Idle]
  /\ UNCHANGED <<live, aggOf, sched, ctl>>

\* cake_drr_parent_leave, the weight.
LeaveWeight(s) ==
  LET a == job[s].at IN
  /\ job[s].pc = "leaveW"
  /\ agg' = [agg EXCEPT ![a].activeWeight = @ - Moving(s)]
  /\ Goto(s, "leaveN", a, 0)
  /\ UNCHANGED <<live, aggOf, sched, ctl>>

\* cake_drr_parent_leave, the count; only 1 -> 0 is carried upward.
LeaveCount(s) ==
  LET a == job[s].at IN
  /\ job[s].pc = "leaveN"
  /\ agg' = [agg EXCEPT ![a].nActive = @ - 1]
  /\ job' = [job EXCEPT ![s] =
       IF agg[a].nActive = 1 /\ agg[a].parent # None
       THEN Job("leaveW", agg[a].parent, 0) ELSE Idle]
  /\ UNCHANGED <<live, aggOf, sched, ctl>>

Worker ==
  \E s \in Sched :
    \/ \E l \in Lens : Enqueue(s, l) \/ Dequeue(s, l)
    \/ Filter(s) \/ Add(s) \/ Undo(s) \/ Unwind(s)
    \/ Commit(s) \/ RingFull(s) \/ Release(s) \/ Evict(s) \/ Deactivate(s)
    \/ JoinWeight(s) \/ JoinCount(s) \/ LeaveWeight(s) \/ LeaveCount(s)
-----------------------------------------------------------------------------
(* The control plane, under the worker barrier. *)

\* The barrier is reached when no owner thread is inside an operation.
Barrier ==
  /\ \A s \in Sched : job[s] = Idle
  /\ ctl.todo = {} /\ ctl.gone = None

\* No interface delete is under way on the main thread.
MainFree == Barrier /\ ctl.cascade = None

\* A child of weight w comes to tier a (n is 1), or one leaves it (n is -1).
Moved(g, a, w, n) ==
  [g EXCEPT ![a].activeWeight = @ + n * w, ![a].nActive = @ + n]

\* cake_agg_weight_add and cake_agg_weight_sub of child weight w at tier a,
\* both tiers at once: g is the table of aggregates.
WeightAdd(g, a, w) ==
  IF a = None THEN g
  ELSE IF g[a].nActive = 0 /\ g[a].parent # None
       THEN Moved(Moved(g, a, w, 1), g[a].parent, g[a].eweight, 1)
       ELSE Moved(g, a, w, 1)

WeightSub(g, a, w) ==
  IF a = None THEN g
  ELSE IF g[a].nActive = 1 /\ g[a].parent # None
       THEN Moved(Moved(g, a, w, -1), g[a].parent, g[a].eweight, -1)
       ELSE Moved(g, a, w, -1)

\* cake_sched_enable_disable, enable.
Enable(s, rate, weight) ==
  /\ MainFree /\ ~sched[s].on
  /\ sched' = [sched EXCEPT ![s] =
       [Disabled EXCEPT !.on = TRUE, !.attach = Resolve(s, aggOf, agg),
                        !.eweight = EffectiveWeight(rate, weight)]]
  /\ UNCHANGED <<live, agg, aggOf, job, ctl>>

\* cake_sched_enable_disable, disable: every tin is drained, the charge
\* released up the chain, and the weight leaves the parent.
Disable(s) ==
  LET drained == [a \in Agg |->
        IF a \in ChainOf(sched[s].attach)
        THEN [agg[a] EXCEPT !.usage = @ - Queued(s)] ELSE agg[a]]
  IN
  /\ MainFree /\ sched[s].on
  /\ agg' = IF sched[s].active
            THEN WeightSub(drained, sched[s].attach, sched[s].eweight)
            ELSE drained
  /\ sched' = [sched EXCEPT ![s] = Disabled]
  /\ UNCHANGED <<live, aggOf, job, ctl>>

\* Mutant: the members stay where they are.
Members_None == {}

\* The schedulers cake_agg_reparent_all walks.
Members == {s \in Sched : sched[s].on}

\* Every scheduler is to be resolved again, then the slot gone is put.
StartReparent(gone) == ctl' = [ctl EXCEPT !.todo = Members, !.gone = gone]

\* Mutant: only the weight moves; the charge stays where it was taken.
Recharge_Not(g, s, old, new) == g

\* The outstanding charge moves to the tiers that are new to the scheduler
\* from those it leaves; the tiers of both chains are not touched.
Recharge(g, s, old, new) ==
  [a \in Agg |->
     [g[a] EXCEPT !.usage =
        @ + (IF a \in ChainOf(new) \ ChainOf(old) THEN Queued(s) ELSE 0)
          - (IF a \in ChainOf(old) \ ChainOf(new) THEN Queued(s) ELSE 0)]]

\* One iteration of cake_agg_reparent_all: the weight leaves the old parent
\* and joins the new one, and the charge follows.
ReparentOne(s) ==
  LET old == sched[s].attach
      new == Resolve(s, aggOf, agg)
      moved == IF sched[s].active
               THEN WeightAdd(WeightSub(agg, old, sched[s].eweight), new, sched[s].eweight)
               ELSE agg
  IN
  /\ s \in ctl.todo
  /\ sched' = [sched EXCEPT ![s].attach = new]
  /\ agg' = IF new = old THEN agg ELSE Recharge(moved, s, old, new)
  /\ ctl' = [ctl EXCEPT !.todo = @ \ {s}]
  /\ UNCHANGED <<live, aggOf, job>>

\* The end of a delete: pool_put_index.
PutAgg ==
  /\ ctl.todo = {} /\ ctl.gone # None
  /\ live' = live \ {ctl.gone}
  /\ agg' = [agg EXCEPT ![ctl.gone] = FreeAgg]
  /\ ctl' = [ctl EXCEPT !.gone = None]
  /\ UNCHANGED <<aggOf, sched, job>>

\* cake_aggregate_create
CreatePort(p, rate, weight, limit) ==
  /\ MainFree /\ aggOf[p] = None
  /\ \E a \in Agg \ live :
       /\ live' = live \cup {a}
       /\ agg' = [agg EXCEPT ![a] = NewAgg(None, 0, 0, rate, weight, limit)]
       /\ aggOf' = [aggOf EXCEPT ![p] = a]
  /\ StartReparent(None)
  /\ UNCHANGED <<sched, job>>

\* cake_svlan_aggregate_create
CreateSvlan(p, first, last, rate, weight, limit) ==
  LET port == aggOf[p] IN
  /\ MainFree /\ port # None /\ first <= last
  /\ rate <= agg[port].rate
  /\ \A t \in Tag : t \in first..last => agg[port].map[t] = None
  /\ \E a \in Agg \ live :
       /\ live' = live \cup {a}
       /\ agg' = [agg EXCEPT
            ![a] = NewAgg(port, first, last, rate, weight, limit),
            ![port].map = [t \in Tag |-> IF t \in first..last THEN a ELSE @[t]]]
  /\ StartReparent(None)
  /\ UNCHANGED <<aggOf, sched, job>>

\* The body of cake_svlan_aggregate_delete, and the members' fall to the port.
RemoveSvlan(p, tag) ==
  LET port == aggOf[p]
      a == agg[port].map[tag]
  IN
  /\ port # None /\ a # None
  /\ agg' = [agg EXCEPT ![port].map = [t \in Tag |-> IF @[t] = a THEN None ELSE @[t]]]
  /\ UNCHANGED <<live, aggOf, sched, job>>

Reattach(gone, rest) ==
  ctl' = [ctl EXCEPT !.todo = Members, !.gone = gone, !.tags = rest]

\* cake_svlan_aggregate_delete
DeleteSvlan(p, tag) ==
  /\ MainFree /\ aggOf[p] # None
  /\ RemoveSvlan(p, tag)
  /\ StartReparent(agg[aggOf[p]].map[tag])

\* The S-VLANs of a port.
Children(port) == {a \in live : agg[a].parent = port}

\* cake_aggregate_delete
RemovePort(p) ==
  /\ aggOf[p] # None
  /\ Children(aggOf[p]) = {}
  /\ aggOf' = [aggOf EXCEPT ![p] = None]
  /\ UNCHANGED <<live, agg, sched, job>>

DeletePort(p) ==
  /\ MainFree
  /\ RemovePort(p)
  /\ StartReparent(aggOf[p])

\* cake_sw_interface_add_del on the delete of a port's interface: its S-VLANs
\* are collected by their first tag and deleted, each under a barrier of its
\* own, and then the port.
InterfaceDel(p) ==
  /\ MainFree /\ aggOf[p] # None
  /\ ctl' = [ctl EXCEPT !.cascade = p, !.tags = {agg[c].first : c \in Children(aggOf[p])}]
  /\ UNCHANGED <<live, agg, aggOf, sched, job>>

CascadeSvlan ==
  /\ Barrier /\ ctl.cascade # None
  /\ \E t \in ctl.tags :
       /\ RemoveSvlan(ctl.cascade, t)
       /\ Reattach(agg[aggOf[ctl.cascade]].map[t], ctl.tags \ {t})

CascadePort ==
  /\ Barrier /\ ctl.cascade # None /\ ctl.tags = {}
  /\ RemovePort(ctl.cascade)
  /\ ctl' = [NoCtl EXCEPT !.todo = Members, !.gone = aggOf[ctl.cascade]]

\* Mutant: a port may be lowered beneath its S-VLANs.
RateAllowed_Up(a, rate) ==
  rate # 0 /\ agg[a].parent # None => rate <= agg[agg[a].parent].rate

\* An S-VLAN is not shaped above its port, nor a port below its S-VLANs.
RateAllowed(a, rate) ==
  /\ rate # 0 /\ agg[a].parent # None => rate <= agg[agg[a].parent].rate
  /\ rate # 0 /\ agg[a].parent = None => \A c \in Children(a) : agg[c].rate <= rate

\* Mutant: a parent counts every S-VLAN.
CountedAbove_Always(a) == agg[a].parent # None

\* The parent counts the aggregate while a child of it is active.
CountedAbove(a) == agg[a].parent # None /\ agg[a].nActive > 0

\* cake_aggregate_update of the port (tag is None) or of an S-VLAN: the
\* parent's weight moves by the difference, while it counts the aggregate.
Update(p, tag, rate, weight, limit) ==
  LET port == aggOf[p]
      a == IF tag = None THEN port ELSE agg[port].map[tag]
      old == agg[a]
      new == [old EXCEPT !.rate = IF rate = 0 THEN @ ELSE rate,
                         !.weight = IF weight = 0 THEN @ ELSE weight,
                         !.limit = IF limit = 0 THEN @ ELSE limit]
      ew == EffectiveWeight(new.rate, new.weight)
  IN
  /\ MainFree /\ port # None /\ a # None
  /\ RateAllowed(a, rate)
  /\ agg' = [b \in Agg |->
       IF b = a THEN [new EXCEPT !.eweight = ew]
       ELSE IF b = old.parent /\ CountedAbove(a)
         THEN [agg[b] EXCEPT !.activeWeight = @ + ew - old.eweight]
       ELSE agg[b]]
  /\ UNCHANGED <<live, aggOf, sched, job, ctl>>

Control ==
  \/ \E s \in Sched, r \in Rates, w \in Weights : Enable(s, r, w)
  \/ \E s \in Sched : Disable(s) \/ ReparentOne(s)
  \/ PutAgg
  \/ \E p \in Port, r \in Rates, w \in Weights, n \in Limits : CreatePort(p, r, w, n)
  \/ \E p \in Port, f \in Tag, t \in Tag, r \in Rates, w \in Weights, n \in Limits :
       CreateSvlan(p, f, t, r, w, n)
  \/ \E p \in Port, t \in Tag : DeleteSvlan(p, t)
  \/ \E p \in Port : DeletePort(p) \/ InterfaceDel(p)
  \/ CascadeSvlan \/ CascadePort
  \/ \E p \in Port, t \in Tag \cup {None}, r \in Rates \cup {0},
        w \in Weights \cup {0}, n \in Limits \cup {0} : Update(p, t, r, w, n)

Next == Worker \/ Control

Spec == Init /\ [][Next]_vars
-----------------------------------------------------------------------------
(* What the counters should say. *)

\* What the scheduler sc with job j is worth in a counter of tier a: 1 if it is
\* counted there as a child, or its S-VLAN still is while it carries the last
\* leave up, and -1 if its S-VLAN is not yet while it carries the first join.
\* The job is at one of the steps joins, or leaves, until it moves the counter.
Share(sc, j, a, joins, leaves) ==
  LET joining == j.at = a /\ j.pc \in joins
      leaving == j.at = a /\ j.pc \in leaves
  IN IF leaving \/ (sc.attach = a /\ sc.active /\ ~joining) THEN 1
     ELSE IF sc.attach # a /\ joining THEN -1 ELSE 0

\* The number, and the weight, that scheduler s brings to tier a.
Numbered(s, a) ==
  Share(sched[s], job[s], a, {"joinW", "joinN"}, {"leaveW", "leaveN"})
Weighed(s, a) ==
  LET share == Share(sched[s], job[s], a, {"joinW"}, {"leaveW"})
      w == IF sched[s].attach = a THEN sched[s].eweight ELSE agg[sched[s].attach].eweight
  IN IF share = 1 THEN w ELSE IF share = -1 THEN -w ELSE 0

\* Is c an S-VLAN of a with an active child?
Busy(c, a) == c \in live /\ agg[c].parent = a /\ agg[c].nActive > 0

\* Each tier's active_weight is the sum of the effective weights of its active
\* children and n_active_children their number, up to what an owner thread is
\* just carrying upward (cake_agg_weight_add, cake_agg_weight_sub,
\* cake_agg_reparent_all, cake_aggregate_update).  They are unsigned: between
\* any two atomic operations they stay in range.
WeightExact ==
  /\ \A a \in Agg : agg[a].activeWeight \in Nat /\ agg[a].nActive \in Nat
  /\ \A a \in live :
       /\ agg[a].nActive =
            SumFunctionOnSet([s \in Sched |-> Numbered(s, a)], Sched)
            + SumFunctionOnSet([c \in Agg |-> IF Busy(c, a) THEN 1 ELSE 0], Agg)
       /\ agg[a].activeWeight =
            SumFunctionOnSet([s \in Sched |-> Weighed(s, a)], Sched)
            + SumFunctionOnSet([c \in Agg |-> IF Busy(c, a) THEN agg[c].eweight ELSE 0], Agg)

\* What job j has charged at tier a of the chain from own for the packet being
\* admitted, or not yet released of those that left, so far as it has got.
Underway(j, own, a) ==
  LET above == j.at # own IN
  CASE j.pc \in {"filter", "add"} -> IF above /\ a = own THEN j.amt ELSE 0
    [] j.pc = "undo" -> IF a = j.at \/ a = own THEN j.amt ELSE 0
    [] j.pc = "unwind" -> IF a = own THEN j.amt ELSE 0
    [] j.pc = "admitted" -> j.amt
    [] j.pc = "release" -> IF a = own /\ above THEN 0 ELSE j.amt
    [] OTHER -> 0

\* Bytes s has charged at tier a: its queue, and what its job is moving.
Held(s, a) ==
  IF a \in ChainOf(sched[s].attach)
  THEN Queued(s) + Underway(job[s], sched[s].attach, a) ELSE 0

\* A tier's buffer_usage is what the schedulers beneath it hold, whatever the
\* tree has been through since the packets were charged: nothing leaks and
\* nothing is released twice, nor does the unsigned count run below zero
\* (cake_agg_discharge, cake_agg_reparent_all).
ChargeExact ==
  /\ \A a \in Agg : agg[a].usage \in Nat
  /\ \A s \in Sched : job[s].amt \in Nat
  /\ \A a \in live : agg[a].usage = SumFunctionOnSet([s \in Sched |-> Held(s, a)], Sched)

\* The shape of the state; the counters' types are with WeightExact and
\* ChargeExact.
TypeOK ==
  /\ live \subseteq Agg
  /\ \A a \in Agg : /\ agg[a].parent \in Agg \cup {None}
                    /\ agg[a].map \in [Tag -> Agg \cup {None}]
  /\ aggOf \in [Port -> Agg \cup {None}]
  /\ \A s \in Sched : /\ sched[s].attach \in Agg \cup {None}
                      /\ sched[s].queue \in [Lens -> Nat]
                      /\ job[s].at \in Agg \cup {None}
  /\ ctl.todo \subseteq Sched /\ ctl.gone \in Agg \cup {None}

\* Outside a reattachment every scheduler hangs where a fresh look at the tree
\* would hang it, on an aggregate that is in use and whose parent is; so the
\* cached index is never stale (cake_sched_resolve_attachment).
AttachmentFresh ==
  /\ \A s \in Sched : sched[s].on /\ s \notin ctl.todo =>
       /\ sched[s].attach = Resolve(s, aggOf, agg)
       /\ sched[s].attach # ctl.gone \/ sched[s].attach = None
  /\ \A s \in Sched : ChainOf(sched[s].attach) \subseteq live

\* The S-VLANs of a port are disjoint, its map names each for all of its tags
\* and nothing else, and none is shaped above the port; a port that is in use
\* is reachable from its interface; and every scheduler hangs on this tree
\* where a fresh look would hang it (cake_svlan_aggregate_create, _delete,
\* cake_aggregate_update).
TreeWellFormed ==
  /\ TypeOK
  /\ AttachmentFresh
  /\ \A a \in live \ {ctl.gone} :
       IF agg[a].parent = None
       THEN \E p \in Port : aggOf[p] = a
       ELSE LET port == agg[a].parent IN
            /\ port \in live /\ port # ctl.gone /\ agg[port].parent = None
            /\ agg[a].rate <= agg[port].rate
            /\ {t \in Tag : agg[port].map[t] = a} = Tag \cap (agg[a].first..agg[a].last)

\* What an aggregate has admitted and not yet released, without the additions
\* that will be taken back.
Admitted(a) ==
  LET of(s) == IF a \in ChainOf(sched[s].attach)
               THEN Queued(s) + (IF job[s].pc = "admitted" THEN job[s].amt ELSE 0) ELSE 0
  IN SumFunctionOnSet([s \in Sched |-> of(s)], Sched)

\* An admission never takes a tier over its limit, however many owner threads
\* admit at once and however the tree was changed before: over-admission is
\* unwound before it is queued (cake_agg_admit).
AdmitWithinLimit ==
  [][\A s \in Sched : job[s].pc # "admitted" /\ job'[s].pc = "admitted" =>
       \A a \in ChainOf(sched[s].attach) : Admitted(a)' <= agg[a].limit]_vars
=============================================================================
