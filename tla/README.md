# A verification of the osvbng dataplane

osvbng-vpp is the dataplane of a broadband network gateway: eight plugins for
VPP that translate, shape, punt and switch subscriber traffic on several worker
threads, driven by a control plane daemon over VPP's binary API and over shared
memory. This directory holds TLA+ models of the plugins, the TLC configurations
that check them on small instances, and TLAPS proofs of what holds on every
instance. `PROJECT.json` lists components, runs, mutants, hazards and theorems
and maps each definition to the lines it models.

Run a check with `tlc -workers 2 -config X.cfg M` and a proof with
`tlapm MProofs.tla`.

## 1. Inventory

### What runs where

VPP has one main thread and any number of workers. Each worker runs the packet
graph over vectors of packets. API handlers run on the main thread; none of
these plugins marks a handler thread safe, so VPP stops every worker at a
barrier (between two graph dispatches) while a handler runs, and the CLI
commands that write state take the barrier themselves. Processes such as the
CGNAT expire process run on the main thread *without* the barrier unless they
take it. Concurrency is therefore of three kinds: worker against worker (CGNAT
session creation, QoS counters and gates, per-thread punt rings), VPP against
the daemon over shared memory (both rings), and sequences of handlers whose
effects on shared state must compose (everything else).

### Components

| Component | State | Operations | What is hard | What makes it correct |
|---|---|---|---|---|
| **CGNAT sessions** (`osvbng_cgnat`) | session pool, in2out and out2in tables, pools, subscriber mappings with a port block, fragment rewrite records | in2out slow path (port, cap slot, session under three locks), hits, expire walk, pool / mapping / outside-FIB handlers | workers that miss on one flow at once; failure after part of the resources is taken; handlers that delete what sessions refer to | lookups reach live sessions of the right subscriber; counts and references are exact; idle sessions go |
| **Egress ring** (`osvbng_punt_egress.c`) | head, tail, interrupt flag, descriptors in shared memory; per-output vectors | daemon injects and signals; node drains, batches, clears the flag, rechecks | no lock; weak memory order at the flag; allocation failure inside a batch | FIFO; order per output; nothing lost, doubled or left behind |
| **Punt rings** (`osvbng_punt_shm.c`) | one ring per thread, one eventfd | punt a frame; daemon drains all | one eventfd for many flags; full ring | whole frames, in order, all delivered |
| **Punt control** (`osvbng_punt.c`, `_api.c`, protocol files) | enabled interfaces, UDP ports and ICMPv6 types, per-FIB count of a broadcast receive route | enable, disable (API and CLI) | repeated calls, FIB moves, index reuse | routes and ports exactly while needed |
| **Punt policer** (`osvbng_punt.h`) | a token bucket per thread and protocol | allow, configure | fractional refills; the rate is split, the burst is not | the aggregate rate |
| **QoS tree** (`osvbng_qos_sched.c`, `.h`) | port and S-VLAN aggregates, schedulers with cached attachments, buffer charges, active weights | create, update, delete, reparent, cascade; enqueue, dequeue | per-packet counters moved by several atomics while the tree changes | every counter equals what is beneath it |
| **QoS sharing** (`cake_drr.h`, `cake_shaper.h`, the gates of `osvbng_qos_sched.h`) | local deficits, a packed (round, deficit) word, virtual times | admit, compare-and-swap, gates, refund, unwind | workers with different clocks in different rounds | rates, credit and debt are bounded |
| **QoS flows and AQM** (`cake_enqueue.c`, `cake_dequeue.c`, `cake_cobalt.c`, `cake_hash.c`) | flow lists per tin, host counts, COBALT state | enqueue, evict, dequeue, drop | set-associative lookup with eviction, hosts that are taken over | lists, counts and queues say the same |
| **QoS ownership** (`cake_handoff.c`) | owner thread of a scheduler, handoff queues, polling nodes | claim by compare-and-swap, hand over, tear down | packets in flight between threads at teardown; indices reused | one owner, which serves it until it is empty |
| **Subscriber redundancy groups** (`osvbng_srg`) | groups, interface membership, (hw interface, virtual MAC) counts | add, delete, activate, GARP batch | a driver that refuses one MAC of several; deleted interfaces | the MAC is there exactly while an active group needs it |
| **L2 gateway** (`osvbng_l2gw`) | circuits as pairs of table entries, trigger arming per interface, dampener | add, delete, enable, trigger, set state, interface delete | pairs that must stay pairs; index reuse | symmetric circuits, no stale arming |
| **Pseudowire headends** (`osvbng_tunnel`) | tunnel/headend bindings, saved output nodes | bind, unbind, interface delete | one side deleted while bound | bindings are a matching; the saved node comes back |
| **IPoE and PPPoE sessions** (`osvbng_ipoe`, `osvbng_pppoe`) | sessions, per-session interfaces that are parked and reused, routes | add, delete, bind addresses and prefixes | what a delete leaves on a parked interface | routes exactly of live sessions |
| **L2TPv2** (`l2tpv2`) | tunnels counted by sessions, per-session interfaces | add, delete, bind | pool indices held by the PPPoE LAC bridge | no tunnel goes under a session |
| Patches, build, perf rig | none of the dataplane's | | | |

### How they interact

The daemon injects frames through the egress ring and receives control packets
through the punt rings; punt control and the policer decide which packets get
there. Subscriber interfaces are created by the IPoE, PPPoE and L2TPv2 plugins;
the QoS plugin puts schedulers on them and finds their aggregate by walking the
chain of parent interfaces; punt, L2 gateway, pseudowire and redundancy groups
keep state by interface index, which VPP reuses. CGNAT hangs off the IP feature
arcs of those interfaces and is otherwise independent.

## 2. The modules

| Module | Models | State and actions against the code |
|---|---|---|
| `CgnatSession` | the session table | One action per critical section of the slow path: `In2outMiss` (lookups), `PortAlloc`, `Reserve`, `CreateShared`/`CreateFresh`/`CreateFull`/`CreatePanic`, `Unreserve`, `PortFree`; one per handler: `PoolAdd`, `PoolUpdate`, `PoolDel`, `SetOutsideFib`, `MappingAdd`, `MappingDel`; `ExpireWalk`. Handlers need the barrier: every worker between packets. Time is relative (ages and what is left of a cooldown), so the state stays finite without a bound on the clock. |
| `FifoChannel` | what a ring promises | bounded queues: put, take |
| `EgressRing` | the egress ring | The daemon's three steps (fill, publish, signal), the node's run frame by frame (`NodeStart`, `NodeSkip`, `NodeSend`, `NodeFinish`, `NodeRecheck`), the eventfd handler. Closing stores wait in `storeBuf` until `FlushStore`; `StoresDrain` keeps the executions in which they are visible before the closing load. |
| `PuntRing` | the punt rings | The copy, the descriptor, the head and the flag are a step each, per thread. The daemon is external: the consumer the ring's comments describe. |
| `Interfaces` | VPP's interface table (external) | Indices that are deleted and reused, super-interfaces, FIB, output node, secondary MACs, the gateway's feature bit. `careful` says which kind of client drives the plugins, see below. |
| `PuntControl` | punt control | `ApiEnable`, `ApiDisable`, `CliEnableDisable`. The plugin is not told when an interface moves or goes. |
| `PuntPolicer` | the policer | exact token arithmetic in N-ths of a packet, against a continuous reference |
| `Srg` | redundancy groups | `SrgAdd`, `SrgDel`, `SrgSetState` with the loop over the members: `Raised`, `Lowered` give the count per hardware interface and MAC when the driver refuses any of the calls. Once the pool has moved, keys of `srg_by_name` dangle: `stale` is where their entries lead, and every lookup (`Find`), insertion (`SetName`) and removal (`UnsetName`) may find one of them or miss it. A delete (`Retire`) may then miss the entry, put another group to standby and put back an element that is free; `vacant` counts how often an element is on the free list. |
| `L2gw` | the layer 2 gateway | `CircuitAdd`, `CircuitDel`, `CircuitSetState`, `CircuitSetAll`, `L2gwEnableDisable`, `TriggerRange`, the interface hook `L2gwInterfaceDel`; a worker's dampener in two steps, `DampenSearch` and `DampenStore`. |
| `Pseudowire` | headends | `PwBind`, `PwUnbind`, `PwInterfaceDel`; `PwInputOf` and `PwOutputOf` are where the two nodes send a frame. |
| `Access` | the five above over one interface table | Deletion calls the hooks of the plugins that have one, and none of the others. |
| `SessionIfs` | what the session plugins share (partly external) | session interfaces, parked and reused; the FIB's paths through them; leases |
| `IpoeSession` | IPoE | add, delete, enable, leases of three kinds, the input lookup and the tags of the rewrite |
| `PppoeSession` | PPPoE | add, delete, leases, VRF, `SetLacTunnel`, where decapsulation and LAC transmission send a frame |
| `L2tpSession` | L2TPv2 | tunnels counted by their sessions, sessions of modes "ip" and "raw", leases, clearing, where input and raw encapsulation send a frame |
| `Subscribers` | the three over one table and FIB | adds the LAC bridge that a client makes between a PPPoE and an L2TPv2 session, each side holding an index of the other |
| `CakeTree` | the aggregate tree | Control operations in the barriered steps the code takes (`CreateSvlan`, then `ReparentOne` per scheduler, then the slot is put; `InterfaceDel` and its cascade), enqueue and dequeue in their atomics: read-only filter, admission tier by tier with undo, ring insertion, the two counters of a join or leave. |
| `CakeDrr` | deficit arithmetic | `Round`, `RefillDue`, `Quantum`, `Refilled`, `EscapeOpen` |
| `CakeShare` | sharing a port | A worker's dequeue attempt: own deficit, S-VLAN gate, load and swap of the packed word, port gate, refund, unwind, charge. Workers keep the time they sampled at dispatch. |
| `CakeFlow` | a scheduler's flow queues | Operators from a scheduler to the scheduler that an eviction, an enqueue (`Found`, `Opened`, `Promoted`, `Queued`) or a turn of the dequeue loop (`Turned`, `Taken`) leaves. |
| `CakeOwner` | who runs a scheduler | `Enable`, `Disable`; the enqueue node reads the owner (`SeeUnowned`) and claims, enqueues, drops or hands over in a second step; the dequeue node walks the thread's bitmap one scheduler and one packet at a time (`Visit...`). |
| `MC*` | instances | interfaces, packets and plans for TLC, symmetry sets |
| `FiniteSums` | arithmetic the proofs share | `SumFunctionOnSet` over finite sets: what a change at one index does to a sum, when one sum bounds another. No model of code. |
| `CgnatSessionProofs`, `RingProofs`, `AccessProofs`, `SubscribersProofs`, `CakeTreeProofs`, `CakeShareProofs`, `CakeOwnerProofs` | theorems | inductive invariants and refinements, section 5 |

Quantities that are sums over schedulers, workers or threads (`Held` of the
tree, `InFlight` and the reserved bytes of the port, the packets of `PuntPolicer`)
are functions summed with `SumFunctionOnSet`, one function per question, so
that a step is a change at one index.

**Clients.** Several plugins keep what they were told by interface index and
rely on the daemon to undo it. `careful`, fixed in the initial state, separates
two clients: one that undoes what it configured before it moves or deletes an
interface and neither repeats calls nor uses the CLI, and one that sends any
call at any time. A property names the part that needs the careful one; the
rest holds for both.

**Loadouts.** The plugins of `Access` and of `Subscribers` meet in tables that
the runs must contain whole, but their own states multiply. `Loadouts` lists
which of them are loaded in an instance, and for the redundancy groups whether
the driver may refuse and the pool moves, fixed in the initial state; one run
covers all of its loadouts.

What is abstracted everywhere: packet contents, header rewriting, checksums,
tracing, counters that only report, text. In `CgnatSession` addresses and FIBs
are model values and a port block is a pair of small numbers; TCP states only
select a timeout and are one timeout here. In `CakeTree` which flow a packet is
in is left open (any queued packet may leave); `CakeFlow` and `CakeOwner` are
about that, and leave open in turn whether an aggregate admits a packet,
whether a gate is closed and whether COBALT drops. In `CakeShare` weights are
fixed and every scheduler is backlogged. In `L2gw` transparent circuits are
left out (they differ in the rewrite of tags), and the DHCP trigger's snoop
exists only where the punt plugin is loaded. In the session modules a PPPoE
client address is an IPv4 one, as in every API message; the next hop of a
delegated prefix is no part of its path; a prefix length of 0 is not sent.

## 3. The runs

| Run | Shows | Bounds and why they are enough |
|---|---|---|
| `cgnat_race` | Two workers create, hit and expire: `SessionsLinked`, `ReplyReachesOwner`, `CountExact`, `FragExact`, `CapRespected` hold in every interleaving. | Two subscribers on one outside address, blocks of two ports and one port side by side (a scan one port too far enters the neighbour's), two session slots for three flows (pool full), caps 1 and 2, cooldown of a tick. A race needs two workers; each conflict is between two flows. |
| `cgnat_control` | `OutFibCurrent` while handlers run; `ReapsExpired` and `EventuallyReaped`. | One worker (with two, the next run), two pools and FIBs, TCP, ICMP and GRE, port 0 in a block, one fragment slot so that the pool runs out. Deadlock is allowed: an exhausted fragment pool ends the process. |
| `cgnat_orphan` (violation) | With two workers `ReapsExpired` fails. | the smallest instance with a create race |
| `cgnat_reuse` (violation) | Two live flows of a subscriber share an outside tuple. | a block of one port, two flows |
| `egress` | `SlotsIntact`, `IsFifo` (refinement of `FifoChannel`), `OrderKept`, `AllAccounted`, `NothingStranded`. | Ring of two slots, four frames: it fills and wraps. Batches of three, vectors of two, two output nodes over one pending slot: vectors fill and move, and frames overflow to single ones. |
| `egress_strand` (violation) | `NothingStranded` fails when the closing load may run before the closing stores. | as `egress`, smaller |
| `punt_ring` | `PuntsAreFifo` (refinement of `FifoChannel`), and `AllDelivered`: no frame is torn and every one arrives, with one eventfd for two rings. | Rings of two slots, three punts per thread. Deadlock is allowed: all punts done and drained. |
| `access` | `Receivable`; `VmacWhileActive`, `SrgBooksAgree`; `CircuitsWhole`, `PortStateFresh`, `DampenerBounds`; `PwBindings`; `PolicerExact`. | Loadouts of one plugin each: the plugins share nothing but the interface table, of which each has its own columns. Two indices that are reused (three for headends: one side of two pairs), two FIBs, one MAC that two groups share, groups of up to two members, two circuits, a wildcard and an exact tag, two workers on a dampener with an interval of two ticks; for the policer two threads, four ticks, rates below and above a packet per thread and tick. The redundancy groups come twice, with a driver that may refuse and with a pool that moves; the latter over one interface (which a group may list twice): one growth makes the first group's key dangle, and an element is put back at most twice before it is taken (`MaxPuts`), two takers being the case that matters. The two faults together are covered by the theorem. |
| `sessions` | `SessionsResolve`, `RoutesOwned`, `BridgeBothWays`, `InterfacesFresh`, `AnswersFound`. | Each plugin alone, and PPPoE with L2TPv2. Two sessions of a kind over two interface indices (the second session gets the first one's parked interface or slot), two VRFs, two prefixes, two routes at a time, S-VLAN and C-VLAN each present or not. |
| `cake_tree` | `WeightExact`, `ChargeExact`, `AdmitWithinLimit`, `TreeWellFormed`. | Three schedulers, two in one S-VLAN beneath a sub-interface that may carry a port aggregate of its own and one on the port: the last to leave and the first to join an S-VLAN carry its weight up while the other moves it, and a port has both kinds of children. Three aggregate slots (reused), two operations under way at once, a packet of one byte per scheduler, limits of two bytes: the third packet is over the limit, at one tier or the other. One tag; ranges of tags, longer queues and packets of several lengths are covered by the theorems only. |
| `cake_share` | `WordFloor`, `OneQuantumPerRound`, `PortRate`, `SvlanRate`, `DebtBounded`. | Two workers, four rounds, clocks up to three ticks behind: a worker may act a round late while the other refills. A burst of three ticks: the longest idle time in the run would, with credit that is not capped, let more pass after it than `PortRate` allows for that stretch. The wheel of tags does not come round within the run; its wrap is covered by the theorem. |
| `cake_owner` | `FlowsWhole`, `OwnerServes`, `Drains`. | Three loads: three flows of two hosts over two ways and one host slot, rings of two packets, three bytes a scheduler (every eviction, takeover and limit happens); a flow in each of two tins; two schedulers, one of them seen by two threads, over a frame queue of one element. |

**Fairness.** `CgnatSession`: a worker finishes the packet it began, time
passes, and the expire walk is strongly fair because its barrier stops the
workers rather than waiting for them to be idle by chance. `EgressRing`: the
main loop keeps polling and dispatching the node, stores become visible, the
daemon finishes an injection it began, and a retried allocation succeeds in
the end (strong fairness of `NodeSend`, `NodeSkip`): without the last a pool
that never has a buffer stops egress for ever, and no code can help it.
`PuntRing`: a thread finishes a punt it began, the daemon keeps running.
`CakeOwner`: every thread leaves its enqueue node and keeps dispatching its
dequeue node and its frame queue, whatever else it does (VPP's main loop
visits all of them in turn, hence strong fairness); and because the virtual
times of shaper and gates are compared with a clock that advances, a thread
that again and again has a flow to serve again and again serves one. That is
strong fairness of `VisitTurn \/ VisitSend`, written out because `Serves` is
its enabling condition; AQM drops are not assumed. No fairness is assumed of
packet arrival, of the control plane or of injections.

**Mutants.** Each property is broken by a plausible fault of the code, written
next to the definition it replaces and named after it.

## 4. Where the code and what is said of it disagree

Checked as violations:

1. `cgnat_orphan`: the expire process walks the in2out table, not the pool.
   Two workers that miss on one flow create two sessions; the first one's
   entry is overwritten, and the session is not reaped until its mapping goes.
2. `cgnat_reuse`: `cgnat_port_alloc` tests a port's release time, not whether
   it is in use. When `next_port` comes around, a port of a live session is
   handed out again; where SUMMARY.md expects `PORT_EXHAUSTED`, the second
   session takes over the first one's replies.
3. `egress_strand`: the release store of `interrupt_pending` and the acquire
   load of `head` after it are not ordered. A frame published in between can
   wait for the next injection.

Met while modelling, not among the runs; where a property would fail because of
one, its comment says what it asks for instead:

- *CGNAT.* Subscribers that share an outside address share the out2in key of
  protocols without ports (`osvbng_cgnat.h:730` says one session per
  subscriber) and the outside key of their fragment records. The fragment pool
  is smaller than the session pool and taken from without a test. Both nodes
  still assert `vm->thread_index == 0` (`osvbng_cgnat_in2out.c:173-176` and 355,
  `osvbng_cgnat_out2in.c:165` and 282; the comment says that sessions, counts and
  port allocation are not thread safe), against `SUMMARY.md:18-37` and finding #8
  of `AUDIT.md`, where every worker runs both nodes on one pool. The
  assertions are compiled out of a release build; the model follows the rest of
  the code and has many workers. `SUMMARY.md:183` lists an API message
  `osvbng_cgnat_clear_sessions` for which the source has no definition and no handler.
- *Punt control.* `dhcp_bcast_refs` counts calls rather than interfaces
  (`osvbng_punt.h:79`), which is why `Receivable` asks for a careful client.
- *QoS sharing.* A scheduler's debt reaches almost two packets where the comment
  at `cake_drr.h:245` has one (`DebtBounded` states what holds): the idle escape
  admits a child in debt. So the shared word reaches as far below its bias
  (`WordFloor`), where `cake_drr.h:43-47` counts one packet of debt, and a send
  may start below the bias, where `cake_drr.h:385-386` has admission require more; the wrap of the
  round tag costs a child that was idle for nearly a wrap up to
  `CAKE_DRR_ROUND_STALE_LEAD` refills where the comment at `cake_drr.h:80` has one.
- *QoS flows.* An eviction comes before the test of the limit, so a packet that
  is refused may cost another flow its queue; the refused packet's tag stays in
  the slot of a flow that is not in use. A host whose slot is taken over is
  counted from 0 again: the count is a lower bound, and `FlowsWhole` says so.
- *Redundancy groups.* `srg_by_name` is given a key inside the pool element
  (`osvbng_srg.c:97`) and not told when the pool moves. The test for an existing
  name may then miss the group that has it, and two groups get one name, where
  `osvbng_srg.api:53` says "unique SRG name"; a delete may leave its entry behind, and a later call by that name reach another group or a free
  element, which is put back twice and handed out twice. What stays true then is
  that MACs are programmed exactly while counted; `SrgBooksAgree` asks for
  the rest, and `VmacWhileActive` for all of it, while the pool does not move. A MAC the driver refuses is not counted, yet the
  group becomes active and its standby takes another group's count. There is no
  hook for deleted interfaces: a hardware interface created anew under an index
  whose count was left over never gets the MAC. An interface listed twice in
  one message passes validation and is counted twice.
- *L2 gateway.* The comment at `osvbng_l2gw.c:378-383` says what the hook
  clears; `trigger_any_svlans` is not among it. The circuits of a deleted
  interface cannot be deleted (validation asks for the interface) and carry the
  frames of the interface that gets the index. A circuit id is a pool index: a
  late `set_state` reaches the circuit that has it now. A delete ignores the
  handoff side of its message. A circuit from a key to itself is accepted.
- *Pseudowire headends.* A headend whose tunnel was deleted while bound keeps
  the pseudowire's output node, and after another bind and unbind for ever. Two
  headends on sub-interfaces of one port share its output node.
- *IPoE.* A session with an S-VLAN and no C-VLAN never hears its subscriber: the
  lookup takes a frame's only tag for the C-VLAN (`osvbng_ipoe.h:116-121`).
  The encapsulating interface of an add is not validated.
- *PPPoE.* Deleting a session leaves the routes of IPv6 and delegated prefixes.
  A session with an inner tag only sends untagged. `lac_session_count` is said
  to gate the input node (`osvbng_pppoe.h:201-204`), but nothing reads it. The
  LAC transmit node does not test whether the session is still bridged. State of
  other plugins on a parked interface is theirs to remove before the delete,
  which only a comment says.
- *L2TPv2.* `l2tpv2.h:61` and `l2tpv2.api:53` give DECAP_IP a VRF, but the
  interface is never bound to a table. The comment at `l2tpv2.h:345-349` lets a
  session's delete clean what was set; clearing with another address than was
  set loses the one to clean. `l2tpv2_update_adj` does not test for an interface
  without a session. The API says that a raw session's reply has `~0`; the code
  returns the pool index. The README says that the plugin does not register UDP
  port 1701; `l2tpv2.c:563-568` does, and punting L2TP registers and unregisters
  the same port (`osvbng_punt_l2tp.c:236-263`).

## 5. The proofs

Assumptions are the named `ASSUME`s of the modules: constants have their types,
sets that are counted are finite, `NULL` is no value, the control plane
gives subscribers disjoint port blocks (`BlocksDisjoint`, which the plugin does
not check and port block allocation provides), and a worker's clock lags
by so few ticks that the rounds it is late by stay below
`CAKE_DRR_ROUND_STALE_LEAD` (a worker samples the time once per dispatch). The
instances of the runs satisfy each of them. Every theorem holds for every value
of the constants: any number of workers, threads, sessions, aggregates,
frames. Where a module has two kinds of client, a theorem is about both
unless its statement asks for the careful one.

**`CgnatSessionProofs`.** `TypeCorrect`, `LookupsLinked`, `FibsCurrent`,
`FragmentsExact`, `OneOwnerPerTuple`, `CountsAgree`, `CapNeverPassed`. The
inductive invariant `Inv` adds what a worker in the slow path knows without a
lock: that the mapping it looked up is still there and its pool has the FIB it
saw (`HasJob`), that its port is from the block (`JobPortInBlock`), that
mappings are what the control plane sent (`Planned`), and that every fragment
record is held (`FragInv`): without the last, a release could find a record
whose keys are someone else's. `DeleteInv` treats deletion of a set of sessions
once; expiry, mapping and pool deletion cite it. `OneOwnerPerTuple` follows
from `SessionPortInBlock` and disjoint blocks. The count is `CountInv`: a
subscriber's `session_count` is its live sessions plus the workers between the
reservation of a slot and its session or its return, and while any slot is
reserved the count is within the cap (`CapHeld`): a slot is only reserved below
the cap, and the cap only moves at a barrier, when nothing is reserved. An
earlier form of `Reserved` left out the worker that stops the process for want
of a fragment record; the induction failed there, because its slot stays
counted, and the definition now has it.

**`RingProofs`**, the egress ring. With stores lagging or not: `RingTypes`, `NoOverwrite`,
`RingIsFifo` (the ring implements `FifoChannel`), `LeavesInOrder`,
`NothingUnaccounted`. The invariant orders the four cursors (published tail,
node's tail, head seen, head), and says which stores may lag. The core is that
two positions less than a lap apart are in different slots (`ModDistinct`). Order
and accounting rest on `Leaving`, what leaves through a node in the order it
does, frames in its vectors and moved ones included: each of the node's steps
appends one frame to one of these sequences or leaves all of them as they are,
and only frames the node is past are in them.

**`RingProofs`**, the punt rings (their names differ from the egress ring's, so
that one module can be about both). `ReadWhole`, the safety half of `AllDelivered`, and
`RingsAreFifo`, for any number of threads. The invariant keeps each ring's
cursors within a lap, says how far the slot at the head is filled at each step
of a punt, and that what lies between the cursors was written by one punt each.

**`AccessProofs`.** `ReceivableAlways`, `SrgBooksAgreeAlways`,
`VmacWhileActiveAlways`, `CircuitsWholeAlways`, `PortStateFreshAlways`,
`DampenerBoundsAlways`, `PwBindingsAlways`, and `PolicerExactAlways`.
The invariant is a conjunction with a part per plugin, and a step of a plugin
disturbs its part only; deletion of an interface is treated for all of them.
For the redundancy groups the count of a MAC is the number of pairs (group,
position) that hold it, which each member of the loop changes by at most one
(`MacsCounted`, `RefsExact`). The two directions of its books are proved apart:
that each count has its MAC whatever a lookup leads to, as a step only uses the
group it found; that membership and names agree while `moves` is false, when
nothing is `stale` and a name's entry is its one live group's. For the gateway an entry has its opposite
(`EntriesPaired`); for the dampener, whose search and store are not one step, the
workers between the two are counted with the punts they are about to make
(`Dampened`). The policer's bucket holds, with its lazy refill, what the
tightest of all windows since the last configure leaves (`Lazy`, some window is
attained and none is below): from that a thread's packets in any window are at
most its burst and its share of the rate, and the threads' bounds are summed.

**`SubscribersProofs`.** `SubscribersTyped`, `SessionsAlwaysResolve`,
`RoutesAlwaysOwned`, `BridgesAlwaysJoin`, `InterfacesAlwaysFresh`,
`AnswersAlwaysFound`. The three plugins keep the same kind of books, so the
invariant states them once, for a pool, a table, a map from interfaces and a
list of parked ones: `Typed`, `Books` (the four lead to each other, parked
interfaces are of this plugin and nobody's, twice in the list never) and
`Backed` (each lease has its path in the FIB; with a careful client no other
path is there). The steps are lemmas about books, cited by the three plugins.
`TunnelInv` makes a tunnel's reference count the number of sessions that name
it, `BridgeInv` keeps a bridge's two sides naming each other. A pool gives out
its first free slot: `MinIn` says that a set of numbers that is not empty has a
least element, and a pigeonhole argument that there is a tunnel slot left where
there is one for a session. That a reply finds its session (`AnswersFound`)
rests on the tags of the rewrite, read back by the innermost, being the tag of
the key.

**`CakeTreeProofs`.** `TreeAlwaysWellFormed`, `ChargeAlwaysExact`,
`AdmitsWithinLimit`, `WeightAlwaysExact`. The shape, `TreeInv`, says what holds also between the barriers of
an operation that takes several: interfaces lead to ports and ports to S-VLANs by
tag, each slot that is on its way out is off the tree (`Goner`), a scheduler
hangs where a fresh look would hang it unless its turn to be moved is still to
come (`Attached`), and no enqueue is under way while anything is moved (`Jobs`).
A look-up depends on few fields (`ResolveLooks`), so most steps leave it alone.
The charge, `ChargeInv`: every slot's `usage` is the sum over the schedulers of what each
holds there, queued or moved so far by its enqueue or dequeue (`Charges`), jobs
are at tiers of their scheduler's chain (`JobsPlaced`), and, for the bound,
while a packet admitted at its S-VLAN waits for the port, what is firm at the
S-VLAN is within its limit (`Within`): the limit is tested at one tier after the
other, and in between others fill and empty the first. A step of the data path
changes one term of each sum by what it adds to `usage` (`JobCharge`,
`JobPaid`, `JobUncharged`); a step of the control plane moves a scheduler at
rest with all it holds, or a slot under which nothing hangs.

The weights, `WeightInv`: every slot's `activeWeight` and `nActive`, a free one's
too, are two sums, one over the schedulers and one over the S-VLANs with an active
child (`Tallied`). A scheduler's term is negative where its owner carries a first
join up that the S-VLAN already shows and the port does not count yet, so the
sums alone do not say that the unsigned counters stay at zero or above. For that,
a job of joining or leaving is at a tier of its scheduler's chain, and the
scheduler is already marked active, or no longer (`Carriers`); only one scheduler
carries the first join of an S-VLAN to its port (`OneUp`), because the one that
found the S-VLAN at zero did; and weights are natural numbers (`Weighted`). Each
negative term is then matched by a term of its own in the other sum (`CountersNat`
from `SumMatched`). In the data path a step moves one counter, and one term of its
sum (`WorkerTallies`). In the control plane no join or leave is under way
(`Quiet`): a new weight is exchanged above when the child is counted
(`ChangeTallies`), a scheduler that moves leaves one chain and joins another, and a
slot that is put or taken is one that nothing counts (`SlotTallies`).

**`CakeShareProofs`.** `PortRateTheorem`, `DebtTheorem`, `WordFloorTheorem`,
`SvlanRateTheorem`, `OneQuantumTheorem`. Debt, floor and the port's rate over all time
need that the port's
virtual time lies between what has passed and one packet ahead of the clock, and
that a packet is moved only for a child less than a packet in debt, also between
a worker's load and its swap (`IInv`). The port's rate over any stretch of time is `Window`: since
what had passed was furthest behind the clock (`trough`), virtual time has moved with
what passed, from a burst before a worker's time at least. The other two are `SInv`: the S-VLAN's virtual time
covers what has passed and what is in flight (`SvlanTime`); the word's
deficit, with all that workers may still refund, is bounded (`Credit`); the word's
tag is that of a round that has begun, and there are no more refills than
rounds (`RoundsKept`). The last is where late workers matter: a worker that is
late by less than half of the wheel of tags finds a refill due only if its round is
later than the word's, and a swap succeeds only on the word that was loaded.

**`CakeOwnerProofs`.** `FlowsAlwaysWhole` and `OwnerAlwaysServes`, from `OwnerInvariant`.
To the two properties `OwnerInv` adds three parts: a thread visits only
schedulers in its bitmap and has no packet in its enqueue node meanwhile
(`Walks`), a packet whose scheduler was seen unowned still has one
(`Claims`: nothing is disabled while a thread is between the two steps, because
disabling needs the barrier), and interfaces lead to live schedulers one to one
(`Attached`). `Claims` and `Attached` are why a lost race or a
handoff that arrives late finds the owner of whatever scheduler is there now, and
`Walks` is why an idle visit clears a bit that is its thread's own.

The flow queues are proved from the inside out. A tin is `Sound` when its lists
and counts are those of its flows' states (`Linked`), its tags name one queue
each, in the right set (`TagsAgree`), and each flow's bytes are those of its
ring (`FlowFits`). An operation touches one flow and one host: `Others` says the rest is
unchanged, and `ListTurn`, `UseMoved`, `HostsLeave`, `HostsJoin` say what that does to a list,
a count and a host. A host's count is a lower bound only: a slot that is taken over
starts at 0, and the flows of the old host that leave later find it there.
`Follow` says that the scheduler's bytes and packets move by what one flow's
do, and `TinChanged` turns that into sums over all queues. `EvictedWhole`,
`FoundWhole`, `QueuedWhole`, `TurnedWhole` and `TakenWhole` are then one lemma per
operation. Between them an intermediate state is not whole: a flow that just
received a packet has a second one while it is still marked sparse, and one
whose last packet left is still in a list. So they go through `Linked`, which the
moves between lists keep, and become whole again at the end (`PromotedLinked`,
`CarriedSound`, `ReclaimedSound`). `IdleEmpty` links the two halves: a
scheduler that has no flow to serve has nothing queued, so it may give its
weight back and leave the bitmap.

Two things were found out by failing here. That a tag is that of a set its
slot belongs to had to join `QueuesAgree`: without it the look-up of the
packet's own slot may miss a second queue of the same hash elsewhere. And a
scheduler has to be told from `None` by the model's assumptions, for a free slot is one.

**`FiniteSums`.** `SumFunctionOnSet` is a fold, a recursive function over sets that
takes an element by `CHOOSE`. `SumsTo` shows that the fold is defined on
every subset of a finite set, by taking a smallest one on which it is not
(induction over data without the induction theorems, which the provers cannot
instantiate; `SmallestBad` finds it by cardinality). From there: `SumStep`,
`SumPick` (any element may be taken out, not only the chosen one), `SumSame`,
`SumChange` (one index moves the sum by as much), `SumAtMost`, `SumAdd`, `SumNoMore`,
`SumHas`, and `SumMatched` (two sums are together not negative when each negative term
of the first has a term of its own in the second that outweighs it).

**Only model-checked**, and why:

- Liveness (`EventuallyReaped`, `NothingStranded`, `Drains`, and that every
  frame of `AllDelivered` arrives): fairness and ENABLED are beyond the prover.

## 6. What is not modelled, and the plan

Next:

1. `CgnatPool` (block allocation, deterministic mappings, address bindings) and
   TCP states, which today are a plan of mappings and one timeout.
2. A daemon that crashes and comes back between reading an eventfd and clearing
   a flag: `PuntRing` and `EgressRing` assume that it does not.

Not modelled:

- COBALT's arithmetic (control law, BLUE probability, Newton step): numerical,
  a drop is a free choice in `CakeOwner`; overhead compensation, DSCP tables and
  flow hashing, which map one packet to a number.
- Sending gratuitous ARP and neighbour advertisements: the state of the groups
  does not depend on it.
- Header rewriting, checksums, tag rewriting, tunnel encapsulation, and the punt
  plugin's protocol nodes: a function of one packet, no state. The tunnel input
  node picks a next node by a frame's first bytes.
- The layout of the shared memory region and the socket that passes the
  eventfds; `osvbng_punt_shm_cleanup`, which nothing calls.
- CLI output and counters, the test harness, the build pipeline, the
  performance rig, and the VPP patch.
