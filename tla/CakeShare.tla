----------------------------- MODULE CakeShare ------------------------------
(***************************************************************************)
(* How the QoS scheduler shares a port (plugins/osvbng_qos_sched): the     *)
(* dequeue path of workers whose schedulers are members of one S-VLAN      *)
(* aggregate beneath a port.  A packet needs its scheduler's own deficit,  *)
(* the S-VLAN's rate gate, the S-VLAN's deficit at the port, which every   *)
(* worker moves by compare-and-swap, and the port's rate gate; a refusal   *)
(* takes back what was taken before it.  Workers sample the clock once per *)
(* dispatch, so they act on different times and different rounds.          *)
(*                                                                         *)
(* Each worker owns one scheduler that always has a packet; its own rate   *)
(* gate only says when the walk leaves it, which it may do at any time.    *)
(* The tree and its weights stay as they are: CakeTree is about those.     *)
(***************************************************************************)
EXTENDS CakeDrr, FiniteSets, Functions

CONSTANTS
  Worker,        \* the threads
  Lens, MaxLen,  \* adjusted packet lengths, and the longest
  Burst,         \* burst_ns of both tiers
  SvlanCost, PortCost,    \* time per byte of the two gates
  SvlanBytes, PortBytes,  \* drr_round_bytes of the two tiers
  SvlanWeight, PortActive,   \* the S-VLAN's effective weight, of the port's W
  SchedWeight, SvlanActive,  \* a scheduler's effective weight, of the S-VLAN's W
  MaxTime,       \* bound: the clock stops here
  MaxLag,        \* a dispatch lasts no longer than this
  Jumps          \* how far the clock may move at once

ASSUME ShareAssumption ==
  /\ IsFiniteSet(Worker) /\ MaxLen \in Nat /\ Lens \subseteq 1..MaxLen
  /\ Burst \in Nat
  /\ {SvlanCost, PortCost, SvlanBytes, PortBytes} \subseteq Nat
  /\ {SvlanWeight, PortActive, SchedWeight, SvlanActive} \subseteq Nat \ {0}
  /\ MaxTime \in Nat
  /\ MaxLag \in Nat /\ MaxLag < StaleLead * Period
  /\ Jumps \subseteq Nat \ {0}

VARIABLES
  clock,   \* wall time
  th,      \* th[w]: where w is on the path, the time it sampled at the start
           \* of its dispatch, and the packet it is moving
  local,   \* cs->drr of w's scheduler
  word,    \* the S-VLAN's round_deficit: the tag and the deficit
  old,     \* the word w loaded, and what it would make of it
  vt,      \* global_shaper_time_ns of the two tiers
  refills, \* history: refills of the word
  passed,  \* history: the cost of what cleared the path, at the two rates
  trough   \* history: the least that passed.port - clock has been

vars == <<clock, th, local, word, old, vt, refills, passed, trough>>

Nothing == [tag |-> 0, deficit |-> 0, refilled |-> FALSE, topped |-> 0, admitted |-> FALSE]

Idle == [pc |-> "idle", now |-> 0, len |-> 0]

Init ==
  /\ clock = 0
  /\ th = [w \in Worker |-> Idle]
  /\ local = [w \in Worker |-> [tag |-> Round(0), deficit |-> 0]]
  /\ word = [tag |-> Round(0), deficit |-> 0]
  /\ old = [w \in Worker |-> Nothing]
  /\ vt = [svlan |-> 0, port |-> 0]
  /\ refills = 0
  /\ passed = [svlan |-> 0, port |-> 0]
  /\ trough = 0
-----------------------------------------------------------------------------
\* cake_agg_effective_round_bytes of the S-VLAN
SvlanShare == Smaller(SvlanBytes, Quantum(PortBytes, SvlanWeight, PortActive))

SvlanQuantum == Quantum(PortBytes, SvlanWeight, PortActive)
SchedQuantum == Quantum(SvlanShare, SchedWeight, SvlanActive)

\* Mutant: a refusal does not notice that the clock is behind.
GateOpen_Always(time, t) == TRUE

\* cake_shaper_gate_take: closed while virtual time is ahead of the clock.
GateOpen(time, t) == time <= t

\* Mutant: idle credit is not capped.
Taken_NoCap(time, cost, t) == time + cost

\* The virtual time of a gate that let a packet pass: idle credit is capped.
Taken(time, cost, t) == Larger(time, t - Burst) + cost
-----------------------------------------------------------------------------
\* Time passes. No dispatch outlasts MaxLag.
Tick ==
  \E j \in Jumps :
    /\ clock + j <= MaxTime
    /\ \A w \in Worker : th[w].pc # "idle" => clock + j - th[w].now <= MaxLag
    /\ clock' = clock + j
    /\ trough' = Smaller(trough, passed.port - clock')
    /\ UNCHANGED <<th, local, word, old, vt, refills, passed>>

\* cake_dequeue_node samples the clock.
Dispatch(w) ==
  /\ th[w].pc = "idle"
  /\ th' = [th EXCEPT ![w] = [pc |-> "walk", now |-> clock, len |-> 0]]
  /\ UNCHANGED <<clock, local, word, old, vt, refills, passed, trough>>

\* The walk leaves the scheduler: the dispatch ends.
Leave(w) == th' = [th EXCEPT ![w] = Idle]

EndDispatch(w) ==
  /\ th[w].pc = "walk"
  /\ Leave(w)
  /\ UNCHANGED <<clock, local, word, old, vt, refills, passed, trough>>

\* cake_sched_drr_admit: refill, then eligibility, then the escape against the
\* later of the two virtual times.
Admit(w, l) ==
  LET round == Round(th[w].now)
      c == local[w]
      d == IF RefillDue(round, c.tag) THEN Refilled(c.deficit, SchedQuantum) ELSE c.deficit
      idle == Larger(vt.svlan, vt.port)
  IN
  /\ th[w].pc = "walk"
  /\ local' = [local EXCEPT ![w] =
       [tag |-> IF RefillDue(round, c.tag) THEN round ELSE c.tag, deficit |-> d]]
  /\ IF d > 0 \/ EscapeOpen(d, idle, th[w].now)
     THEN th' = [th EXCEPT ![w].pc = "gate", ![w].len = l]
     ELSE Leave(w)
  /\ UNCHANGED <<clock, word, old, vt, refills, passed, trough>>

\* cake_agg_dequeue_gate: the rate gate of the S-VLAN.
SvlanGate(w) ==
  /\ th[w].pc = "gate"
  /\ IF GateOpen(vt.svlan, th[w].now)
     THEN /\ vt' = [vt EXCEPT !.svlan = Taken(@, th[w].len * SvlanCost, th[w].now)]
          /\ th' = [th EXCEPT ![w].pc = "load"]
     ELSE Leave(w) /\ UNCHANGED vt
  /\ UNCHANGED <<clock, local, word, old, refills, passed, trough>>

\* cake_drr_shared_reserve: load the word, decide, and write nothing when
\* there is neither a refill to publish nor an admission to charge.
Load(w) ==
  LET due == RefillDue(Round(th[w].now), word.tag)
      d == IF due THEN Refilled(word.deficit, SvlanQuantum) ELSE word.deficit
      admitted == d > 0 \/ EscapeOpen(d, vt.port, th[w].now)
  IN
  /\ th[w].pc = "load"
  /\ old' = [old EXCEPT ![w] = [tag |-> word.tag, deficit |-> word.deficit,
                               refilled |-> due, topped |-> d, admitted |-> admitted]]
  /\ th' = [th EXCEPT ![w].pc = IF admitted \/ due THEN "swap" ELSE "unwind"]
  /\ UNCHANGED <<clock, local, word, vt, refills, passed, trough>>

\* The compare of the compare-and-swap.
Unchanged(w) == word.tag = old[w].tag /\ word.deficit = old[w].deficit

\* cake_drr_shared_reserve: the swap, or another turn.
Swap(w) ==
  LET o == old[w] IN
  /\ th[w].pc = "swap" /\ Unchanged(w)
  /\ word' = [tag |-> IF o.refilled THEN Round(th[w].now) ELSE o.tag,
              deficit |-> IF o.admitted THEN o.topped - th[w].len ELSE o.topped]
  /\ refills' = IF o.refilled THEN refills + 1 ELSE refills
  /\ th' = [th EXCEPT ![w].pc = IF o.admitted THEN "port" ELSE "unwind"]
  /\ old' = [old EXCEPT ![w] = Nothing]
  /\ UNCHANGED <<clock, local, vt, passed, trough>>

\* The exchange is a weak one: it may also fail for no reason.
SwapFails(w) ==
  /\ th[w].pc = "swap"
  /\ th' = [th EXCEPT ![w].pc = "load"]
  /\ old' = [old EXCEPT ![w] = Nothing]
  /\ UNCHANGED <<clock, local, word, vt, refills, passed, trough>>

\* The rate gate of the port; a packet that clears it is sent.
PortGate(w) ==
  /\ th[w].pc = "port"
  /\ IF GateOpen(vt.port, th[w].now)
     THEN /\ vt' = [vt EXCEPT !.port = Taken(@, th[w].len * PortCost, th[w].now)]
          /\ passed' = [svlan |-> passed.svlan + th[w].len * SvlanCost,
                         port |-> passed.port + th[w].len * PortCost]
          /\ th' = [th EXCEPT ![w].pc = "charge"]
     ELSE /\ th' = [th EXCEPT ![w].pc = "refund"]
          /\ UNCHANGED <<vt, passed>>
  /\ UNCHANGED <<clock, local, word, old, refills, trough>>

\* Mutant: the reservation is given back twice.
Refund_Twice(w) ==
  /\ th[w].pc = "refund"
  /\ word' = [word EXCEPT !.deficit = @ + 2 * th[w].len]
  /\ th' = [th EXCEPT ![w].pc = "unwind"]
  /\ UNCHANGED <<clock, local, old, vt, refills, passed, trough>>

\* cake_drr_shared_refund
Refund(w) ==
  /\ th[w].pc = "refund"
  /\ word' = [word EXCEPT !.deficit = @ + th[w].len]
  /\ th' = [th EXCEPT ![w].pc = "unwind"]
  /\ UNCHANGED <<clock, local, old, vt, refills, passed, trough>>

\* Mutant: the cost is taken back once by the refund and once more.
Unwind_Twice(w) ==
  /\ th[w].pc = "unwind"
  /\ vt' = [vt EXCEPT !.svlan = @ - 2 * th[w].len * SvlanCost]
  /\ Leave(w)
  /\ UNCHANGED <<clock, local, word, old, refills, passed, trough>>

\* The S-VLAN's gate charge is taken back, and the walk leaves the scheduler.
Unwind(w) ==
  /\ th[w].pc = "unwind"
  /\ vt' = [vt EXCEPT !.svlan = @ - th[w].len * SvlanCost]
  /\ Leave(w)
  /\ UNCHANGED <<clock, local, word, old, refills, passed, trough>>

\* cake_drr_local_charge, once the send has cleared every gate.
Charge(w) ==
  /\ th[w].pc = "charge"
  /\ local' = [local EXCEPT ![w].deficit = @ - th[w].len]
  /\ th' = [th EXCEPT ![w] = [pc |-> "walk", now |-> @.now, len |-> 0]]
  /\ UNCHANGED <<clock, word, old, vt, refills, passed, trough>>

\* A member of another S-VLAN, or of the port itself, sends through the port.
Sibling(l) ==
  /\ GateOpen(vt.port, clock)
  /\ vt' = [vt EXCEPT !.port = Taken(@, l * PortCost, clock)]
  /\ passed' = [passed EXCEPT !.port = @ + l * PortCost]
  /\ UNCHANGED <<clock, th, local, word, old, refills, trough>>

Step(w) ==
  \/ Dispatch(w) \/ EndDispatch(w) \/ SvlanGate(w) \/ Load(w) \/ Swap(w)
  \/ SwapFails(w) \/ PortGate(w) \/ Refund(w) \/ Unwind(w) \/ Charge(w)
  \/ \E l \in Lens : Admit(w, l)

Next ==
  \/ Tick
  \/ \E w \in Worker : Step(w)
  \/ \E l \in Lens : Sibling(l)

Spec == Init /\ [][Next]_vars
-----------------------------------------------------------------------------
Steps == {"idle", "walk", "gate", "load", "swap", "port", "refund", "unwind", "charge"}

\* Types, and virtual time never below zero: it is a u64 that refusals
\* subtract from (cake_agg_dequeue_gate).
TypeOK ==
  /\ clock \in Nat
  /\ th \in [Worker -> [pc : Steps, now : Nat, len : Lens \cup {0}]]
  /\ vt.svlan \in Nat /\ vt.port \in Nat
  /\ word.tag \in 0..(RoundMod - 1) /\ word.deficit \in Int
  /\ \A w \in Worker : local[w].tag \in 0..(RoundMod - 1) /\ local[w].deficit \in Int
  /\ refills \in Nat /\ passed.svlan \in Nat /\ passed.port \in Nat

\* The low half of the shared word stays near its bias, so no subtraction
\* borrows from the round tag: the debt is at most a packet beyond the
\* escape's floor (cake_drr_shared_reserve).
WordFloor == word.deficit >= -(MaxPkt - 1) - MaxLen

\* However many workers cross a round boundary, and however far apart their
\* clocks are, the S-VLAN is given at most one quantum per round
\* (cake_drr_round_advanced); and its credit is at most one refund per worker
\* beyond the cap, wherever the boundary falls between a reserve and its
\* refund, so no refund carries into the tag (cake_drr_shared_refund).
OneQuantumPerRound ==
  /\ refills <= clock \div Period
  /\ word.deficit <= CapOf(SvlanQuantum) + Cardinality(Worker) * MaxLen

\* What has been sent through the port fits in the time there was, up to one
\* packet, whichever worker's clock let it pass; and what is sent in any stretch
\* of time, after however long an idle one, fits in that stretch up to the
\* burst, a packet, and what a worker's clock lags (cake_shaper_gate_take).
PortRate ==
  /\ passed.port <= clock + MaxLen * PortCost
  /\ (passed.port - clock) - trough <= Burst + MaxLag + MaxLen * PortCost

\* The cost of a packet past the S-VLAN's gate that is not taken back yet.
InFlight ==
  [w \in Worker |->
     IF th[w].pc \in {"load", "swap", "port", "refund", "unwind"}
     THEN th[w].len * SvlanCost ELSE 0]

\* The same holds of the S-VLAN, whose gate later refusals give back: none
\* returns more than it took, which would also take the unsigned virtual time
\* below zero (cake_agg_dequeue_gate).
SvlanRate ==
  /\ TypeOK
  /\ passed.svlan + SumFunctionOnSet(InFlight, Worker) <= clock + MaxLen * SvlanCost

\* A scheduler's debt is bounded by the escape's floor and one packet, so it
\* is eligible again after a bounded number of refills (cake_drr_local_admit).
DebtBounded == \A w \in Worker : local[w].deficit >= -(MaxPkt - 1) - MaxLen
=============================================================================
