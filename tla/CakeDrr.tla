------------------------------ MODULE CakeDrr -------------------------------
(***************************************************************************)
(* The arithmetic of the deficit round robin of the QoS scheduler          *)
(* (plugins/osvbng_qos_sched/cake_drr.h), on rounds of Period ticks that   *)
(* are counted modulo RoundMod.                                            *)
(***************************************************************************)
EXTENDS Integers

CONSTANTS
  Period,     \* CAKE_DRR_ROUND_PERIOD_NS
  MaxPkt,     \* CAKE_MAX_PKT_BYTES
  RoundMod,   \* 2^32: the round tag is a u32
  StaleLead   \* CAKE_DRR_ROUND_STALE_LEAD

ASSUME DrrAssumption ==
  /\ Period \in Nat \ {0} /\ MaxPkt \in Nat \ {0}
  /\ RoundMod \in Nat \ {0} /\ StaleLead \in Nat
  /\ StaleLead < RoundMod \div 2

Larger(a, b) == IF a < b THEN b ELSE a
Smaller(a, b) == IF a < b THEN a ELSE b

\* cake_drr_round
Round(t) == (t \div Period) % RoundMod

\* (i32) (round - current): the difference as a signed number of its width
Signed(round, current) ==
  LET d == (round - current) % RoundMod
  IN IF d < RoundMod \div 2 THEN d ELSE d - RoundMod

\* Mutant: any other round is a new one.
RefillDue_Differs(round, current) == round # current

\* cake_drr_round_refill_due: the round has advanced, or the tag is so far
\* ahead that it must be from before a wrap.
RefillDue(round, current) ==
  \/ Signed(round, current) > 0
  \/ Signed(round, current) < -StaleLead

\* cake_drr_quantum
Quantum(bytes, weight, active) == (bytes * weight) \div Larger(active, weight)

CapOf(quantum) == Larger(2 * quantum, MaxPkt)

\* cake_drr_refill, and the same rule inside cake_drr_shared_reserve: credit
\* accumulates up to two quanta or a packet.
Refilled(deficit, quantum) == Smaller(deficit + quantum, CapOf(quantum))

\* Mutant: the escape has no floor.
EscapeOpen_NoFloor(deficit, idle, t) == idle + Period <= t

\* cake_drr_escape_open: the parent is a round behind the clock, and the child
\* is less than a packet in debt.
EscapeOpen(deficit, idle, t) == deficit > -MaxPkt /\ idle + Period <= t
=============================================================================
