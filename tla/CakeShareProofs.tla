-------------------------- MODULE CakeShareProofs ---------------------------
(***************************************************************************)
(* Proofs about CakeShare, for any number of workers, any lengths, rates,  *)
(* weights and burst: what the port and the S-VLAN pass, the debt of a     *)
(* scheduler and of the S-VLAN, and the S-VLAN's credit per round.         *)
(***************************************************************************)
EXTENDS CakeShare, FiniteSums

\* The state without the S-VLAN's virtual time, whose lower bound needs the
\* sum of what is in flight.
Shape ==
  /\ clock \in Nat
  /\ th \in [Worker -> [pc : Steps, now : Nat, len : Lens \cup {0}]]
  /\ local \in [Worker -> [tag : Int, deficit : Int]]
  /\ word \in [tag : Int, deficit : Int]
  /\ old \in [Worker -> [tag : Int, deficit : Int, refilled : BOOLEAN,
                         topped : Int, admitted : BOOLEAN]]
  /\ vt \in [svlan : Int, port : Int]
  /\ passed \in [svlan : Int, port : Int]

\* A sampled time is in the past.
Sampled == \A w \in Worker : th[w].now <= clock

\* The port's virtual time lies between what has passed and a packet ahead of
\* the clock.
PortTime ==
  /\ passed.port <= vt.port
  /\ vt.port <= clock + MaxLen * PortCost

Moving == {"gate", "load", "swap", "port", "refund", "unwind", "charge"}

\* A packet is moved only for a scheduler that is less than a packet in debt.
LocalDebt ==
  \A w \in Worker :
    /\ local[w].deficit >= -(MaxPkt - 1) - MaxLen
    /\ th[w].pc \in Moving => local[w].deficit > -MaxPkt

\* What a worker is about to swap in keeps the floor.
WordDebt ==
  /\ WordFloor
  /\ \A w \in Worker : th[w].pc = "swap" =>
       /\ old[w].topped >= -(MaxPkt - 1) - MaxLen
       /\ old[w].admitted => old[w].topped > -MaxPkt

IInv == Shape /\ Sampled /\ PortTime /\ LocalDebt /\ WordDebt

\* The bytes that are reserved from the word and may be refunded.
Reserved ==
  [w \in Worker |-> IF th[w].pc \in {"port", "refund"} THEN th[w].len ELSE 0]

Counts ==
  /\ refills \in Nat /\ passed.svlan \in Nat /\ passed.port \in Nat
  /\ \A w \in Worker : local[w].tag \in 0..(RoundMod - 1)

\* What the S-VLAN's gate was charged covers what has passed and what is in
\* flight, and is at most a packet ahead of the clock.
SvlanTime ==
  /\ passed.svlan + SumFunctionOnSet(InFlight, Worker) <= vt.svlan
  /\ vt.svlan <= clock + MaxLen * SvlanCost

\* The word with everything that may be refunded to it.
Credit ==
  word.deficit + SumFunctionOnSet(Reserved, Worker)
    <= CapOf(SvlanQuantum) + Cardinality(Worker) * MaxLen

\* The word's tag is a round that has begun, and rounds that were refilled for
\* are different.
RoundsKept ==
  \E r \in Nat : word.tag = r % RoundMod /\ refills <= r /\ r <= clock \div Period

\* A worker is not too late, and what it would swap in is what the word it
\* loaded calls for.
Ready(w) ==
  /\ th[w].pc # "idle" => clock - th[w].now <= MaxLag
  /\ th[w].pc = "swap" =>
       \/ /\ old[w].refilled
          /\ old[w].topped <= CapOf(SvlanQuantum)
          /\ RefillDue(Round(th[w].now), old[w].tag)
       \/ /\ ~old[w].refilled
          /\ old[w].topped = old[w].deficit

SInv == Counts /\ SvlanTime /\ Credit /\ RoundsKept /\ \A w \in Worker : Ready(w)
\* Since what has passed was furthest behind the clock, the port's virtual time
\* has moved with it, from no more than a burst before a worker's time.
Window ==
  /\ trough \in Int /\ trough <= passed.port - clock
  /\ \/ trough = passed.port - clock
     \/ vt.port >= (passed.port - trough) - (Burst + MaxLag)
-----------------------------------------------------------------------------
\* A packet costs no more than the longest one, at any rate.
LEMMA CostBound ==
  ASSUME NEW l \in Lens \cup {0}, NEW c \in Nat
  PROVE  /\ l \in 0..MaxLen
         /\ l * c \in Nat
         /\ l * c <= MaxLen * c
         /\ MaxLen * c \in Nat
<1>1. l \in 0..MaxLen /\ MaxLen \in Nat
  BY ShareAssumption
<1>2. PICK d \in Nat : MaxLen = l + d
  BY <1>1
<1>3. MaxLen * c = l * c + d * c
  BY <1>1, <1>2
<1>4. d * c \in Nat /\ l * c \in Nat
  BY <1>1, <1>2
<1> QED
  BY <1>1, <1>2, <1>3, <1>4

\* A quantum is a natural number: refilling never takes credit away.
LEMMA QuantumNat ==
  ASSUME NEW b \in Nat, NEW x \in Nat \ {0}, NEW a \in Nat \ {0}
  PROVE  Quantum(b, x, a) \in Nat
<1>1. Larger(a, x) \in Nat \ {0}
  BY DEF Larger
<1>2. b * x \in Nat
  OBVIOUS
<1>3. \A n \in Nat, m \in Nat \ {0} : n \div m \in Nat
  OBVIOUS
<1> QED
  BY <1>1, <1>2, <1>3 DEF Quantum

\* The two quanta of this tree.
LEMMA QuantaNat == SvlanQuantum \in Nat /\ SchedQuantum \in Nat
<1>1. SvlanQuantum \in Nat
  BY QuantumNat, ShareAssumption DEF SvlanQuantum
<1>2. SvlanShare \in Nat
  BY <1>1, ShareAssumption DEF SvlanShare, SvlanQuantum, Smaller
<1>3. SchedQuantum \in Nat
  BY <1>2, QuantumNat, ShareAssumption DEF SchedQuantum
<1> QED
  BY <1>1, <1>3

\* A refill leaves a deficit where it was or above, or at a positive cap.
LEMMA RefillRises ==
  ASSUME NEW d \in Int, NEW q \in Nat
  PROVE  /\ Refilled(d, q) \in Int
         /\ Refilled(d, q) >= d \/ Refilled(d, q) > 0
<1>1. CapOf(q) \in Nat /\ CapOf(q) > 0
  BY DrrAssumption DEF CapOf, Larger
<1> QED
  BY <1>1 DEF Refilled, Smaller

\* Rounds are integers.
LEMMA RoundInt == ASSUME NEW t \in Nat PROVE Round(t) \in Int
<1>1. t \div Period \in Nat
  BY DrrAssumption
<1> QED
  BY <1>1, DrrAssumption DEF Round

\* Virtual time moves on by the cost of a packet, from the clock at most.
LEMMA TakenBound ==
  ASSUME NEW time \in Int, NEW cost \in Nat, NEW t \in Nat, time <= t
  PROVE  /\ Taken(time, cost, t) \in Int
         /\ Taken(time, cost, t) >= time + cost
         /\ Taken(time, cost, t) <= t + cost
BY ShareAssumption DEF Taken, Larger
\* The type of th: where every worker is on the path.
Places == [Worker -> [pc : Steps, now : Nat, len : Lens \cup {0}]]

Goto(w, p) == th' = [th EXCEPT ![w].pc = p]

\* A worker that moves on keeps its time and its packet.
LEMMA MovesOn ==
  ASSUME th \in Places, NEW w \in Worker, NEW p \in Steps, Goto(w, p)
  PROVE  /\ th' \in Places
         /\ \A v \in Worker \ {w} : th'[v] = th[v]
         /\ th'[w] = [pc |-> p, now |-> th[w].now, len |-> th[w].len]
         /\ th'[w].pc = p /\ th'[w].now = th[w].now
<1>1. th[w] \in [pc : Steps, now : Nat, len : Lens \cup {0}]
  BY DEF Places
<1>2. [th[w] EXCEPT !.pc = p] = [pc |-> p, now |-> th[w].now, len |-> th[w].len]
  BY <1>1
<1>3. [th[w] EXCEPT !.pc = p] \in [pc : Steps, now : Nat, len : Lens \cup {0}]
  BY <1>1
<1>4. th' = [th EXCEPT ![w] = [th[w] EXCEPT !.pc = p]]
  BY DEF Goto
<1>5. /\ th' \in Places
      /\ \A v \in Worker \ {w} : th'[v] = th[v]
      /\ th'[w] = [pc |-> p, now |-> th[w].now, len |-> th[w].len]
  BY <1>2, <1>3, <1>4 DEF Places
<1> QED
  BY <1>5

\* A worker that leaves its scheduler is idle.
LEMMA Leaves ==
  ASSUME th \in Places, NEW w \in Worker, Leave(w)
  PROVE  /\ th' \in Places
         /\ \A v \in Worker \ {w} : th'[v] = th[v]
         /\ th'[w] = Idle
<1>1. Idle \in [pc : Steps, now : Nat, len : Lens \cup {0}]
  BY DEF Idle, Steps
<1> QED
  BY <1>1 DEF Leave, Places

\* A time sampled in the past stays one.
LEMMA SampledStep ==
  ASSUME Sampled, clock' = clock, NEW w \in Worker, th'[w].now <= clock,
         \A v \in Worker \ {w} : th'[v] = th[v]
  PROVE  Sampled'
BY DEF Sampled
-----------------------------------------------------------------------------
\* Every initial state satisfies the invariant.
LEMMA InitIInv == Init => IInv
<1> SUFFICES ASSUME Init PROVE IInv
  OBVIOUS
<1>1. Round(0) \in Int
  BY RoundInt
<1>2. MaxLen * PortCost \in Nat /\ MaxLen \in Nat
  BY ShareAssumption
<1>3. Shape
  BY <1>1 DEF Init, Shape, Idle, Nothing, Steps
<1> QED
  BY <1>2, <1>3, DrrAssumption DEF Init, IInv, Sampled, PortTime, LocalDebt, WordDebt,
    WordFloor, Idle, Moving

\* Steps that touch neither the gates nor the deficits only move a worker or
\* the clock.
LEMMA MoveStep ==
  ASSUME IInv, Tick \/ \E w \in Worker : Dispatch(w) \/ EndDispatch(w) \/ SwapFails(w)
  PROVE  IInv'
<1> USE DEF IInv
<1>1. CASE Tick
  <2>1. clock' \in Nat /\ clock' >= clock
    BY <1>1, ShareAssumption DEF Tick, Shape
  <2>2. UNCHANGED <<th, local, word, old, vt, passed>>
    BY <1>1 DEF Tick
  <2> QED
    <3>1. Shape'
      BY <2>1, <2>2 DEF Shape
    <3>2. Sampled' /\ PortTime'
      <4>1. MaxLen * PortCost \in Nat
        BY ShareAssumption
      <4> QED
        BY <2>1, <2>2, <4>1 DEF Shape, Sampled, PortTime
    <3>3. LocalDebt' /\ WordDebt'
      BY <2>2 DEF LocalDebt, WordDebt, WordFloor
    <3> QED
      BY <3>1, <3>2, <3>3
<1>2. ASSUME NEW w \in Worker, Dispatch(w) \/ EndDispatch(w)
      PROVE  IInv'
  <2>1. /\ th' \in [Worker -> [pc : Steps, now : Nat, len : Lens \cup {0}]]
        /\ \A v \in Worker \ {w} : th'[v] = th[v]
        /\ th'[w].pc \in {"walk", "idle"} /\ th'[w].now <= clock
    <3>1. th \in Places /\ clock \in Nat
      BY DEF Shape, Places
    <3>2. CASE Dispatch(w)
      <4>1. th' = [th EXCEPT ![w] = [pc |-> "walk", now |-> clock, len |-> 0]]
        BY <3>2 DEF Dispatch
      <4>2. [pc |-> "walk", now |-> clock, len |-> 0] \in [pc : Steps, now : Nat, len : Lens \cup {0}]
        BY <3>1 DEF Steps
      <4> QED
        BY <3>1, <4>1, <4>2 DEF Places
    <3>3. CASE EndDispatch(w)
      BY <3>1, <3>3, Leaves DEF EndDispatch, Idle, Places
    <3> QED
      BY <1>2, <3>2, <3>3
  <2>2. UNCHANGED <<clock, local, word, old, vt, passed>>
    BY <1>2 DEF Dispatch, EndDispatch
  <2> QED
    <3>1. Shape' /\ Sampled' /\ PortTime'
      BY <2>1, <2>2 DEF Shape, Sampled, PortTime
    <3>2. LocalDebt' /\ WordDebt'
      BY <2>1, <2>2 DEF LocalDebt, WordDebt, WordFloor, Moving
    <3> QED
      BY <3>1, <3>2
<1>3. ASSUME NEW w \in Worker, SwapFails(w)
      PROVE  IInv'
  <2>1. th' = [th EXCEPT ![w].pc = "load"] /\ th[w].pc = "swap"
    BY <1>3 DEF SwapFails
  <2>2. old' = [old EXCEPT ![w] = Nothing]
    BY <1>3 DEF SwapFails
  <2>3. UNCHANGED <<clock, local, word, vt, passed>>
    BY <1>3 DEF SwapFails
  <2> QED
    <3>0. /\ th' \in Places
          /\ \A v \in Worker \ {w} : th'[v] = th[v]
          /\ th'[w].pc = "load" /\ th'[w].now = th[w].now
      <4>1. th \in Places /\ "load" \in Steps /\ Goto(w, "load")
        BY <2>1 DEF Shape, Places, Steps, Goto
      <4> QED
        BY <4>1, MovesOn
    <3>1. Shape' /\ Sampled' /\ PortTime'
      <4>1. Sampled'
        BY <2>3, <3>0, SampledStep DEF Sampled
      <4>2. old' \in [Worker -> [tag : Int, deficit : Int, refilled : BOOLEAN,
                                 topped : Int, admitted : BOOLEAN]]
        BY <2>2 DEF Shape, Nothing
      <4> QED
        BY <2>3, <3>0, <4>1, <4>2 DEF Shape, PortTime, Places
    <3>2. LocalDebt' /\ WordDebt'
      <4>1. \A v \in Worker \ {w} : old'[v] = old[v]
        BY <2>2 DEF Shape
      <4> QED
        BY <2>1, <2>3, <3>0, <4>1 DEF LocalDebt, WordDebt, WordFloor, Moving
    <3> QED
      BY <3>1, <3>2
<1> QED
  BY <1>1, <1>2, <1>3

\* A scheduler is admitted while it is less than a packet in debt.
LEMMA AdmitStep ==
  ASSUME IInv, NEW w \in Worker, NEW l \in Lens, Admit(w, l)
  PROVE  IInv'
<1> USE DEF IInv
<1> DEFINE round == Round(th[w].now)
           c == local[w]
           d == IF RefillDue(round, c.tag) THEN Refilled(c.deficit, SchedQuantum) ELSE c.deficit
           idle == Larger(vt.svlan, vt.port)
<1>1. th[w].now \in Nat /\ c.deficit \in Int /\ c.tag \in Int
  BY DEF Shape
<1>2. round \in Int
  BY <1>1, RoundInt
<1>3. d \in Int /\ (d >= c.deficit \/ d > 0)
  <2>1. CASE RefillDue(round, c.tag)
    <3>1. d = Refilled(c.deficit, SchedQuantum)
      BY <2>1
    <3> HIDE DEF d, c, round
    <3> QED
      BY <1>1, <3>1, RefillRises, QuantaNat
  <2>2. CASE ~RefillDue(round, c.tag)
    <3>1. d = c.deficit
      BY <2>2
    <3> HIDE DEF d, c, round
    <3> QED
      BY <1>1, <3>1
  <2> QED
    BY <2>1, <2>2
<1>4. local' = [local EXCEPT ![w] =
                  [tag |-> IF RefillDue(round, c.tag) THEN round ELSE c.tag, deficit |-> d]]
  BY DEF Admit
<1>5. \/ /\ d > 0 \/ EscapeOpen(d, idle, th[w].now)
         /\ th' = [th EXCEPT ![w].pc = "gate", ![w].len = l]
      \/ Leave(w)
  BY DEF Admit
<1>6. th[w].pc = "walk" /\ UNCHANGED <<clock, word, old, vt, passed>>
  BY DEF Admit
<1> HIDE DEF d, c, round, idle
<1>7. local' \in [Worker -> [tag : Int, deficit : Int]]
  BY <1>1, <1>2, <1>3, <1>4 DEF Shape
<1>8. /\ th' \in [Worker -> [pc : Steps, now : Nat, len : Lens \cup {0}]]
      /\ \A v \in Worker \ {w} : th'[v] = th[v]
      /\ th'[w].pc \in {"gate", "idle"} /\ th'[w].now <= th[w].now
  BY <1>1, <1>5 DEF Leave, Idle, Shape, Steps
<1>9. th'[w].pc = "gate" => d > -MaxPkt
  BY <1>3, <1>5, DrrAssumption DEF EscapeOpen, Leave, Idle, Shape
<1>10. Shape' /\ Sampled' /\ PortTime'
  <2>1. th'[w].now <= clock
    BY <1>8, <1>1 DEF Sampled, Shape
  <2> QED
    BY <1>6, <1>7, <1>8, <2>1 DEF Shape, Sampled, PortTime
<1>11. LocalDebt'
  <2>1. d >= -(MaxPkt - 1) - MaxLen
    BY <1>1, <1>3, DrrAssumption, ShareAssumption DEF LocalDebt, c
  <2>2. local'[w].deficit = d /\ \A v \in Worker \ {w} : local'[v] = local[v]
    BY <1>4 DEF Shape
  <2> QED
    BY <1>8, <1>9, <2>1, <2>2 DEF LocalDebt, Moving
<1>12. WordDebt'
  BY <1>6, <1>8 DEF WordDebt, WordFloor
<1> QED
  BY <1>10, <1>11, <1>12

\* The gate of the S-VLAN, and taking its charge back, leave the port and the
\* deficits alone.
LEMMA SvlanStep ==
  ASSUME IInv, NEW w \in Worker, SvlanGate(w) \/ Unwind(w)
  PROVE  IInv'
<1> USE DEF IInv
<1> DEFINE cost == th[w].len * SvlanCost
<1>1. cost \in Nat /\ th[w].now \in Nat /\ vt.svlan \in Int
  BY CostBound, ShareAssumption DEF Shape
<1>2. /\ vt' \in [svlan : Int, port : Int]
      /\ vt'.port = vt.port
  <2>1. CASE SvlanGate(w)
    <3> HIDE DEF cost
    <3>1. CASE GateOpen(vt.svlan, th[w].now)
      <4>1. vt' = [vt EXCEPT !.svlan = Taken(vt.svlan, cost, th[w].now)]
        BY <2>1, <3>1 DEF SvlanGate, cost
      <4>2. Taken(vt.svlan, cost, th[w].now) \in Int
        BY <1>1, <3>1, TakenBound DEF GateOpen
      <4> QED
        BY <4>1, <4>2 DEF Shape
    <3>2. CASE ~GateOpen(vt.svlan, th[w].now)
      BY <2>1, <3>2 DEF SvlanGate, Shape
    <3> QED
      BY <3>1, <3>2
  <2>2. CASE Unwind(w)
    BY <1>1, <2>2 DEF Unwind, Shape
  <2> QED
    BY <2>1, <2>2
<1>3. /\ th' \in [Worker -> [pc : Steps, now : Nat, len : Lens \cup {0}]]
      /\ \A v \in Worker \ {w} : th'[v] = th[v]
      /\ th'[w].pc \in {"load", "idle"} /\ th'[w].now <= th[w].now
      /\ th[w].pc \in Moving
  <2>1. CASE SvlanGate(w)
    <3>1. th' = [th EXCEPT ![w].pc = "load"] \/ Leave(w)
      BY <2>1 DEF SvlanGate
    <3>2. th[w].pc \in Moving /\ th \in Places
      BY <2>1 DEF SvlanGate, Moving, Shape, Places
    <3>3. CASE th' = [th EXCEPT ![w].pc = "load"]
      <4>1. "load" \in Steps /\ Goto(w, "load")
        BY <3>3 DEF Steps, Goto
      <4>2. /\ th' \in Places
            /\ \A v \in Worker \ {w} : th'[v] = th[v]
            /\ th'[w] = [pc |-> "load", now |-> th[w].now, len |-> th[w].len]
        BY <3>2, <4>1, MovesOn
      <4> QED
        BY <1>1, <3>2, <4>2 DEF Places
    <3>4. CASE Leave(w)
      BY <1>1, <3>2, <3>4, Leaves DEF Idle, Places
    <3> QED
      BY <3>1, <3>3, <3>4
  <2>2. CASE Unwind(w)
    <3>1. Leave(w) /\ th[w].pc \in Moving /\ th \in Places
      BY <2>2 DEF Unwind, Moving, Shape, Places
    <3> QED
      BY <1>1, <3>1, Leaves DEF Idle, Places
  <2> QED
    BY <2>1, <2>2
<1>4. UNCHANGED <<clock, local, word, old, passed>>
  BY DEF SvlanGate, Unwind
<1>5. Shape' /\ Sampled' /\ PortTime'
  <2>1. th'[w].now <= clock
    BY <1>1, <1>3 DEF Sampled, Shape
  <2> QED
    BY <1>2, <1>3, <1>4, <2>1 DEF Shape, Sampled, PortTime
<1>6. LocalDebt' /\ WordDebt'
  BY <1>3, <1>4 DEF LocalDebt, WordDebt, WordFloor, Moving
<1> QED
  BY <1>5, <1>6

\* A worker loads the shared word and decides.
LEMMA LoadStep ==
  ASSUME IInv, NEW w \in Worker, Load(w)
  PROVE  IInv'
<1> USE DEF IInv
<1> DEFINE due == RefillDue(Round(th[w].now), word.tag)
           d == IF due THEN Refilled(word.deficit, SvlanQuantum) ELSE word.deficit
           admitted == d > 0 \/ EscapeOpen(d, vt.port, th[w].now)
<1>1. word.deficit \in Int /\ word.tag \in Int
  BY DEF Shape
<1>2. d \in Int /\ (d >= word.deficit \/ d > 0)
  <2> HIDE DEF due
  <2> QED
    BY <1>1, RefillRises, QuantaNat
<1>3. due \in BOOLEAN /\ admitted \in BOOLEAN
  <2>1. due \in BOOLEAN
    BY DEF RefillDue
  <2>2. admitted \in BOOLEAN
    BY DEF EscapeOpen
  <2> QED
    BY <2>1, <2>2
<1>4. admitted => d > -MaxPkt
  BY <1>2, DrrAssumption DEF EscapeOpen
<1>5. d >= -(MaxPkt - 1) - MaxLen
  BY <1>1, <1>2, DrrAssumption, ShareAssumption DEF WordDebt, WordFloor
<1>6. old' = [old EXCEPT ![w] = [tag |-> word.tag, deficit |-> word.deficit,
                                refilled |-> due, topped |-> d, admitted |-> admitted]]
  BY DEF Load
<1>7. th[w].pc = "load" /\ UNCHANGED <<clock, local, word, vt, passed>>
  BY DEF Load
<1>8. /\ th' = [th EXCEPT ![w].pc = IF admitted \/ due THEN "swap" ELSE "unwind"]
  BY DEF Load
<1> HIDE DEF d, due, admitted
<1>9. Shape' /\ Sampled' /\ PortTime'
  <2>1. old' \in [Worker -> [tag : Int, deficit : Int, refilled : BOOLEAN,
                             topped : Int, admitted : BOOLEAN]]
    BY <1>1, <1>2, <1>3, <1>6 DEF Shape
  <2>2. th' \in Places /\ Sampled'
    <3> DEFINE p == IF admitted \/ due THEN "swap" ELSE "unwind"
    <3>1. th \in Places /\ p \in Steps /\ Goto(w, p)
      BY <1>8 DEF Shape, Places, Steps, Goto
    <3> HIDE DEF p
    <3>2. /\ th' \in Places /\ th'[w].now = th[w].now
          /\ \A v \in Worker \ {w} : th'[v] = th[v]
      BY <3>1, MovesOn
    <3> QED
      BY <1>7, <3>2, SampledStep DEF Sampled
  <2> QED
    BY <1>7, <2>1, <2>2 DEF Shape, PortTime, Places
<1>10. LocalDebt'
  BY <1>7, <1>8 DEF Shape, LocalDebt, Moving
<1>11. WordDebt'
  <2>1. old'[w].topped = d /\ old'[w].admitted = admitted
    BY <1>6 DEF Shape
  <2>2. \A v \in Worker \ {w} : old'[v] = old[v] /\ th'[v] = th[v]
    BY <1>6, <1>8 DEF Shape
  <2> QED
    BY <1>4, <1>5, <1>7, <2>1, <2>2 DEF WordDebt, WordFloor
<1> QED
  BY <1>9, <1>10, <1>11

\* The swap charges a packet only above the escape's floor, and a refund only
\* raises the deficit.
LEMMA WordStep ==
  ASSUME IInv, NEW w \in Worker, Swap(w) \/ Refund(w)
  PROVE  IInv'
<1> USE DEF IInv
<1>1. th[w].len \in 0..MaxLen /\ th[w].now \in Nat /\ MaxLen \in Nat
  BY CostBound, ShareAssumption DEF Shape
<1>2. UNCHANGED <<clock, local, vt, passed>>
  BY DEF Swap, Refund
<1>3. CASE Swap(w)
  <2>1. th[w].pc = "swap"
    BY <1>3 DEF Swap
  <2>2. /\ word' = [tag |-> IF old[w].refilled THEN Round(th[w].now) ELSE old[w].tag,
                    deficit |-> IF old[w].admitted THEN old[w].topped - th[w].len
                                ELSE old[w].topped]
        /\ th' = [th EXCEPT ![w].pc = IF old[w].admitted THEN "port" ELSE "unwind"]
        /\ old' = [old EXCEPT ![w] = Nothing]
    BY <1>3 DEF Swap
  <2>3. word' \in [tag : Int, deficit : Int] /\ WordFloor'
    BY <1>1, <2>1, <2>2, RoundInt, DrrAssumption DEF Shape, WordDebt, WordFloor
  <2>4. Shape' /\ Sampled' /\ PortTime'
    BY <1>2, <2>2, <2>3 DEF Shape, Sampled, PortTime, Steps, Nothing
  <2>5. LocalDebt'
    BY <1>2, <2>1, <2>2 DEF Shape, LocalDebt, Moving
  <2>6. WordDebt'
    <3>1. \A v \in Worker \ {w} : old'[v] = old[v] /\ th'[v] = th[v]
      BY <2>2 DEF Shape
    <3>2. th'[w].pc # "swap"
      BY <2>2 DEF Shape
    <3> QED
      BY <2>3, <3>1, <3>2 DEF WordDebt
  <2> QED
    BY <2>4, <2>5, <2>6
<1>4. CASE Refund(w)
  <2>1. /\ th[w].pc = "refund"
        /\ word' = [word EXCEPT !.deficit = @ + th[w].len]
        /\ th' = [th EXCEPT ![w].pc = "unwind"]
        /\ UNCHANGED old
    BY <1>4 DEF Refund
  <2>2. word' \in [tag : Int, deficit : Int] /\ WordFloor'
    BY <1>1, <2>1, DrrAssumption DEF Shape, WordDebt, WordFloor
  <2>3. Shape' /\ Sampled' /\ PortTime'
    BY <1>2, <2>1, <2>2 DEF Shape, Sampled, PortTime, Steps
  <2>4. LocalDebt'
    BY <1>2, <2>1 DEF Shape, LocalDebt, Moving
  <2>5. WordDebt'
    BY <2>1, <2>2 DEF Shape, WordDebt
  <2> QED
    BY <2>3, <2>4, <2>5
<1> QED
  BY <1>3, <1>4

\* The port's gate is where bytes pass: virtual time grows by what passes.
LEMMA PortStep ==
  ASSUME IInv, NEW l \in Lens \cup {0}, NEW t \in Nat, t <= clock,
         GateOpen(vt.port, t),
         vt' = [vt EXCEPT !.port = Taken(@, l * PortCost, t)],
         passed'.port = passed.port + l * PortCost, clock' = clock
  PROVE  PortTime' /\ vt' \in [svlan : Int, port : Int]
<1> USE DEF IInv
<1> DEFINE cost == l * PortCost
<1>1. cost \in Nat /\ cost <= MaxLen * PortCost /\ MaxLen * PortCost \in Nat
  BY CostBound, ShareAssumption
<1> DEFINE time == Taken(vt.port, cost, t)
<1>2. vt' = [vt EXCEPT !.port = time] /\ passed'.port = passed.port + cost
  OBVIOUS
<1> HIDE DEF cost
<1>3. vt.port \in Int /\ vt.port <= t
  BY DEF Shape, GateOpen
<1>4. time \in Int /\ time >= vt.port + cost /\ time <= t + cost
  BY <1>1, <1>3, TakenBound
<1> HIDE DEF time
<1>5. vt'.port = time /\ vt' \in [svlan : Int, port : Int]
  BY <1>2, <1>4 DEF Shape
<1> QED
  BY <1>1, <1>2, <1>3, <1>4, <1>5 DEF PortTime, Shape

\* A worker's packet at the port's gate, its charge, and the port's siblings.
LEMMA SendStep ==
  ASSUME IInv,
         \/ \E w \in Worker : PortGate(w) \/ Charge(w)
         \/ \E l \in Lens : Sibling(l)
  PROVE  IInv'
<1> USE DEF IInv
<1>1. ASSUME NEW w \in Worker, PortGate(w)
      PROVE  IInv'
  <2>1. /\ th[w].pc = "port"
        /\ \/ th' = [th EXCEPT ![w].pc = "charge"]
           \/ th' = [th EXCEPT ![w].pc = "refund"]
        /\ UNCHANGED <<clock, local, word, old>>
    BY <1>1 DEF PortGate
  <2>2. th[w].len \in Lens \cup {0} /\ th[w].now \in Nat /\ th[w].now <= clock
    BY DEF Shape, Sampled
  <2>3. /\ PortTime' /\ vt' \in [svlan : Int, port : Int]
        /\ passed' \in [svlan : Int, port : Int]
    <3>1. CASE GateOpen(vt.port, th[w].now)
      <4>1. /\ vt' = [vt EXCEPT !.port = Taken(@, th[w].len * PortCost, th[w].now)]
            /\ passed' = [svlan |-> passed.svlan + th[w].len * SvlanCost,
                          port |-> passed.port + th[w].len * PortCost]
        BY <1>1, <3>1 DEF PortGate
      <4>2. PortTime' /\ vt' \in [svlan : Int, port : Int]
        BY <2>1, <2>2, <3>1, <4>1, PortStep
      <4>3. th[w].len * SvlanCost \in Int /\ th[w].len * PortCost \in Int
        <5>1. SvlanCost \in Nat /\ PortCost \in Nat
          BY ShareAssumption
        <5>2. th[w].len * SvlanCost \in Nat
          BY <2>2, <5>1, CostBound
        <5>3. th[w].len * PortCost \in Nat
          BY <2>2, <5>1, CostBound
        <5> QED
          BY <5>2, <5>3
      <4> QED
        BY <4>1, <4>2, <4>3 DEF Shape
    <3>2. CASE ~GateOpen(vt.port, th[w].now)
      BY <1>1, <2>1, <3>2 DEF PortGate, Shape, PortTime
    <3> QED
      BY <3>1, <3>2
  <2>0. /\ th' \in Places
        /\ \A v \in Worker \ {w} : th'[v] = th[v]
        /\ th'[w].pc \in {"charge", "refund"} /\ th'[w].now = th[w].now
    <3>1. th \in Places /\ {"charge", "refund"} \subseteq Steps
      BY DEF Shape, Places, Steps
    <3>2. Goto(w, "charge") \/ Goto(w, "refund")
      BY <2>1 DEF Goto
    <3> QED
      BY <3>1, <3>2, MovesOn
  <2>4. Shape' /\ Sampled'
    <3>1. Sampled'
      BY <2>0, <2>1, SampledStep DEF Sampled
    <3> QED
      BY <2>0, <2>1, <2>3, <3>1 DEF Shape, Places
  <2>5. LocalDebt' /\ WordDebt'
    BY <2>0, <2>1 DEF LocalDebt, WordDebt, WordFloor, Moving
  <2> QED
    BY <2>3, <2>4, <2>5
<1>2. ASSUME NEW w \in Worker, Charge(w)
      PROVE  IInv'
  <2>1. /\ th[w].pc = "charge"
        /\ th' = [th EXCEPT ![w] = [pc |-> "walk", now |-> @.now, len |-> 0]]
        /\ local' = [local EXCEPT ![w].deficit = @ - th[w].len]
        /\ UNCHANGED <<clock, word, old, vt, passed>>
    BY <1>2 DEF Charge
  <2>2. th[w].len \in 0..MaxLen /\ MaxLen \in Nat
    BY CostBound, ShareAssumption DEF Shape
  <2>0. /\ th' \in Places
        /\ \A v \in Worker \ {w} : th'[v] = th[v]
        /\ th'[w] = [pc |-> "walk", now |-> th[w].now, len |-> 0]
    <3>1. th[w] \in [pc : Steps, now : Nat, len : Lens \cup {0}]
      BY DEF Shape
    <3>3. th' = [th EXCEPT ![w] = [pc |-> "walk", now |-> th[w].now, len |-> 0]]
      BY <2>1
    <3>4. [pc |-> "walk", now |-> th[w].now, len |-> 0] \in [pc : Steps, now : Nat, len : Lens \cup {0}]
      BY <3>1 DEF Steps
    <3> QED
      BY <3>3, <3>4 DEF Shape, Places
  <2>3. local' \in [Worker -> [tag : Int, deficit : Int]] /\ LocalDebt'
    <3>1. local[w].deficit \in Int /\ local[w].deficit > -MaxPkt
      BY <2>1 DEF Shape, LocalDebt, Moving
    <3>2. local' = [local EXCEPT ![w] = [local[w] EXCEPT !.deficit = @ - th[w].len]]
      BY <2>1
    <3>3. local[w].deficit - th[w].len \in Int
      BY <2>2, <3>1
    <3>4. [local[w] EXCEPT !.deficit = @ - th[w].len] \in [tag : Int, deficit : Int]
      BY <3>3 DEF Shape
    <3>5. local' \in [Worker -> [tag : Int, deficit : Int]]
      BY <3>2, <3>4 DEF Shape
    <3>6. /\ \A v \in Worker \ {w} : local'[v] = local[v]
          /\ local'[w].deficit = local[w].deficit - th[w].len
      BY <3>2 DEF Shape
    <3>7. local'[w].deficit >= -(MaxPkt - 1) - MaxLen
      BY <2>2, <3>1, <3>6, DrrAssumption
    <3> QED
      BY <2>0, <3>5, <3>6, <3>7 DEF LocalDebt, Moving
  <2>4. Shape' /\ Sampled' /\ PortTime'
    <3>1. Sampled'
      <4>1. th'[w].now = th[w].now
        BY <2>0
      <4> QED
        BY <2>0, <2>1, <4>1, SampledStep DEF Sampled
    <3> QED
      BY <2>0, <2>1, <2>3, <3>1 DEF Shape, PortTime, Places
  <2>5. WordDebt'
    <3>1. th'[w].pc # "swap"
      BY <2>0
    <3> QED
      BY <2>0, <2>1, <3>1 DEF WordDebt, WordFloor
  <2> QED
    BY <2>3, <2>4, <2>5
<1>3. ASSUME NEW l \in Lens, Sibling(l)
      PROVE  IInv'
  <2>1. /\ GateOpen(vt.port, clock)
        /\ vt' = [vt EXCEPT !.port = Taken(@, l * PortCost, clock)]
        /\ passed' = [passed EXCEPT !.port = @ + l * PortCost]
        /\ UNCHANGED <<clock, th, local, word, old>>
    BY <1>3 DEF Sibling
  <2>2. l * PortCost \in Int
    BY CostBound, ShareAssumption
  <2>3. passed' \in [svlan : Int, port : Int] /\ passed'.port = passed.port + l * PortCost
    BY <2>1, <2>2 DEF Shape
  <2>4. PortTime' /\ vt' \in [svlan : Int, port : Int]
    <3>1. clock \in Nat /\ clock <= clock
      BY DEF Shape
    <3> QED
      BY <2>1, <2>3, <3>1, PortStep
  <2>5. Shape' /\ Sampled' /\ LocalDebt' /\ WordDebt'
    BY <2>1, <2>3, <2>4 DEF Shape, Sampled, LocalDebt, WordDebt, WordFloor
  <2> QED
    BY <2>4, <2>5
<1> QED
  BY <1>1, <1>2, <1>3

\* Every step of the specification preserves the invariant.
LEMMA NextIInv == IInv /\ [Next]_vars => IInv'
<1> SUFFICES ASSUME IInv, [Next]_vars PROVE IInv'
  OBVIOUS
<1>1. CASE UNCHANGED vars
  BY <1>1 DEF vars, IInv, Shape, Sampled, PortTime, LocalDebt, WordDebt, WordFloor
<1>2. CASE Next
  BY <1>2, MoveStep, AdmitStep, SvlanStep, LoadStep, WordStep, SendStep DEF Next, Step
<1> QED
  BY <1>1, <1>2

\* The invariant implies the two bounds on debt.
LEMMA IInvImplies == IInv => DebtBounded /\ WordFloor
BY DEF IInv, LocalDebt, DebtBounded, WordDebt

-----------------------------------------------------------------------------
\* A number has one quotient and one remainder.
LEMMA ModIs ==
  ASSUME NEW m \in Nat \ {0}, NEW y \in Int, NEW k \in Int, NEW z \in 0..(m - 1),
         y = m * k + z
  PROVE  y % m = z
<1>1. /\ y \div m \in Int /\ y % m \in 0..(m - 1)
      /\ y = m * (y \div m) + (y % m)
  OBVIOUS
<1> DEFINE q == y \div m
           x == y % m
<1>2. q \in Int /\ x \in 0..(m - 1) /\ m * (k - q) = x - z
  BY <1>1
<1> HIDE DEF q, x
<1>3. CASE k - q >= 1
  <2>1. m * (k - q) >= m
    BY <1>2, <1>3
  <2> QED BY <1>2, <2>1
<1>4. CASE k - q <= -1
  <2>1. m * (k - q) <= -m
    BY <1>2, <1>4
  <2> QED BY <1>2, <2>1
<1>5. CASE k - q = 0
  BY <1>2, <1>5
<1>6. x = z
  BY <1>2, <1>3, <1>4, <1>5
<1> QED BY <1>6 DEF x

\* A refill is due only for a later round, if no worker is StaleLead rounds
\* behind: wherever the tags are on their wheel.
LEMMA DueAdvances ==
  ASSUME NEW r \in Nat, NEW c \in Nat, c - r <= StaleLead,
         RefillDue(r % RoundMod, c % RoundMod)
  PROVE  c < r
<1>1. SUFFICES ASSUME r <= c PROVE FALSE
  OBVIOUS
<1> DEFINE e == c - r
           half == RoundMod \div 2
           y == (r % RoundMod) - (c % RoundMod)
<1>2. /\ RoundMod \in Nat \ {0} /\ StaleLead \in Nat /\ StaleLead < half
      /\ half \in Nat /\ 2 * half <= RoundMod /\ half < RoundMod
  BY DrrAssumption
<1>3. e \in 0..StaleLead
  BY <1>1, <1>2
<1>4. PICK a \in Int, b \in Int : r = RoundMod * a + (r % RoundMod) /\ c = RoundMod * b + (c % RoundMod)
  <2>1. /\ r \div RoundMod \in Int /\ c \div RoundMod \in Int
        /\ r = RoundMod * (r \div RoundMod) + (r % RoundMod)
        /\ c = RoundMod * (c \div RoundMod) + (c % RoundMod)
    BY <1>2
  <2> QED BY <2>1
<1>5. y \in Int /\ y = RoundMod * (b - a) - e
  <2>1. PICK u \in Int, v \in Int : u = r % RoundMod /\ v = c % RoundMod
    BY <1>2
  <2>2. RoundMod * (b - a) = RoundMod * b - RoundMod * a
    BY <1>2
  <2>3. r = RoundMod * a + u /\ c = RoundMod * b + v
    BY <1>4, <2>1
  <2>4. RoundMod * a \in Int /\ RoundMod * b \in Int
    BY <1>2
  <2>5. u - v = RoundMod * (b - a) - (c - r)
    BY <2>2, <2>3, <2>4
  <2> QED BY <2>1, <2>5
<1> HIDE DEF half
<1>6. CASE e = 0
  <2>1. y % RoundMod = 0
    <3>1. y = RoundMod * (b - a) + 0 /\ 0 \in 0..(RoundMod - 1) /\ b - a \in Int
      BY <1>2, <1>5, <1>6
    <3> HIDE DEF y, e
    <3> QED BY <1>2, <1>5, <3>1, ModIs
  <2>2. Signed(r % RoundMod, c % RoundMod) = 0
    BY <1>2, <1>3, <2>1 DEF Signed, half
  <2> QED BY <1>2, <2>2 DEF RefillDue
<1>7. CASE e > 0
  <2>1. y % RoundMod = RoundMod - e
    <3>1. /\ RoundMod - e \in 0..(RoundMod - 1) /\ b - a - 1 \in Int
          /\ y = RoundMod * (b - a - 1) + (RoundMod - e)
      BY <1>2, <1>3, <1>5, <1>7
    <3> HIDE DEF y, e
    <3> QED BY <1>2, <1>5, <3>1, ModIs
  <2>2. ~(RoundMod - e < half)
    BY <1>2, <1>3
  <2>3. Signed(r % RoundMod, c % RoundMod) = -e
    BY <1>2, <1>3, <2>1, <2>2 DEF Signed, half
  <2> HIDE DEF e
  <2> QED BY <1>2, <1>3, <1>7, <2>3 DEF RefillDue
<1> QED BY <1>3, <1>6, <1>7

\* Rounds follow the clock.
LEMMA DivGrows ==
  ASSUME NEW p \in Nat \ {0}, NEW t \in Nat, NEW c \in Nat, t <= c
  PROVE  t \div p <= c \div p /\ t \div p \in Nat /\ c \div p \in Nat
<1> DEFINE a == c \div p
           b == t \div p
<1>1. /\ a \in Nat /\ b \in Nat
      /\ c < p * a + p /\ p * b <= t
  OBVIOUS
<1> HIDE DEF a, b
<1>2. SUFFICES ASSUME b >= a + 1 PROVE FALSE
  BY <1>1 DEF a, b
<1>3. p * b >= p * (a + 1)
  BY <1>1, <1>2
<1>4. p * (a + 1) = p * a + p
  BY <1>1
<1> QED BY <1>1, <1>3, <1>4

\* A worker within MaxLag of the clock is less than StaleLead rounds late.
LEMMA LagInRounds ==
  ASSUME NEW c \in Nat, NEW t \in Nat, t <= c, c - t <= MaxLag
  PROVE  /\ (c \div Period) - (t \div Period) <= StaleLead
         /\ t \div Period \in Nat /\ c \div Period \in Nat
         /\ t \div Period <= c \div Period
<1> DEFINE a == c \div Period
           b == t \div Period
<1>1. /\ Period \in Nat \ {0} /\ StaleLead \in Nat
      /\ MaxLag \in Nat /\ MaxLag < StaleLead * Period
  BY DrrAssumption, ShareAssumption
<1>2. /\ a \in Nat /\ b \in Nat
      /\ Period * a <= c /\ c < Period * a + Period
      /\ Period * b <= t /\ t < Period * b + Period
  BY <1>1
<1> HIDE DEF a, b
<1>3. Period * a - Period * b < StaleLead * Period + Period
  <2>1. StaleLead * Period \in Int /\ Period * a \in Int /\ Period * b \in Int
    BY <1>1, <1>2
  <2> QED BY <1>1, <1>2, <2>1
<1>4. Period * (a - b) < Period * (StaleLead + 1)
  BY <1>1, <1>2, <1>3
<1>5. a - b < StaleLead + 1
  <2>1. SUFFICES ASSUME a - b >= StaleLead + 1 PROVE FALSE
    BY <1>1, <1>2
  <2>2. Period * (a - b) >= Period * (StaleLead + 1)
    BY <1>1, <1>2, <2>1
  <2> QED BY <1>1, <1>2, <1>4, <2>2
<1>6. b <= a
  BY <1>1, DivGrows DEF a, b
<1>7. a - b <= StaleLead
  BY <1>1, <1>2, <1>5
<1> QED BY <1>2, <1>6, <1>7 DEF a, b

-----------------------------------------------------------------------------
\* What a worker has in flight, and how the two sums follow one worker.
LEMMA CapNat == CapOf(SvlanQuantum) \in Nat
BY QuantaNat, DrrAssumption DEF CapOf, Larger

InFlightOk ==
  \A v \in Worker : InFlight[v] \in Nat /\ Reserved[v] \in 0..MaxLen

LEMMA InFlightTyped == Shape => InFlightOk
<1> SUFFICES ASSUME Shape PROVE InFlightOk
  OBVIOUS
<1>1. \A v \in Worker : th[v].len \in Lens \cup {0}
  BY DEF Shape
<1>2. \A v \in Worker : th[v].len * SvlanCost \in Nat /\ th[v].len \in 0..MaxLen
  BY <1>1, CostBound, ShareAssumption
<1>3. MaxLen \in Nat
  BY ShareAssumption
<1>4. \A v \in Worker : InFlight[v] \in Nat
  BY <1>2 DEF InFlight
<1>5. \A v \in Worker : Reserved[v] \in 0..MaxLen
  BY <1>2, <1>3 DEF Reserved
<1> QED BY <1>4, <1>5 DEF InFlightOk

Flight == SumFunctionOnSet(InFlight, Worker)
Owed == SumFunctionOnSet(Reserved, Worker)

SumsOk ==
  /\ InFlightOk
  /\ Flight \in Nat /\ Owed \in Nat
  /\ Cardinality(Worker) * MaxLen \in Nat
  /\ Owed <= Cardinality(Worker) * MaxLen

LEMMA SumsTyped == Shape => SumsOk
<1> SUFFICES ASSUME Shape PROVE SumsOk
  OBVIOUS
<1>0. InFlightOk
  BY InFlightTyped
<1>1. IsFiniteSet(Worker) /\ MaxLen \in Nat /\ Cardinality(Worker) \in Nat
  BY ShareAssumption, FS_CardinalityType
<1>2. Flight \in Nat
  BY <1>0, <1>1, SumNat DEF Flight, InFlightOk
<1>3. \A v \in Worker : Reserved[v] \in Nat /\ Reserved[v] \in Int /\ Reserved[v] <= MaxLen
  BY <1>0, <1>1 DEF InFlightOk
<1>4. Owed \in Nat
  BY <1>1, <1>3, SumNat DEF Owed
<1>5. Owed <= Cardinality(Worker) * MaxLen
  BY <1>1, <1>3, SumAtMost DEF Owed
<1> QED BY <1>0, <1>1, <1>2, <1>4, <1>5 DEF SumsOk

LEMMA SumsTypedNext == Shape' => SumsOk'
BY SumsTyped, PTL

Others(w) == \A v \in Worker \ {w} : th'[v] = th[v]

LEMMA SumsMove ==
  ASSUME Shape, Shape', NEW w \in Worker, Others(w)
  PROVE  /\ Flight' = Flight + (InFlight'[w] - InFlight[w])
         /\ Owed' = Owed + (Reserved'[w] - Reserved[w])
<1>1. IsFiniteSet(Worker) /\ MaxLen \in Nat
  BY ShareAssumption
<1>2. SumsOk /\ SumsOk'
  BY SumsTyped, SumsTypedNext
<1>3. /\ \A v \in Worker : InFlight[v] \in Int /\ InFlight'[v] \in Int
      /\ \A v \in Worker : Reserved[v] \in Int /\ Reserved'[v] \in Int
  BY <1>1, <1>2 DEF SumsOk, InFlightOk
<1>4. \A v \in Worker \ {w} : InFlight[v] = InFlight'[v] /\ Reserved[v] = Reserved'[v]
  BY DEF Others, InFlight, Reserved
<1> DEFINE f == InFlight
           g == InFlight'
           h == Reserved
           k == Reserved'
<1>5. /\ \A v \in Worker : f[v] \in Int /\ g[v] \in Int /\ h[v] \in Int /\ k[v] \in Int
      /\ \A v \in Worker \ {w} : f[v] = g[v] /\ h[v] = k[v]
  BY <1>3, <1>4
<1>6. /\ Flight = SumFunctionOnSet(f, Worker) /\ Flight' = SumFunctionOnSet(g, Worker)
      /\ Owed = SumFunctionOnSet(h, Worker) /\ Owed' = SumFunctionOnSet(k, Worker)
  BY DEF Flight, Owed
<1>7. Flight' = Flight + (g[w] - f[w]) /\ Owed' = Owed + (k[w] - h[w])
  <2> HIDE DEF f, g, h, k
  <2>1. SumFunctionOnSet(g, Worker) = SumFunctionOnSet(f, Worker) + (g[w] - f[w])
    BY <1>1, <1>5, SumChange
  <2>2. SumFunctionOnSet(k, Worker) = SumFunctionOnSet(h, Worker) + (k[w] - h[w])
    BY <1>1, <1>5, SumChange
  <2> QED BY <2>1, <2>2, <1>6
<1> QED BY <1>7

\* The same, with what a worker has in flight before and after.
LEMMA SumsAt ==
  ASSUME Shape, Shape', NEW w \in Worker, Others(w)
  PROVE  /\ Flight \in Nat /\ Flight' \in Nat /\ Owed \in Nat /\ Owed' \in Nat
         /\ Flight' - Flight = InFlight'[w] - InFlight[w]
         /\ Owed' - Owed = Reserved'[w] - Reserved[w]
         /\ InFlight[w] \in Nat /\ InFlight'[w] \in Nat
         /\ Reserved[w] \in Nat /\ Reserved'[w] \in Nat
<1>1. SumsOk /\ SumsOk'
  BY SumsTyped, SumsTypedNext
<1>2. /\ Flight \in Nat /\ Owed \in Nat /\ Flight' \in Nat /\ Owed' \in Nat
      /\ InFlight[w] \in Nat /\ Reserved[w] \in 0..MaxLen
      /\ InFlight'[w] \in Nat /\ Reserved'[w] \in 0..MaxLen
  BY <1>1 DEF SumsOk, InFlightOk
<1>5. /\ Flight' = Flight + (InFlight'[w] - InFlight[w])
      /\ Owed' = Owed + (Reserved'[w] - Reserved[w])
  BY SumsMove
<1>6. MaxLen \in Nat
  BY ShareAssumption
<1> QED BY <1>2, <1>5, <1>6

-----------------------------------------------------------------------------
LEMMA InitSInv == Init => SInv
<1> SUFFICES ASSUME Init PROVE SInv
  OBVIOUS
<1>1. Shape
  BY InitIInv DEF IInv
<1>2. SumsOk
  BY <1>1, SumsTyped
<1>3. \A v \in Worker : InFlight[v] = 0 /\ Reserved[v] = 0
  BY DEF Init, Idle, InFlight, Reserved
<1>4. Flight <= 0 /\ Owed <= 0
  <2>1. IsFiniteSet(Worker) /\ Cardinality(Worker) \in Nat
    BY ShareAssumption, FS_CardinalityType
  <2>2. Flight <= Cardinality(Worker) * 0 /\ Owed <= Cardinality(Worker) * 0
    BY <1>3, <2>1, SumAtMost DEF Flight, Owed
  <2> QED BY <2>1, <2>2, <1>2 DEF SumsOk
<1>5. Flight = 0 /\ Owed = 0
  BY <1>2, <1>4 DEF SumsOk
<1>6. 0 \div Period = 0 /\ Round(0) = 0 /\ 0 % RoundMod = 0 /\ Round(0) \in 0..(RoundMod - 1)
  <2>1. 0 \div Period = 0 /\ 0 % RoundMod = 0
    BY DrrAssumption
  <2> QED BY <2>1, DrrAssumption DEF Round
<1>7. Counts
  BY <1>6 DEF Init, Counts
<1>8. SvlanTime
  <2>1. MaxLen * SvlanCost \in Nat
    BY ShareAssumption
  <2> QED BY <1>5, <2>1 DEF Init, SvlanTime, Flight
<1>9. Credit
  BY <1>5, <1>2, CapNat DEF Init, Credit, Owed, SumsOk
<1>10. RoundsKept
  <2>1. word.tag = 0 % RoundMod /\ refills <= 0 /\ 0 <= clock \div Period
    BY <1>6 DEF Init
  <2> QED BY <2>1 DEF RoundsKept
<1>11. \A w \in Worker : Ready(w)
  BY DEF Init, Ready, Idle
<1> QED BY <1>7, <1>8, <1>9, <1>10, <1>11 DEF SInv

\* What a worker knows changes only by its own steps, while the clock stands.
LEMMA OthersReady ==
  ASSUME SInv, NEW w \in Worker, Others(w), clock' = clock,
         \A v \in Worker \ {w} : old'[v] = old[v]
  PROVE  \A v \in Worker \ {w} : Ready(v)'
BY DEF SInv, Ready, Others

\* Steps that leave the word, the gates and what is in flight.
LEMMA QuietStep ==
  ASSUME IInv, IInv', SInv, NEW w \in Worker, Others(w),
         UNCHANGED <<clock, word, vt, refills, passed>>,
         InFlight'[w] = InFlight[w], Reserved'[w] = Reserved[w],
         \A v \in Worker \ {w} : old'[v] = old[v],
         Ready(w)',
         \A v \in Worker : local'[v].tag \in 0..(RoundMod - 1)
  PROVE  SInv'
<1>1. Shape /\ Shape'
  BY DEF IInv
<1>2. Flight' = Flight /\ Owed' = Owed
  BY <1>1, SumsAt
<1>3. \A v \in Worker : Ready(v)'
  BY OthersReady
<1>4. Counts'
  BY DEF SInv, Counts
<1>5. SvlanTime'
  BY <1>2 DEF SInv, SvlanTime, Flight
<1>6. Credit'
  BY <1>2 DEF SInv, Credit, Owed
<1>7. RoundsKept'
  BY DEF SInv, RoundsKept
<1> QED BY <1>3, <1>4, <1>5, <1>6, <1>7 DEF SInv

\* What InFlight and Reserved are where a worker is.
Charged == {"load", "swap", "port", "refund", "unwind"}

LEMMA AtWorker ==
  ASSUME NEW w \in Worker
  PROVE  /\ InFlight[w] = IF th[w].pc \in Charged THEN th[w].len * SvlanCost ELSE 0
         /\ Reserved[w] = IF th[w].pc \in {"port", "refund"} THEN th[w].len ELSE 0
         /\ InFlight'[w] = IF th'[w].pc \in Charged THEN th'[w].len * SvlanCost ELSE 0
         /\ Reserved'[w] = IF th'[w].pc \in {"port", "refund"} THEN th'[w].len ELSE 0
BY DEF InFlight, Reserved, Charged

LEMMA TagsStay ==
  ASSUME SInv, UNCHANGED local
  PROVE  \A v \in Worker : local'[v].tag \in 0..(RoundMod - 1)
BY DEF SInv, Counts

LEMMA RoundTag ==
  ASSUME NEW t \in Nat
  PROVE  Round(t) \in 0..(RoundMod - 1)
<1>1. t \div Period \in Nat
  BY DrrAssumption
<1> QED BY <1>1, DrrAssumption DEF Round

\* Time passes: no worker grows later than MaxLag, and rounds only begin.
LEMMA TickSInv ==
  ASSUME IInv, IInv', SInv, Tick
  PROVE  SInv'
<1>1. PICK j \in Jumps :
        /\ \A w \in Worker : th[w].pc # "idle" => clock + j - th[w].now <= MaxLag
        /\ clock' = clock + j
        /\ UNCHANGED <<th, local, word, old, vt, refills, passed>>
  BY Zenon DEF Tick
<1>2. j \in Nat /\ clock \in Nat /\ clock' \in Nat /\ clock' >= clock
  BY <1>1, ShareAssumption DEF IInv, Shape
<1>3. Flight' = Flight /\ Owed' = Owed
  BY <1>1 DEF Flight, Owed, InFlight, Reserved
<1>4. Counts' /\ Credit'
  BY <1>1, <1>3 DEF SInv, Counts, Credit, Owed
<1>5. SvlanTime'
  <2>1. MaxLen * SvlanCost \in Nat
    BY ShareAssumption
  <2> QED BY <1>1, <1>2, <1>3, <2>1 DEF SInv, SvlanTime, Flight, IInv, Shape
<1>6. RoundsKept'
  <2>1. clock \div Period <= clock' \div Period /\ clock \div Period \in Nat /\ clock' \div Period \in Nat
    BY <1>2, DivGrows, DrrAssumption
  <2>2. PICK r \in Nat : word.tag = r % RoundMod /\ refills <= r /\ r <= clock \div Period
    BY DEF SInv, RoundsKept
  <2>3. r <= clock' \div Period
    BY <2>1, <2>2
  <2> QED BY <1>1, <2>2, <2>3 DEF RoundsKept
<1>7. \A w \in Worker : Ready(w)'
  <2> TAKE w \in Worker
  <2>1. th'[w] = th[w] /\ old'[w] = old[w]
    BY <1>1
  <2>2. th[w].pc # "idle" => clock' - th[w].now <= MaxLag
    <3>1. th[w].now \in Nat
      BY DEF IInv, Shape
    <3>2. th[w].pc # "idle" => (clock + j) - th[w].now <= MaxLag
      BY <1>1, <1>2, <3>1
    <3> QED BY <1>1, <1>2, <3>1, <3>2
  <2>3. Ready(w)
    BY DEF SInv
  <2> QED BY <2>1, <2>2, <2>3 DEF Ready
<1> QED BY <1>4, <1>5, <1>6, <1>7 DEF SInv

\* Entering and leaving a scheduler, and its own deficit.
LEMMA WalkSInv ==
  ASSUME IInv, IInv', SInv, NEW w \in Worker,
         \/ Dispatch(w) \/ EndDispatch(w) \/ Charge(w) \/ \E l \in Lens : Admit(w, l)
  PROVE  SInv'
<1>1. th \in Places /\ clock \in Nat /\ th[w].now \in Nat /\ MaxLag \in Nat
  BY ShareAssumption DEF IInv, Shape, Places
<1>2. th[w].pc # "idle" => clock - th[w].now <= MaxLag
  BY DEF SInv, Ready
<1>3. /\ Others(w)
      /\ th[w].pc \in {"idle", "walk", "charge"} /\ th'[w].pc \in {"idle", "walk", "gate"}
      /\ th'[w].pc # "idle" => clock - th'[w].now <= MaxLag
  <2>1. CASE Dispatch(w)
    <3>1. th' = [th EXCEPT ![w] = [pc |-> "walk", now |-> clock, len |-> 0]] /\ th[w].pc = "idle"
      BY <2>1, Zenon DEF Dispatch
    <3>2. th'[w] = [pc |-> "walk", now |-> clock, len |-> 0] /\ Others(w)
      BY <1>1, <3>1 DEF Places, Others
    <3> QED BY <1>1, <3>1, <3>2
  <2>2. CASE EndDispatch(w)
    <3>1. Leave(w) /\ th[w].pc = "walk"
      BY <2>2, Zenon DEF EndDispatch
    <3>2. Others(w) /\ th'[w] = Idle
      BY <1>1, <3>1, Leaves DEF Others
    <3> QED BY <3>1, <3>2 DEF Idle
  <2>3. CASE Charge(w)
    <3>1. th' = [th EXCEPT ![w] = [pc |-> "walk", now |-> th[w].now, len |-> 0]] /\ th[w].pc = "charge"
      BY <2>3 DEF Charge
    <3>2. th'[w] = [pc |-> "walk", now |-> th[w].now, len |-> 0] /\ Others(w)
      BY <1>1, <3>1 DEF Places, Others
    <3> QED BY <1>2, <3>1, <3>2
  <2>4. ASSUME NEW l \in Lens, Admit(w, l)
        PROVE  /\ Others(w)
               /\ th[w].pc = "walk" /\ th'[w].pc \in {"idle", "gate"}
               /\ th'[w].pc # "idle" => clock - th'[w].now <= MaxLag
    <3>1. /\ th[w].pc = "walk"
          /\ th' = [th EXCEPT ![w].pc = "gate", ![w].len = l] \/ Leave(w)
      BY <2>4 DEF Admit
    <3>2. CASE th' = [th EXCEPT ![w].pc = "gate", ![w].len = l]
      <4>1. th'[w].pc = "gate" /\ th'[w].now = th[w].now /\ Others(w)
        BY <1>1, <3>2 DEF Places, Others
      <4> QED BY <1>2, <3>1, <4>1
    <3>3. CASE Leave(w)
      <4>1. Others(w) /\ th'[w] = Idle
        BY <1>1, <3>3, Leaves DEF Others
      <4> QED BY <3>1, <4>1 DEF Idle
    <3> QED BY <3>1, <3>2, <3>3
  <2> QED BY <2>1, <2>2, <2>3, <2>4
<1>4. UNCHANGED <<clock, word, vt, refills, passed, old>>
      \/ (UNCHANGED <<clock, word, vt, refills, passed>> /\ UNCHANGED old)
  BY DEF Dispatch, EndDispatch, Charge, Admit
<1>5. \A v \in Worker : local'[v].tag \in 0..(RoundMod - 1)
  <2>1. CASE UNCHANGED local
    BY <2>1, TagsStay
  <2>2. CASE Charge(w)
    <3>1. local' = [local EXCEPT ![w].deficit = @ - th[w].len]
      BY <2>2, Zenon DEF Charge
    <3>2. \A v \in Worker : local[v] \in [tag : Int, deficit : Int] /\ local[v].tag \in 0..(RoundMod - 1)
      BY DEF IInv, Shape, SInv, Counts
    <3>3. \A v \in Worker : local'[v].tag = local[v].tag
      BY <3>1, <3>2 DEF IInv, Shape
    <3> QED BY <3>2, <3>3
  <2>3. ASSUME NEW l \in Lens, Admit(w, l)
        PROVE  \A v \in Worker : local'[v].tag \in 0..(RoundMod - 1)
    <3> DEFINE due == RefillDue(Round(th[w].now), local[w].tag)
               d == IF due THEN Refilled(local[w].deficit, SchedQuantum) ELSE local[w].deficit
               t == IF due THEN Round(th[w].now) ELSE local[w].tag
    <3>1. local' = [local EXCEPT ![w] = [tag |-> t, deficit |-> d]]
      BY <2>3, Zenon DEF Admit
    <3>2. PICK c : c = [tag |-> t, deficit |-> d]
      OBVIOUS
    <3>3. c.tag = Round(th[w].now) \/ c.tag = local[w].tag
      BY <3>2
    <3>4. local' = [local EXCEPT ![w] = c] /\ DOMAIN local = Worker
      BY <3>1, <3>2 DEF IInv, Shape
    <3> HIDE DEF t, d, due
    <3>5. local'[w] = c /\ \A v \in Worker \ {w} : local'[v] = local[v]
      BY <3>4
    <3>6. \A v \in Worker : local[v].tag \in 0..(RoundMod - 1)
      BY DEF SInv, Counts
    <3>7. c.tag \in 0..(RoundMod - 1)
      BY <1>1, <3>3, <3>6, RoundTag
    <3> QED BY <3>5, <3>6, <3>7
  <2>4. Dispatch(w) \/ EndDispatch(w) => UNCHANGED local
    BY DEF Dispatch, EndDispatch
  <2> QED BY <2>1, <2>2, <2>3, <2>4
<1>6. InFlight'[w] = InFlight[w] /\ Reserved'[w] = Reserved[w]
  BY <1>3, AtWorker DEF Charged
<1>7. Ready(w)'
  BY <1>3, <1>4 DEF Ready
<1> QED BY <1>3, <1>4, <1>5, <1>6, <1>7, QuietStep

\* Steps of a worker that is charged for more or less at the S-VLAN's gate.
LEMMA ChargeStep ==
  ASSUME IInv, IInv', SInv, NEW w \in Worker, Others(w), NEW cost \in Nat,
         UNCHANGED <<clock, local, word, old, refills, passed>>,
         InFlight'[w] \in {0, cost}, InFlight[w] = cost - InFlight'[w],
         Reserved'[w] = 0, Reserved[w] = 0, Ready(w)',
         vt'.svlan \in Int,
         passed.svlan + Flight + (InFlight'[w] - InFlight[w]) <= vt'.svlan,
         vt'.svlan <= clock + MaxLen * SvlanCost
  PROVE  SInv'
<1>1. Shape /\ Shape'
  BY DEF IInv
<1>2. /\ Flight \in Nat /\ Flight' \in Nat /\ Owed \in Nat /\ Owed' \in Nat
      /\ Flight' - Flight = InFlight'[w] - InFlight[w]
      /\ Owed' - Owed = Reserved'[w] - Reserved[w]
      /\ InFlight[w] \in Nat /\ InFlight'[w] \in Nat
  BY <1>1, SumsAt
<1>3. Counts'
  BY DEF SInv, Counts
<1>4. SvlanTime'
  <2>1. passed.svlan \in Nat /\ passed'.svlan = passed.svlan /\ clock' = clock
    BY DEF SInv, Counts
  <2>2. passed.svlan + Flight' <= vt'.svlan
    BY <1>2, <2>1
  <2> QED BY <2>1, <2>2 DEF SvlanTime, Flight
<1>5. Credit'
  <2>1. Reserved'[w] - Reserved[w] = 0
    OBVIOUS
  <2>2. Owed' = Owed
    BY ONLY <1>2, <2>1
  <2> QED BY <2>2 DEF SInv, Credit, Owed
<1>6. RoundsKept'
  BY DEF SInv, RoundsKept
<1>7. \A v \in Worker : Ready(v)'
  BY OthersReady
<1> QED BY <1>3, <1>4, <1>5, <1>6, <1>7 DEF SInv

\* What a worker decides from the word it loaded.
LEMMA LoadSInv ==
  ASSUME IInv, IInv', SInv, NEW w \in Worker, Load(w) \/ SwapFails(w)
  PROVE  SInv'
<1>1. th \in Places /\ {"load", "swap", "unwind"} \subseteq Steps
  BY DEF IInv, Shape, Places, Steps
<1>2. th[w].pc # "idle" => clock - th[w].now <= MaxLag
  BY DEF SInv, Ready
<1>3. UNCHANGED <<clock, local, word, vt, refills, passed>> /\ UNCHANGED local
  BY DEF Load, SwapFails
<1>4. PICK p \in {"load", "swap", "unwind"} : Goto(w, p) /\ th[w].pc \in {"load", "swap"}
  <2>1. CASE Load(w)
    BY <2>1 DEF Load, Goto
  <2>2. CASE SwapFails(w)
    BY <2>2 DEF SwapFails, Goto
  <2> QED BY <2>1, <2>2
<1>5. /\ Others(w) /\ th'[w].pc = p /\ th'[w].now = th[w].now /\ th'[w].len = th[w].len
  <2>1. p \in Steps
    BY <1>1
  <2>2. /\ \A v \in Worker \ {w} : th'[v] = th[v]
        /\ th'[w] = [pc |-> p, now |-> th[w].now, len |-> th[w].len]
    BY <1>1, <1>4, <2>1, MovesOn
  <2> QED BY <2>2 DEF Others
<1>6. \A v \in Worker \ {w} : old'[v] = old[v]
  BY DEF Load, SwapFails, IInv, Shape
<1>7. InFlight'[w] = InFlight[w] /\ Reserved'[w] = Reserved[w]
  BY <1>4, <1>5, AtWorker DEF Charged
<1>8. Ready(w)'
  <2>1. CASE SwapFails(w)
    <3>1. p # "swap"
      BY <2>1, <1>1, <1>4, <1>5 DEF SwapFails, Places
    <3> QED BY <1>2, <1>3, <1>4, <1>5, <3>1 DEF Ready
  <2>2. CASE Load(w)
    <3> DEFINE due == RefillDue(Round(th[w].now), word.tag)
               d == IF due THEN Refilled(word.deficit, SvlanQuantum) ELSE word.deficit
               admitted == d > 0 \/ EscapeOpen(d, vt.port, th[w].now)
    <3>1. old' = [old EXCEPT ![w] = [tag |-> word.tag, deficit |-> word.deficit,
                                    refilled |-> due, topped |-> d, admitted |-> admitted]]
      BY <2>2, Zenon DEF Load
    <3>2. due => d <= CapOf(SvlanQuantum)
      <4>1. word.deficit \in Int /\ SvlanQuantum \in Nat /\ CapOf(SvlanQuantum) \in Nat
        BY QuantaNat, CapNat DEF IInv, Shape
      <4> QED BY <4>1 DEF Refilled, Smaller
    <3>3. ~due => d = word.deficit
      OBVIOUS
    <3>4. due \in BOOLEAN
      BY DEF RefillDue
    <3>5. old'[w] = [tag |-> word.tag, deficit |-> word.deficit,
                     refilled |-> due, topped |-> d, admitted |-> admitted]
      BY <3>1 DEF IInv, Shape
    <3>6. due => RefillDue(Round(th[w].now), word.tag)
      OBVIOUS
    <3> HIDE DEF due, d, admitted
    <3> QED BY <1>2, <1>3, <1>4, <1>5, <3>2, <3>3, <3>4, <3>5, <3>6 DEF Ready
  <2> QED BY <2>1, <2>2
<1>9. \A v \in Worker : local'[v].tag \in 0..(RoundMod - 1)
  BY <1>3, TagsStay
<1> QED BY <1>3, <1>5, <1>6, <1>7, <1>8, <1>9, QuietStep

\* The cost that the S-VLAN's gate takes is in flight until it is given back.
LEMMA GateSInv ==
  ASSUME IInv, IInv', SInv, NEW w \in Worker, SvlanGate(w) \/ Unwind(w)
  PROVE  SInv'
<1> DEFINE cost == th[w].len * SvlanCost
<1>1. /\ th \in Places /\ "load" \in Steps /\ th[w].now \in Nat /\ th[w].now <= clock
      /\ vt.svlan \in Int /\ vt.port \in Int /\ clock \in Nat /\ passed.svlan \in Nat
      /\ DOMAIN vt = {"svlan", "port"}
  BY DEF IInv, Shape, Places, Steps, Sampled, SInv, Counts
<1>2. cost \in Nat /\ cost <= MaxLen * SvlanCost /\ MaxLen * SvlanCost \in Nat
  <2>1. th[w].len \in Lens \cup {0}
    BY DEF IInv, Shape
  <2> QED BY <2>1, CostBound, ShareAssumption
<1>3. UNCHANGED <<clock, local, word, old, refills, passed>> /\ UNCHANGED local
  BY DEF SvlanGate, Unwind
<1>4. th[w].pc # "idle" => clock - th[w].now <= MaxLag
  BY DEF SInv, Ready
<1>5. passed.svlan + Flight <= vt.svlan /\ vt.svlan <= clock + MaxLen * SvlanCost
  BY DEF SInv, SvlanTime, Flight
<1>6. CASE SvlanGate(w) /\ GateOpen(vt.svlan, th[w].now)
  <2>1. /\ vt' = [vt EXCEPT !.svlan = Taken(vt.svlan, cost, th[w].now)]
        /\ th' = [th EXCEPT ![w].pc = "load"] /\ th[w].pc = "gate"
    BY <1>6 DEF SvlanGate
  <2> HIDE DEF cost
  <2>2. /\ \A v \in Worker \ {w} : th'[v] = th[v]
        /\ th'[w] = [pc |-> "load", now |-> th[w].now, len |-> th[w].len]
    BY <1>1, <2>1, MovesOn DEF Goto
  <2>3. /\ Taken(vt.svlan, cost, th[w].now) >= vt.svlan + cost
        /\ Taken(vt.svlan, cost, th[w].now) <= th[w].now + cost
        /\ Taken(vt.svlan, cost, th[w].now) \in Int
    BY <1>1, <1>2, <1>6, TakenBound DEF GateOpen
  <2>4. vt'.svlan = Taken(vt.svlan, cost, th[w].now)
    BY <1>1, <2>1
  <2>5. InFlight'[w] = cost /\ InFlight[w] = 0 /\ Reserved'[w] = 0 /\ Reserved[w] = 0
    BY <2>1, <2>2, AtWorker DEF Charged, cost
  <2>6. Ready(w)'
    BY <1>3, <1>4, <2>1, <2>2 DEF Ready
  <2>7. passed.svlan + Flight + (cost - 0) <= vt'.svlan /\ vt'.svlan <= clock + MaxLen * SvlanCost /\ vt'.svlan \in Int
    <3>1. Flight \in Nat
      BY SumsTyped DEF IInv, SumsOk
    <3> DEFINE x == MaxLen * SvlanCost
               y == Taken(vt.svlan, cost, th[w].now)
    <3>2. x \in Nat /\ cost <= x /\ y >= vt.svlan + cost /\ y <= th[w].now + cost /\ y \in Int
          /\ vt'.svlan = y /\ vt.svlan <= clock + x
      BY <1>2, <1>5, <2>3, <2>4
    <3> HIDE DEF x, y
    <3>3. passed.svlan + Flight + cost <= y /\ y <= clock + x
      BY <1>1, <1>2, <1>5, <3>1, <3>2
    <3>4. passed.svlan + Flight + (cost - 0) <= vt'.svlan
      BY ONLY <1>1, <1>2, <3>1, <3>2, <3>3
    <3> QED BY <3>2, <3>3, <3>4 DEF x
  <2> QED BY <1>3, <2>2, <2>5, <2>6, <2>7, <1>2, ChargeStep DEF Others
<1>7. CASE SvlanGate(w) /\ ~GateOpen(vt.svlan, th[w].now)
  <2>1. th[w].pc = "gate" /\ Leave(w) /\ UNCHANGED vt
    BY <1>7 DEF SvlanGate
  <2>2. Others(w) /\ th'[w] = Idle
    BY <1>1, <2>1, Leaves DEF Others
  <2>3. InFlight'[w] = InFlight[w] /\ Reserved'[w] = Reserved[w]
    BY <2>1, <2>2, AtWorker DEF Charged, Idle
  <2>4. Ready(w)'
    BY <2>2 DEF Ready, Idle
  <2>5. \A v \in Worker : local'[v].tag \in 0..(RoundMod - 1)
    BY <1>3, TagsStay
  <2> QED BY <1>3, <2>1, <2>2, <2>3, <2>4, <2>5, QuietStep
<1>8. CASE Unwind(w)
  <2>1. th[w].pc = "unwind" /\ Leave(w) /\ vt' = [vt EXCEPT !.svlan = vt.svlan - cost]
    BY <1>8 DEF Unwind
  <2> HIDE DEF cost
  <2>2. Others(w) /\ th'[w] = Idle
    BY <1>1, <2>1, Leaves DEF Others
  <2>3. vt'.svlan = vt.svlan - cost
    BY <1>1, <2>1
  <2>4. InFlight'[w] = 0 /\ InFlight[w] = cost /\ Reserved'[w] = 0 /\ Reserved[w] = 0
    BY <2>1, <2>2, AtWorker DEF Charged, Idle, cost
  <2>5. Ready(w)'
    BY <2>2 DEF Ready, Idle
  <2>6. passed.svlan + Flight + (0 - cost) <= vt'.svlan /\ vt'.svlan <= clock + MaxLen * SvlanCost /\ vt'.svlan \in Int
    <3>1. Flight \in Nat
      BY SumsTyped DEF IInv, SumsOk
    <3> QED BY <1>1, <1>2, <1>5, <2>3, <3>1
  <2> QED BY <1>3, <2>2, <2>4, <2>5, <2>6, <1>2, ChargeStep
<1> QED BY <1>6, <1>7, <1>8

\* The word is swapped for what was worked out from it: by one refill at most
\* for a round, and what is taken from it may come back.
LEMMA SwapSInv ==
  ASSUME IInv, IInv', SInv, NEW w \in Worker, Swap(w)
  PROVE  SInv'
<1> DEFINE o == old[w]
           cap == CapOf(SvlanQuantum)
           most == cap + Cardinality(Worker) * MaxLen
<1>1. /\ th \in Places /\ {"port", "unwind"} \subseteq Steps
      /\ th[w].now \in Nat /\ th[w].now <= clock /\ clock \in Nat /\ refills \in Nat
      /\ o \in [tag : Int, deficit : Int, refilled : BOOLEAN, topped : Int, admitted : BOOLEAN]
      /\ word \in [tag : Int, deficit : Int]
  BY DEF IInv, Shape, Places, Steps, Sampled, SInv, Counts
<1>2. /\ th[w].pc = "swap" /\ word.tag = o.tag /\ word.deficit = o.deficit
      /\ word' = [tag |-> IF o.refilled THEN Round(th[w].now) ELSE o.tag,
                  deficit |-> IF o.admitted THEN o.topped - th[w].len ELSE o.topped]
      /\ refills' = (IF o.refilled THEN refills + 1 ELSE refills)
      /\ th' = [th EXCEPT ![w].pc = IF o.admitted THEN "port" ELSE "unwind"]
      /\ old' = [old EXCEPT ![w] = Nothing]
      /\ UNCHANGED <<clock, local, vt, passed>> /\ UNCHANGED local
  BY DEF Swap, Unchanged
<1>3. \/ o.refilled /\ o.topped <= cap /\ RefillDue(Round(th[w].now), o.tag)
      \/ ~o.refilled /\ o.topped = o.deficit
  BY <1>2 DEF SInv, Ready
<1>4. clock - th[w].now <= MaxLag
  BY <1>2 DEF SInv, Ready
<1> DEFINE p == IF o.admitted THEN "port" ELSE "unwind"
<1>5. Others(w) /\ th'[w] = [pc |-> p, now |-> th[w].now, len |-> th[w].len]
  <2>1. p \in Steps /\ Goto(w, p)
    BY <1>1, <1>2 DEF Goto
  <2> HIDE DEF p
  <2>2. /\ \A v \in Worker \ {w} : th'[v] = th[v]
        /\ th'[w] = [pc |-> p, now |-> th[w].now, len |-> th[w].len]
    BY <1>1, <2>1, MovesOn
  <2> QED BY <2>2 DEF Others
<1>6. th[w].len \in 0..MaxLen /\ MaxLen \in Nat
  <2>1. th[w].len \in Lens \cup {0}
    BY DEF IInv, Shape
  <2> QED BY <2>1, CostBound, ShareAssumption
<1>7. InFlight'[w] = InFlight[w]
  BY <1>2, <1>5, AtWorker DEF Charged
<1>8. Reserved[w] = 0 /\ Reserved'[w] = IF o.admitted THEN th[w].len ELSE 0
  BY <1>2, <1>5, AtWorker
<1>9. /\ Flight' = Flight /\ Flight \in Nat
      /\ Owed \in Nat /\ Owed' \in Nat /\ Owed' = Owed + Reserved'[w]
      /\ cap \in Nat /\ most \in Nat /\ cap + Owed <= most
  <2>1. SumsOk /\ Shape /\ Shape'
    BY SumsTyped DEF IInv
  <2>2. /\ Flight' \in Nat /\ Flight' - Flight = InFlight'[w] - InFlight[w]
        /\ Owed' \in Nat /\ Owed' - Owed = Reserved'[w] - Reserved[w]
        /\ InFlight[w] \in Nat /\ Reserved'[w] \in Nat
    BY <1>5, <2>1, SumsAt
  <2>3. Flight \in Nat /\ Owed \in Nat /\ cap \in Nat /\ most \in Nat /\ cap + Owed <= most
    BY <2>1, CapNat DEF SumsOk
  <2> HIDE DEF cap, most
  <2>4. InFlight'[w] - InFlight[w] = 0 /\ Reserved'[w] - Reserved[w] = Reserved'[w]
    BY <1>7, <1>8, <2>2
  <2> QED BY ONLY <2>2, <2>3, <2>4
<1>10. Counts'
  <2>1. refills' \in Nat
    BY <1>1, <1>2
  <2> QED BY <1>2, <2>1 DEF SInv, Counts
<1>11. SvlanTime'
  BY <1>2, <1>9 DEF SInv, SvlanTime, Flight
<1>12. Credit'
  <2>1. word.deficit + Owed <= most
    BY DEF SInv, Credit, Owed
  <2>2. word'.deficit = o.topped - Reserved'[w]
    BY <1>1, <1>2, <1>8
  <2>3. o.topped + Owed <= most
    <3> HIDE DEF most, cap
    <3>1. o.topped \in Int /\ o.deficit \in Int
      BY <1>1
    <3>2. CASE o.topped <= cap
      BY <1>9, <3>1, <3>2
    <3>3. CASE o.topped = o.deficit
      BY <1>2, <2>1, <3>3
    <3> HIDE DEF o
    <3> QED BY <1>3, <3>2, <3>3
  <2>4. word'.deficit + Owed' = o.topped + Owed
    <3>1. o.topped \in Int /\ Reserved'[w] \in Int
      BY <1>1, <1>6, <1>8
    <3> HIDE DEF o
    <3> QED BY <1>9, <2>2, <3>1
  <2>5. word'.deficit + Owed' <= most
    BY <2>3, <2>4
  <2> QED BY <2>5 DEF Credit, Owed
<1>13. RoundsKept'
  <2>1. PICK c \in Nat : word.tag = c % RoundMod /\ refills <= c /\ c <= clock \div Period
    BY DEF SInv, RoundsKept
  <2>2. CASE o.refilled
    <3> DEFINE r == th[w].now \div Period
               b == clock \div Period
    <3>1. b - r <= StaleLead /\ r \in Nat /\ b \in Nat /\ r <= b
      BY <1>1, <1>4, LagInRounds
    <3>2. Round(th[w].now) = r % RoundMod
      BY DEF Round
    <3>3. RefillDue(r % RoundMod, c % RoundMod)
      BY <1>2, <1>3, <2>1, <2>2, <3>2
    <3> HIDE DEF r, b
    <3>4. c - r <= StaleLead
      <4>1. c <= b
        BY <2>1 DEF b
      <4> QED BY <2>1, <3>1, <4>1, DrrAssumption
    <3>5. c < r
      BY <3>1, <3>3, <3>4, DueAdvances
    <3>6. word'.tag = r % RoundMod /\ refills' = refills + 1
      BY <1>2, <2>2, <3>2
    <3>7. refills' <= r /\ r <= clock' \div Period
      BY <1>1, <1>2, <2>1, <3>1, <3>5, <3>6 DEF b
    <3> QED BY <3>1, <3>6, <3>7 DEF RoundsKept
  <2>3. CASE ~o.refilled
    <3>1. word'.tag = word.tag /\ refills' = refills /\ clock' = clock
      BY <1>1, <1>2, <2>3
    <3> QED BY <2>1, <3>1 DEF RoundsKept
  <2> QED BY <2>2, <2>3
<1>14. \A v \in Worker : Ready(v)'
  <2>1. \A v \in Worker \ {w} : old'[v] = old[v]
    BY <1>2 DEF IInv, Shape
  <2>2. \A v \in Worker \ {w} : Ready(v)'
    BY <1>2, <1>5, <2>1, OthersReady
  <2>3. Ready(w)'
    BY <1>2, <1>4, <1>5 DEF Ready
  <2> QED BY <2>2, <2>3
<1> QED BY <1>10, <1>11, <1>12, <1>13, <1>14 DEF SInv

\* A packet that clears the port's gate is no longer in flight but has passed.
LEMMA PortSInv ==
  ASSUME IInv, IInv', SInv, NEW w \in Worker, PortGate(w)
  PROVE  SInv'
<1> DEFINE cost == th[w].len * SvlanCost
           bytes == th[w].len * PortCost
<1>1. /\ th \in Places /\ {"charge", "refund"} \subseteq Steps
      /\ passed.svlan \in Nat /\ passed.port \in Nat
      /\ word.deficit \in Int /\ vt.svlan \in Int
      /\ DOMAIN vt = {"svlan", "port"}
  BY DEF IInv, Shape, Places, Steps, SInv, Counts
<1>2. cost \in Nat /\ bytes \in Nat /\ th[w].len \in 0..MaxLen /\ MaxLen \in Nat
  <2>1. th[w].len \in Lens \cup {0}
    BY DEF IInv, Shape
  <2> QED BY <2>1, CostBound, ShareAssumption
<1>3. /\ th[w].pc = "port"
      /\ UNCHANGED <<clock, local, word, old, refills>> /\ UNCHANGED local
      /\ vt'.svlan = vt.svlan
      /\ \/ /\ Goto(w, "charge")
            /\ passed' = [svlan |-> passed.svlan + cost, port |-> passed.port + bytes]
         \/ Goto(w, "refund") /\ passed' = passed
  BY <1>1 DEF PortGate, Goto
<1>4. PICK p \in {"charge", "refund"} :
        /\ Goto(w, p)
        /\ p = "charge" => passed' = [svlan |-> passed.svlan + cost, port |-> passed.port + bytes]
        /\ p = "refund" => passed' = passed
  <2> HIDE DEF cost, bytes
  <2> QED BY <1>3
<1>5. Others(w) /\ th'[w] = [pc |-> p, now |-> th[w].now, len |-> th[w].len]
  <2>1. p \in Steps
    BY <1>1
  <2>2. /\ \A v \in Worker \ {w} : th'[v] = th[v]
        /\ th'[w] = [pc |-> p, now |-> th[w].now, len |-> th[w].len]
    BY <1>1, <1>4, <2>1, MovesOn
  <2> QED BY <2>2 DEF Others
<1>6. /\ InFlight[w] = cost /\ Reserved[w] = th[w].len
      /\ InFlight'[w] = IF p = "charge" THEN 0 ELSE cost
      /\ Reserved'[w] = IF p = "charge" THEN 0 ELSE th[w].len
  BY <1>3, <1>5, AtWorker DEF Charged
<1>7. /\ Flight \in Nat /\ Flight' \in Nat /\ Owed \in Nat /\ Owed' \in Nat
      /\ Flight' - Flight = InFlight'[w] - InFlight[w]
      /\ Owed' - Owed = Reserved'[w] - Reserved[w]
      /\ InFlight[w] \in Nat /\ InFlight'[w] \in Nat
      /\ Reserved[w] \in Nat /\ Reserved'[w] \in Nat
  <2>1. Shape /\ Shape'
    BY DEF IInv
  <2> QED BY <1>5, <2>1, SumsAt
<1> HIDE DEF cost, bytes
<1>8. passed'.svlan \in Nat /\ passed'.port \in Nat /\ passed'.svlan + Flight' = passed.svlan + Flight
  <2>1. CASE p = "charge"
    <3>1. passed'.svlan = passed.svlan + cost /\ passed'.port = passed.port + bytes
      BY <1>4, <2>1
    <3>2. InFlight'[w] - InFlight[w] = -cost
      BY <1>2, <1>6, <2>1
    <3>3. PICK a \in Nat, b \in Nat : a = Flight /\ b = Flight'
      BY <1>7
    <3>4. b - a = -cost
      BY <1>7, <3>2, <3>3
    <3>5. PICK x \in Nat : x = passed.svlan
      BY <1>1
    <3>6. (x + cost) + b = x + a
      BY <1>2, <3>4
    <3>7. x + cost \in Nat /\ passed.port + bytes \in Nat
      BY <1>1, <1>2
    <3> QED BY <3>1, <3>3, <3>5, <3>6, <3>7
  <2>2. CASE p = "refund"
    <3>1. passed' = passed /\ InFlight'[w] - InFlight[w] = 0
      BY <1>2, <1>4, <1>6, <2>2
    <3>2. Flight' = Flight
      BY ONLY <1>7, <3>1
    <3> QED BY <1>1, <3>1, <3>2
  <2> QED BY <2>1, <2>2
<1>9. Owed' <= Owed
  <2>1. Reserved'[w] - Reserved[w] <= 0
    BY <1>2, <1>6
  <2> QED BY ONLY <1>7, <2>1
<1>10. Counts'
  BY <1>3, <1>8 DEF SInv, Counts
<1>11. SvlanTime'
  BY <1>3, <1>8 DEF SInv, SvlanTime, Flight
<1>12. Credit'
  <2> DEFINE most == CapOf(SvlanQuantum) + Cardinality(Worker) * MaxLen
  <2>1. word.deficit + Owed <= most
    BY DEF SInv, Credit, Owed
  <2>2. most \in Nat
    BY SumsTyped, CapNat DEF SumsOk, IInv
  <2> HIDE DEF most
  <2>3. word'.deficit + Owed' <= most
    BY <1>1, <1>3, <1>7, <1>9, <2>1, <2>2
  <2> QED BY <2>3 DEF Credit, Owed, most
<1>13. RoundsKept'
  BY <1>3 DEF SInv, RoundsKept
<1>14. \A v \in Worker : Ready(v)'
  <2>1. \A v \in Worker \ {w} : Ready(v)'
    BY <1>3, <1>5, OthersReady
  <2>2. clock - th[w].now <= MaxLag
    BY <1>3 DEF SInv, Ready
  <2>3. Ready(w)'
    BY <1>3, <1>5, <2>2 DEF Ready
  <2> QED BY <2>1, <2>3
<1> QED BY <1>10, <1>11, <1>12, <1>13, <1>14 DEF SInv

\* A refund gives the word what was owed to it.
LEMMA RefundSInv ==
  ASSUME IInv, IInv', SInv, NEW w \in Worker, Refund(w)
  PROVE  SInv'
<1>1. /\ th \in Places /\ "unwind" \in Steps
      /\ word \in [tag : Int, deficit : Int]
  BY DEF IInv, Shape, Places, Steps
<1>2. th[w].len \in 0..MaxLen /\ MaxLen \in Nat
  <2>1. th[w].len \in Lens \cup {0}
    BY DEF IInv, Shape
  <2> QED BY <2>1, CostBound, ShareAssumption
<1>3. /\ th[w].pc = "refund" /\ Goto(w, "unwind")
      /\ UNCHANGED <<clock, local, old, vt, refills, passed>> /\ UNCHANGED local
      /\ word'.deficit = word.deficit + th[w].len /\ word'.tag = word.tag
  BY <1>1 DEF Refund, Goto
<1>4. Others(w) /\ th'[w] = [pc |-> "unwind", now |-> th[w].now, len |-> th[w].len]
  <2>1. /\ \A v \in Worker \ {w} : th'[v] = th[v]
        /\ th'[w] = [pc |-> "unwind", now |-> th[w].now, len |-> th[w].len]
    BY <1>1, <1>3, MovesOn
  <2> QED BY <2>1 DEF Others
<1>5. InFlight'[w] = InFlight[w] /\ Reserved[w] = th[w].len /\ Reserved'[w] = 0
  BY <1>3, <1>4, AtWorker DEF Charged
<1>6. /\ Flight \in Nat /\ Flight' \in Nat /\ Owed \in Nat /\ Owed' \in Nat
      /\ Flight' - Flight = InFlight'[w] - InFlight[w]
      /\ Owed' - Owed = Reserved'[w] - Reserved[w]
      /\ InFlight[w] \in Nat /\ InFlight'[w] \in Nat
  <2>1. Shape /\ Shape'
    BY DEF IInv
  <2> QED BY <1>4, <2>1, SumsAt
<1>7. Flight' = Flight /\ word'.deficit + Owed' = word.deficit + Owed
  <2>1. InFlight'[w] - InFlight[w] = 0 /\ Reserved'[w] - Reserved[w] = -th[w].len
    BY <1>2, <1>5, <1>6
  <2>2. PICK n \in Nat : n = th[w].len
    BY <1>2
  <2>3. PICK d \in Int : d = word.deficit
    BY <1>1
  <2>4. Owed' - Owed = -n /\ word'.deficit = d + n
    BY <1>3, <1>6, <2>1, <2>2, <2>3
  <2>5. Flight' = Flight
    BY ONLY <1>6, <2>1
  <2>6. (d + n) + Owed' = d + Owed
    <3>1. PICK a \in Nat, b \in Nat : a = Owed /\ b = Owed'
      BY <1>6
    <3>2. b - a = -n
      BY <2>4, <3>1
    <3>3. (d + n) + b = d + a
      BY <3>2
    <3> QED BY <3>1, <3>3
  <2> QED BY <2>3, <2>4, <2>5, <2>6
<1>8. Counts' /\ RoundsKept'
  BY <1>3 DEF SInv, Counts, RoundsKept
<1>9. SvlanTime'
  BY <1>3, <1>7 DEF SInv, SvlanTime, Flight
<1>10. Credit'
  BY <1>3, <1>7 DEF SInv, Credit, Owed
<1>11. \A v \in Worker : Ready(v)'
  <2>1. \A v \in Worker \ {w} : Ready(v)'
    BY <1>3, <1>4, OthersReady
  <2>2. clock - th[w].now <= MaxLag
    BY <1>3 DEF SInv, Ready
  <2>3. Ready(w)'
    BY <1>3, <1>4, <2>2 DEF Ready
  <2> QED BY <2>1, <2>3
<1> QED BY <1>8, <1>9, <1>10, <1>11 DEF SInv

LEMMA SiblingSInv ==
  ASSUME IInv, SInv, NEW l \in Lens, Sibling(l)
  PROVE  SInv'
<1>1. /\ vt'.svlan = vt.svlan
      /\ UNCHANGED <<clock, th, local, word, old, refills>>
      /\ passed' = [passed EXCEPT !.port = @ + l * PortCost]
  BY DEF Sibling, IInv, Shape
<1>2. l * PortCost \in Nat
  BY CostBound, ShareAssumption
<1>3. passed'.svlan = passed.svlan /\ passed'.port \in Nat
  BY <1>1, <1>2 DEF IInv, Shape, SInv, Counts
<1>4. Flight' = Flight /\ Owed' = Owed
  BY <1>1 DEF Flight, Owed, InFlight, Reserved
<1>5. Counts' /\ RoundsKept'
  BY <1>1, <1>3 DEF SInv, Counts, RoundsKept
<1>6. SvlanTime'
  BY <1>1, <1>3, <1>4 DEF SInv, SvlanTime, Flight
<1>7. Credit'
  BY <1>1, <1>4 DEF SInv, Credit, Owed
<1>8. \A v \in Worker : Ready(v)'
  BY <1>1 DEF SInv, Ready
<1> QED BY <1>5, <1>6, <1>7, <1>8 DEF SInv

\* Every step preserves the second invariant too, given the first.
LEMMA NextSInv == IInv /\ IInv' /\ SInv /\ [Next]_vars => SInv'
<1> SUFFICES ASSUME IInv, IInv', SInv, [Next]_vars PROVE SInv'
  OBVIOUS
<1>1. CASE UNCHANGED vars
  <2>1. UNCHANGED <<clock, th, local, word, old, vt, refills, passed>>
    BY <1>1 DEF vars
  <2>2. Flight' = Flight /\ Owed' = Owed
    BY <2>1 DEF Flight, Owed, InFlight, Reserved
  <2>3. Counts' /\ RoundsKept' /\ \A v \in Worker : Ready(v)'
    BY <2>1 DEF SInv, Counts, RoundsKept, Ready
  <2>4. SvlanTime' /\ Credit'
    BY <2>1, <2>2 DEF SInv, SvlanTime, Credit, Flight, Owed
  <2> QED BY <2>3, <2>4 DEF SInv
<1>2. CASE Tick
  BY <1>2, TickSInv
<1>3. ASSUME NEW w \in Worker, Step(w)
      PROVE  SInv'
  <2>1. CASE Dispatch(w) \/ EndDispatch(w) \/ Charge(w) \/ \E l \in Lens : Admit(w, l)
    BY <2>1, WalkSInv
  <2>2. CASE Load(w) \/ SwapFails(w)
    BY <2>2, LoadSInv
  <2>3. CASE SvlanGate(w) \/ Unwind(w)
    BY <2>3, GateSInv
  <2>4. CASE Swap(w)
    BY <2>4, SwapSInv
  <2>5. CASE PortGate(w)
    BY <2>5, PortSInv
  <2>6. CASE Refund(w)
    BY <2>6, RefundSInv
  <2> QED BY <1>3, <2>1, <2>2, <2>3, <2>4, <2>5, <2>6 DEF Step
<1>4. CASE \E l \in Lens : Sibling(l)
  BY <1>4, SiblingSInv
<1> QED BY <1>1, <1>2, <1>3, <1>4 DEF Next

\* Both invariants give the types and the remaining two properties.
LEMMA SInvImplies == IInv /\ SInv => SvlanRate /\ OneQuantumPerRound
<1> SUFFICES ASSUME IInv, SInv PROVE SvlanRate /\ OneQuantumPerRound
  OBVIOUS
<1>1. SumsOk
  BY SumsTyped DEF IInv
<1>2. PICK r \in Nat : word.tag = r % RoundMod /\ refills <= r /\ r <= clock \div Period
  BY DEF SInv, RoundsKept
<1>3. passed.svlan + Flight <= vt.svlan /\ vt.svlan <= clock + MaxLen * SvlanCost
  BY DEF SInv, SvlanTime, Flight
<1>4. MaxLen * SvlanCost \in Nat /\ clock \in Nat /\ clock \div Period \in Nat
  <2>1. clock \in Nat
    BY DEF IInv, Shape
  <2>2. clock \div Period \in Nat
    BY <2>1, DrrAssumption
  <2> QED BY <2>1, <2>2, ShareAssumption
<1>5. TypeOK
  <2>1. vt.svlan \in Nat
    BY <1>1, <1>3 DEF IInv, Shape, SInv, Counts, SumsOk
  <2>2. vt.port \in Nat
    BY DEF IInv, Shape, PortTime, SInv, Counts
  <2>3. word.tag \in 0..(RoundMod - 1)
    BY <1>2, DrrAssumption
  <2> QED BY <2>1, <2>2, <2>3 DEF TypeOK, IInv, Shape, SInv, Counts
<1>6. passed.svlan + Flight <= clock + MaxLen * SvlanCost
  <2> DEFINE x == MaxLen * SvlanCost
  <2>1. x \in Nat /\ vt.svlan <= clock + x
    BY <1>3, <1>4
  <2> HIDE DEF x
  <2>2. passed.svlan \in Nat /\ vt.svlan \in Int /\ Flight \in Nat
    BY <1>1 DEF IInv, Shape, SInv, Counts, SumsOk
  <2>3. passed.svlan + Flight <= clock + x
    BY <1>3, <1>4, <2>1, <2>2
  <2> QED BY <2>3 DEF x
<1>7. refills <= clock \div Period
  BY <1>2, <1>4 DEF SInv, Counts
<1>8. word.deficit <= CapOf(SvlanQuantum) + Cardinality(Worker) * MaxLen
  <2> DEFINE most == CapOf(SvlanQuantum) + Cardinality(Worker) * MaxLen
  <2>1. word.deficit + Owed <= most /\ most \in Nat /\ Owed \in Nat /\ word.deficit \in Int
    BY <1>1, CapNat DEF SInv, Credit, Owed, SumsOk, IInv, Shape
  <2> HIDE DEF most
  <2>2. word.deficit <= most
    BY <2>1
  <2> QED BY <2>2 DEF most
<1> QED BY <1>5, <1>6, <1>7, <1>8 DEF SvlanRate, OneQuantumPerRound, Flight

-----------------------------------------------------------------------------
\* A packet through the port at a time t moves virtual time by its cost, from
\* a burst before t at least.
LEMMA WindowSent ==
  ASSUME IInv, Window, NEW l \in Lens \cup {0}, NEW t \in Nat,
         clock - t <= MaxLag, GateOpen(vt.port, t),
         vt' = [vt EXCEPT !.port = Taken(@, l * PortCost, t)],
         passed'.port = passed.port + l * PortCost, UNCHANGED <<clock, trough>>
  PROVE  Window'
<1> DEFINE cost == l * PortCost
           time == Taken(vt.port, cost, t)
<1>1. cost \in Nat
  BY CostBound, ShareAssumption
<1>2. /\ clock \in Nat /\ vt.port \in Int /\ passed.port \in Int
      /\ Burst \in Nat /\ MaxLag \in Nat
  BY ShareAssumption DEF IInv, Shape
<1>3. vt'.port = time /\ passed'.port = passed.port + cost
  BY DEF IInv, Shape
<1> HIDE DEF cost
<1>4. /\ time \in Int
      /\ time >= vt.port + cost /\ time >= t - Burst + cost
  BY <1>1, <1>2 DEF Taken, Larger
<1> HIDE DEF time
<1>5. clock' = clock /\ trough' = trough
  OBVIOUS
<1>6. trough \in Int /\ trough <= passed.port - clock
  BY DEF Window
<1>7. CASE trough = passed.port - clock
  BY <1>1, <1>2, <1>3, <1>4, <1>5, <1>6, <1>7 DEF Window
<1>8. CASE vt.port >= (passed.port - trough) - (Burst + MaxLag)
  BY <1>1, <1>2, <1>3, <1>4, <1>5, <1>6, <1>8 DEF Window
<1> QED
  BY <1>7, <1>8 DEF Window

\* Every step keeps the window: time that passes lowers the trough or leaves
\* everything as it is.
LEMMA NextWindow == IInv /\ SInv /\ Window /\ [Next]_vars => Window'
<1> SUFFICES ASSUME IInv, SInv, Window, [Next]_vars PROVE Window'
  OBVIOUS
<1>1. CASE Tick
  <2>1. PICK j \in Jumps : /\ clock' = clock + j
                            /\ trough' = Smaller(trough, passed.port - clock')
                            /\ UNCHANGED <<vt, passed>>
    BY <1>1 DEF Tick
  <2>2. j \in Nat /\ clock \in Nat /\ passed.port \in Int /\ trough \in Int
    BY ShareAssumption DEF IInv, Shape, Window
  <2> QED
    BY <2>1, <2>2 DEF Window, Smaller
<1>2. ASSUME NEW w \in Worker, PortGate(w)
      PROVE  Window'
  <2>1. UNCHANGED <<clock, trough>>
    BY <1>2 DEF PortGate
  <2>2. CASE GateOpen(vt.port, th[w].now)
    <3>1. /\ vt' = [vt EXCEPT !.port = Taken(@, th[w].len * PortCost, th[w].now)]
          /\ passed'.port = passed.port + th[w].len * PortCost
      BY <1>2, <2>2 DEF PortGate
    <3>2. th[w].now \in Nat /\ th[w].len \in Lens \cup {0}
      BY DEF IInv, Shape
    <3>3. clock - th[w].now <= MaxLag
      BY <1>2 DEF PortGate, SInv, Ready
    <3> QED
      BY <2>1, <2>2, <3>1, <3>2, <3>3, WindowSent
  <2>3. CASE ~GateOpen(vt.port, th[w].now)
    BY <1>2, <2>1, <2>3 DEF PortGate, Window
  <2> QED
    BY <2>2, <2>3
<1>3. ASSUME NEW l \in Lens, Sibling(l)
      PROVE  Window'
  <2>1. clock \in Nat /\ clock - clock <= MaxLag
    BY ShareAssumption DEF IInv, Shape
  <2>2. /\ GateOpen(vt.port, clock)
        /\ vt' = [vt EXCEPT !.port = Taken(@, l * PortCost, clock)]
        /\ passed'.port = passed.port + l * PortCost
        /\ UNCHANGED <<clock, trough>>
    BY <1>3 DEF Sibling, IInv, Shape
  <2> QED
    BY <2>1, <2>2, WindowSent
<1>4. ASSUME NEW w \in Worker, SvlanGate(w) \/ Unwind(w)
      PROVE  Window'
  <2>1. UNCHANGED <<clock, passed, trough>> /\ vt'.port = vt.port
    BY <1>4 DEF SvlanGate, Unwind, IInv, Shape
  <2> QED
    BY <2>1 DEF Window
<1>5. ASSUME NEW w \in Worker,
             \/ Dispatch(w) \/ EndDispatch(w) \/ Load(w) \/ Swap(w) \/ SwapFails(w)
             \/ Refund(w) \/ Charge(w) \/ \E l \in Lens : Admit(w, l)
      PROVE  Window'
  <2>1. UNCHANGED <<clock, vt, passed, trough>>
    BY <1>5 DEF Dispatch, EndDispatch, Load, Swap, SwapFails, Refund, Charge, Admit
  <2> QED
    BY <2>1 DEF Window
<1>6. CASE UNCHANGED vars
  BY <1>6 DEF vars, Window
<1> QED
  BY <1>1, <1>2, <1>3, <1>4, <1>5, <1>6 DEF Next, Step

\* The rate of the port over all time, and over any stretch of it.
LEMMA WindowImplies == IInv /\ Window => PortRate
<1> SUFFICES ASSUME IInv, Window PROVE PortRate
  OBVIOUS
<1>1. MaxLen * PortCost \in Nat
  BY ShareAssumption
<1>2. Burst \in Nat /\ MaxLag \in Nat
  BY ShareAssumption
<1> QED
  BY <1>1, <1>2 DEF IInv, Shape, PortTime, Window, PortRate

\* The invariant holds throughout.
THEOREM Invariance == Spec => []IInv
  BY InitIInv, NextIInv, PTL DEF Spec

\* A scheduler's debt never exceeds the escape's floor by more than a packet,
\* so a bounded number of refills repays it (cake_drr_local_admit,
\* cake_drr_local_charge).
THEOREM DebtTheorem == Spec => []DebtBounded
  BY Invariance, IInvImplies, PTL

\* The S-VLAN's deficit never goes below the same floor, however many workers
\* race for the word: the packed word never borrows from its round tag
\* (cake_drr_shared_reserve).
THEOREM WordFloorTheorem == Spec => []WordFloor
  BY Invariance, IInvImplies, PTL

\* So does the second invariant.
THEOREM SvlanInvariance == Spec => []SInv
  BY Invariance, InitSInv, NextSInv, PTL DEF Spec

\* The window is kept throughout.
THEOREM WindowInvariance == Spec => []Window
<1>1. Init => Window
  BY DEF Init, Window
<1> QED
  BY <1>1, NextWindow, Invariance, SvlanInvariance, PTL DEF Spec

\* With any number of workers that sample the clock on their own, the port
\* never passes more than the time there was at its rate and one packet; and
\* in no stretch of time, however long it was idle before, more than that
\* stretch, the burst, a packet and what a worker's clock lags
\* (cake_shaper_gate_take).
THEOREM PortRateTheorem == Spec => []PortRate
  BY Invariance, WindowInvariance, WindowImplies, PTL

\* The S-VLAN never passes more than the time there was at its rate and one
\* packet, with what is in flight counted in; and as refusals never give back
\* more than was taken, its unsigned virtual time stays above zero
\* (cake_agg_dequeue_gate).
THEOREM SvlanRateTheorem == Spec => []SvlanRate
  BY Invariance, SvlanInvariance, SInvImplies, PTL

\* At most one refill per round, and credit at most the cap and a refund for
\* each worker, wherever their clocks stand and wherever the tags are on their
\* wheel (cake_drr_round_advanced, cake_drr_shared_reserve).
THEOREM OneQuantumTheorem == Spec => []OneQuantumPerRound
  BY Invariance, SvlanInvariance, SInvImplies, PTL
=============================================================================
