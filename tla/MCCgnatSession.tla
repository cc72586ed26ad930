--------------------------- MODULE MCCgnatSession ---------------------------
(* Instances of CgnatSession: two subscribers a and b behind one outside    *)
(* address, with port blocks side by side.                                  *)
EXTENDS CgnatSession, TLC

CONSTANTS a, b, pl, ql, o, r, tcp, icmp, gre

Pkt(sub, sport, dport, proto) ==
  [sub |-> sub, rip |-> r, sport |-> sport, dport |-> dport, proto |-> proto]

\* Blocks 1..2 and 3..3: the second ends at the largest port.
PlanShared ==
  a :> [pool |-> pl, out |-> o, start |-> 1, end |-> 2]
  @@ b :> [pool |-> pl, out |-> o, start |-> 3, end |-> 3]

\* Block 0..1: port 0 is offered and reads as "none".
PlanZero ==
  a :> [pool |-> pl, out |-> o, start |-> 0, end |-> 1]
  @@ b :> [pool |-> ql, out |-> o, start |-> 2, end |-> 2]

\* Block 1..1: the second flow comes around to the first one's port.
PlanNarrow ==
  a :> [pool |-> pl, out |-> o, start |-> 1, end |-> 1]
  @@ b :> [pool |-> pl, out |-> o, start |-> 3, end |-> 3]

\* Two flows of one subscriber to one remote, and one of the other.
PacketsTcp == {Pkt(a, 1, 1, tcp), Pkt(a, 2, 1, tcp), Pkt(b, 1, 1, tcp)}

PacketsMixed == {Pkt(a, 1, 1, tcp), Pkt(a, 1, 2, icmp), Pkt(b, 1, 1, gre)}

PacketsOne == {Pkt(a, 1, 1, tcp), Pkt(a, 2, 1, tcp)}

Interchangeable ==
  Permutations(Workers) \cup Permutations(SessionIdx) \cup Permutations(FragIdx)
=============================================================================
