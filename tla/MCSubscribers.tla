--------------------------- MODULE MCSubscribers ---------------------------
(* Instances of Subscribers.                                                *)
EXTENDS Subscribers, TLC

\* Only invariants are checked.
Interchangeable ==
  Permutations(Encaps) \cup Permutations(Prefixes)
  \cup Permutations(PppoeKeys) \cup Permutations(TunnelKeys)

Some(names, r, e) == [with |-> names, limit |-> [routes |-> r, encaps |-> e]]

Mixed == {Some({"ipoe"}, 2, 1), Some({"pppoe"}, 2, 2), Some({"l2tp"}, 2, 1),
          Some({"pppoe", "l2tp"}, 2, 1)}
=============================================================================
