----------------------------- MODULE MCCakeTree -----------------------------
(* Instances of CakeTree for TLC: the interfaces of a small access network. *)
EXTENDS CakeTree, TLC

CONSTANTS a1, a2, a3, s1, s2, s3

Hop(i, t) == [sw |-> i, tag |-> t]

\* Two sessions over a sub-interface that may carry an aggregate of its own,
\* and one on its port with no tag.
NestedChain ==
  s1 :> <<Hop(s1, None), Hop(11, 1), Hop(10, None)>> @@
  s2 :> <<Hop(s2, None), Hop(11, 1), Hop(10, None)>> @@
  s3 :> <<Hop(s3, None), Hop(10, None)>>

\* The aggregates, and the two sessions that have the same chain.
TreeSymmetry == Permutations(Agg) \cup Permutations({s1, s2})
=============================================================================
