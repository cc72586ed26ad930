---------------------------- MODULE MCCakeShare -----------------------------
(* Instances of CakeShare for TLC. *)
EXTENDS CakeShare, TLC

WorkerSymmetry == Permutations(Worker)
=============================================================================
