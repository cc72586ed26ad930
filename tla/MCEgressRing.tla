---------------------------- MODULE MCEgressRing ----------------------------
(* Instances of EgressRing: every interface on a hardware interface of its  *)
(* own.                                                                     *)
EXTENDS EgressRing, TLC

CONSTANTS i, j, k, x, y, z

TwoPorts == i :> x @@ k :> y

ThreePorts == i :> x @@ j :> z @@ k :> y
=============================================================================
