---------------------------- MODULE MCCakeOwner ----------------------------
(* Instances of CakeOwner.                                                  *)
EXTENDS CakeOwner

CONSTANTS t1, t2

Frame(tin, tag, host, len) == [tin |-> tin, tag |-> tag, host |-> host, len |-> len]

Full == Frame(1, 1, 1, 3)

\* Three flows of two hosts for two ways and one host slot, on one thread.
Crowded == {<<t1, 1, Frame(1, 1, 1, 1)>>, <<t1, 1, Frame(1, 2, 1, 2)>>,
            <<t1, 1, Frame(1, 3, 2, 1)>>}

\* A flow in each of two tins.
Layered == {<<t1, 1, Frame(1, 1, 1, 2)>>, <<t1, 1, Frame(2, 1, 1, 1)>>}

\* Two schedulers, one of them seen by two threads; one packet fills each.
Spread == {<<t1, 1, Full>>, <<t2, 1, Full>>, <<t1, 2, Full>>}

All == {Crowded, Layered, Spread}
=============================================================================
