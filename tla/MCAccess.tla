------------------------------ MODULE MCAccess ------------------------------
(* Instances of Access.                                                     *)
EXTENDS Access, TLC

CONSTANT Third

TwoTags == {<<1, 1>>, <<1, AnyCvlan>>}

\* Only invariants are checked, and no two of these sets are used in one
\* loadout: one permutation exchanges the members of all three.
OtherOf(S, x) == CHOOSE y \in S : y # x
Exchange ==
  [x \in Workers \cup Threads \cup Names |->
     IF x \in Workers THEN OtherOf(Workers, x)
     ELSE IF x \in Threads THEN OtherOf(Threads, x) ELSE OtherOf(Names, x)]
Interchangeable == Permutations(Ifaces \ {Third}) \cup {Exchange}

\* The driver that refuses and the pool that moves are apart: each is a fault of
\* its own, and the group's steps with both are many.
Alone == {{"punt"}, {"policer"}, {"srg", "refusing"}, {"srg", "moving"}, {"l2gw"}, {"tunnel"}}

\* The policer knows no interfaces; a headend is bound to one tunnel and then
\* to another; groups whose pool moves are many states for each interface.
Pairs(loadout) == CASE loadout = {"policer"} -> {}
                    [] loadout = {"tunnel"} -> Ifaces
                    [] "moving" \in loadout -> {Third}
                    [] OTHER -> Ifaces \ {Third}
=============================================================================
