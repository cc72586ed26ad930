---------------------------- MODULE PuntControl ----------------------------
(***************************************************************************)
(* The control plane of the punt plugin (plugins/osvbng_punt): which       *)
(* interfaces punt which protocol, which UDP ports and ICMPv6 types are    *)
(* diverted to the punt nodes, and the reference counted receive route for *)
(* 255.255.255.255 that a DHCPv4 discover needs in its interface's FIB.    *)
(* Every operation runs under the worker barrier, so each is one step.     *)
(***************************************************************************)
EXTENDS Interfaces

CONSTANTS
  Protos,     \* protocols: those with code of their own, and "other" for the
              \* rest; L2TP does with its port what DHCPv6 does with its two
  MaxRefs     \* bound: the largest count of one FIB

ASSUME PuntAssumption ==
  /\ Protos \subseteq {"dhcpv4", "dhcpv6", "nd", "other"} /\ "dhcpv4" \in Protos
  /\ MaxRefs \in Nat

\* Those that divert a port or a type; only ports are given back.
Hooked == Protos \cap {"dhcpv4", "dhcpv6", "nd"}
Ported == Protos \cap {"dhcpv4", "dhcpv6"}

VARIABLES
  enabled,   \* enabled_interfaces[protocol]
  hooks,     \* protocols whose ports or types are registered
  refs,      \* dhcp_bcast_refs; 0 is no entry
  route,     \* FIBs with the receive route for 255.255.255.255
  ready      \* shm_initialized

puntVars == <<enabled, hooks, refs, route, ready>>

PuntInit ==
  /\ enabled = [p \in Protos |-> {}]
  /\ hooks = {}
  /\ refs = [f \in Fibs |-> 0]
  /\ route = {}
  /\ ready \in BOOLEAN
-----------------------------------------------------------------------------
\* Mutant: the route goes while one more interface counts on it.
BcastRouteDisable_Early(i) ==
  LET f == fibOf[i] IN
  /\ route' = IF refs[f] <= 2 THEN route \ {f} ELSE route
  /\ refs' = [refs EXCEPT ![f] = IF @ = 0 THEN 0 ELSE @ - 1]

\* osvbng_punt_dhcp_bcast_route (sw_if_index, 0)
BcastRouteDisable(i) ==
  LET f == fibOf[i] IN
  /\ route' = IF refs[f] = 1 THEN route \ {f} ELSE route
  /\ refs' = [refs EXCEPT ![f] = IF @ = 0 THEN 0 ELSE @ - 1]

\* osvbng_punt_dhcp_bcast_route (sw_if_index, 1)
BcastRouteEnable(i) ==
  LET f == fibOf[i] IN
  /\ refs[f] < MaxRefs
  /\ route' = IF refs[f] = 0 THEN route \cup {f} ELSE route
  /\ refs' = [refs EXCEPT ![f] = @ + 1]

SetEnabled(p, i) == enabled' = [enabled EXCEPT ![p] = @ \cup {i}]
SetDisabled(p, i) == enabled' = [enabled EXCEPT ![p] = @ \ {i}]

\* The API's enable: a protocol of its own registers its ports or types;
\* the others go through osvbng_punt_enable_disable, which needs the region.
ApiEnable(p, i) ==
  /\ i \in exists
  /\ careful => i \notin enabled[p]
  /\ p \in Hooked \/ ready
  /\ SetEnabled(p, i)
  /\ hooks' = IF p \in Hooked THEN hooks \cup {p} ELSE hooks
  /\ IF p = "dhcpv4" THEN BcastRouteEnable(i) ELSE UNCHANGED <<refs, route>>
  /\ UNCHANGED <<ready, ifVars>>

\* The API's disable: the ports go with the last interface.
ApiDisable(p, i) ==
  /\ i \in exists
  /\ careful => i \in enabled[p]
  /\ p \in Hooked \/ ready
  /\ SetDisabled(p, i)
  /\ hooks' = IF p \in Ported /\ enabled[p] \subseteq {i}
              THEN hooks \ {p} ELSE hooks
  /\ IF p = "dhcpv4" THEN BcastRouteDisable(i) ELSE UNCHANGED <<refs, route>>
  /\ UNCHANGED <<ready, ifVars>>

\* The CLI goes to osvbng_punt_enable_disable whatever the protocol.
CliEnableDisable(p, i) ==
  /\ ~careful
  /\ ready /\ i \in exists
  /\ SetEnabled(p, i) \/ SetDisabled(p, i)
  /\ UNCHANGED <<hooks, refs, route, ready, ifVars>>

PuntNext ==
  \E i \in Ifaces, p \in Protos :
    ApiEnable(p, i) \/ ApiDisable(p, i) \/ CliEnableDisable(p, i)

\* The plugin hears neither of a move to another table nor of a deletion.
PuntUnused(i) == \A p \in Protos : i \notin enabled[p]
-----------------------------------------------------------------------------
PuntTypeOK ==
  /\ enabled \in [Protos -> SUBSET Ifaces]
  /\ hooks \subseteq Hooked
  /\ refs \in [Fibs -> Nat]
  /\ route \subseteq Fibs
  /\ ready \in BOOLEAN

\* The interfaces that count on the route of a FIB.
Counting(f) == {i \in enabled["dhcpv4"] : fibOf[i] = f}

\* "Enabling the punt implies receivability" (osvbng_punt.h): while an
\* interface punts a protocol, the ports or types lead to the punt node, and for
\* DHCPv4 its FIB receives broadcasts, whatever a careful client does with
\* other interfaces; and nothing is left behind, because the count of a FIB is
\* that of its "DHCPv4-punt-enabled interfaces" and the route is there while
\* it is not zero, the latter for any client: "entry added on 0 to 1, removed
\* on 1 to 0".
Receivable ==
  /\ PuntTypeOK
  /\ route = {f \in Fibs : refs[f] > 0}
  /\ careful =>
       /\ \A p \in Hooked : enabled[p] # {} => p \in hooks
       /\ \A i \in enabled["dhcpv4"] : fibOf[i] \in route
       /\ \A f \in Fibs : refs[f] = Cardinality(Counting(f))
=============================================================================
