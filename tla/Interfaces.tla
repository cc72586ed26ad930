----------------------------- MODULE Interfaces -----------------------------
(***************************************************************************)
(* VPP's interface table, as the plugins that keep state by interface      *)
(* index use it (external).  An index names an interface until it is       *)
(* deleted and is then given to a new one.  A hardware interface is its    *)
(* own super interface; a sub-interface has the hardware interface it is   *)
(* on.  What VPP keeps on an interface goes with it; what a plugin keeps   *)
(* stays unless the plugin hears of the deletion.                          *)
(***************************************************************************)
EXTENDS Integers, FiniteSets

CONSTANTS
  Ifaces,     \* software interface indices
  Fibs,       \* IPv4 FIB indices
  DefaultFib, \* the FIB of a new interface
  Macs        \* MAC addresses a client programs

ASSUME InterfacesAssumption ==
  /\ IsFiniteSet(Ifaces) /\ 0 \notin Ifaces
  /\ DefaultFib \in Fibs

VARIABLES
  exists,    \* interfaces that exist
  sup,       \* the hardware interface of each
  fibOf,     \* the FIB each is bound to
  outNode,   \* output node of each hardware interface, OwnNode or a plugin's
  macs,      \* <<hardware interface, address>> of secondary MAC addresses
  feature,   \* interfaces with l2gw-input on their device-input arc
  careful    \* whether the client is careful, the same throughout: it undoes
             \* what it configured on an interface before it moves or deletes
             \* it, and neither repeats a call nor uses the CLI

ifVars == <<exists, sup, fibOf, outNode, macs, feature, careful>>

\* The node a device registers for itself; a plugin's node is the index of
\* the interface it was registered for.
OwnNode == 0

IfInit ==
  /\ exists = {}
  /\ sup = [i \in Ifaces |-> i]
  /\ fibOf = [i \in Ifaces |-> DefaultFib]
  /\ outNode = [i \in Ifaces |-> OwnNode]
  /\ macs = {}
  /\ feature = {}
  /\ careful \in BOOLEAN

IsHw(i) == i \in exists /\ sup[i] = i

IfCreate(i, h) ==
  /\ i \notin exists
  /\ h = i \/ IsHw(h)
  /\ exists' = exists \cup {i}
  /\ sup' = [sup EXCEPT ![i] = h]
  /\ UNCHANGED <<fibOf, outNode, macs, feature, careful>>

\* Sub-interfaces go before their hardware interface.
IfDelete(i) ==
  /\ i \in exists
  /\ \A j \in exists \ {i} : sup[j] # i
  /\ exists' = exists \ {i}
  /\ sup' = [sup EXCEPT ![i] = i]
  /\ fibOf' = [fibOf EXCEPT ![i] = DefaultFib]
  /\ outNode' = [outNode EXCEPT ![i] = OwnNode]
  /\ macs' = {k \in macs : k[1] # i}
  /\ feature' = feature \ {i}
  /\ UNCHANGED careful

IfMoveFib(i, f) ==
  /\ i \in exists
  /\ fibOf' = [fibOf EXCEPT ![i] = f]
  /\ UNCHANGED <<exists, sup, outNode, macs, feature, careful>>

IfTypeOK ==
  /\ exists \subseteq Ifaces
  /\ sup \in [Ifaces -> Ifaces]
  /\ fibOf \in [Ifaces -> Fibs]
  /\ outNode \in [Ifaces -> Ifaces \cup {OwnNode}]
  /\ macs \subseteq Ifaces \X Macs
  /\ feature \subseteq Ifaces
  /\ careful \in BOOLEAN
=============================================================================
