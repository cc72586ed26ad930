----------------------------- MODULE Pseudowire -----------------------------
(***************************************************************************)
(* Pseudowire headends (plugins/osvbng_tunnel): a transport tunnel is      *)
(* bound to a headend interface, whose output node is replaced by one that *)
(* sends into the tunnel and is put back when they are unbound.  Every     *)
(* operation runs under the worker barrier.                                *)
(***************************************************************************)
EXTENDS Interfaces

VARIABLES
  headendOf,   \* pw_headend_by_tunnel, 0 when unbound
  tunnelOf,    \* pw_tunnel_by_headend
  savedNode    \* pw_saved_output_node, NoNode when there is none

pwVars == <<headendOf, tunnelOf, savedNode>>

Unbound == 0
NoNode == -1

PwInit ==
  /\ headendOf = [i \in Ifaces |-> Unbound]
  /\ tunnelOf = [i \in Ifaces |-> Unbound]
  /\ savedNode = [i \in Ifaces |-> NoNode]
-----------------------------------------------------------------------------
\* osvbng_tunnel_pw_bind (t, h, 1).  To bind again what is bound changes
\* nothing; a side that is bound elsewhere is refused.
PwBind(t, h) ==
  /\ {t, h} \subseteq exists
  /\ careful => IsHw(h)
  /\ headendOf[t] = Unbound /\ tunnelOf[h] = Unbound
  /\ savedNode' = [savedNode EXCEPT ![h] = outNode[sup[h]]]
  /\ outNode' = [outNode EXCEPT ![sup[h]] = h]
  /\ headendOf' = [headendOf EXCEPT ![t] = h]
  /\ tunnelOf' = [tunnelOf EXCEPT ![h] = t]
  /\ UNCHANGED <<exists, sup, fibOf, macs, feature, careful>>

\* Mutant: what was saved is kept and not put back.
PwUnbind_NoRestore(t, h) ==
  /\ {t, h} \subseteq exists
  /\ headendOf[t] = h
  /\ headendOf' = [headendOf EXCEPT ![t] = Unbound]
  /\ tunnelOf' = [tunnelOf EXCEPT ![h] = Unbound]
  /\ UNCHANGED <<savedNode, ifVars>>

\* osvbng_tunnel_pw_bind (t, h, 0)
PwUnbind(t, h) ==
  /\ {t, h} \subseteq exists
  /\ headendOf[t] = h
  /\ outNode' = IF savedNode[h] = NoNode THEN outNode
                ELSE [outNode EXCEPT ![sup[h]] = savedNode[h]]
  /\ headendOf' = [headendOf EXCEPT ![t] = Unbound]
  /\ tunnelOf' = [tunnelOf EXCEPT ![h] = Unbound]
  /\ savedNode' = [savedNode EXCEPT ![h] = NoNode]
  /\ UNCHANGED <<exists, sup, fibOf, macs, feature, careful>>

\* osvbng_tunnel_sw_interface_add_del: what refers to the index is cleared on
\* both sides.  The other side's output node stays as it is.
PwInterfaceDel(i) ==
  /\ headendOf' = [t \in Ifaces |->
                    IF t = i \/ tunnelOf[i] = t THEN Unbound ELSE headendOf[t]]
  /\ tunnelOf' = [h \in Ifaces |->
                   IF h = i \/ headendOf[i] = h THEN Unbound ELSE tunnelOf[h]]
  /\ savedNode' = [savedNode EXCEPT ![i] = NoNode]

PwNext == \E t, h \in Ifaces : PwBind(t, h) \/ PwUnbind(t, h)

\* A careful client leaves nothing bound on an interface it deletes.
PwUnused(i) == headendOf[i] = Unbound /\ tunnelOf[i] = Unbound

\* osvbng_pw_input_node: the interface a frame of tunnel t arrives on.
PwInputOf(t) == headendOf[t]

\* osvbng_pw_output_fn: the tunnel a frame leaves by that hardware interface
\* h sends, when h has a headend's node.
PwOutputOf(h) == IF outNode[h] = OwnNode THEN Unbound ELSE tunnelOf[outNode[h]]
-----------------------------------------------------------------------------
PwTypeOK ==
  /\ headendOf \in [Ifaces -> Ifaces \cup {Unbound}]
  /\ tunnelOf \in [Ifaces -> Ifaces \cup {Unbound}]
  /\ savedNode \in [Ifaces -> Ifaces \cup {OwnNode, NoNode}]

\* The two tables are one matching of interfaces that exist, whatever the
\* client does and whichever side is deleted first: a frame that enters
\* through a tunnel never arrives on a headend that answers through another,
\* and a recycled index inherits no binding.  What a careful client's headend
\* sends goes into its tunnel while it is bound and out of its own device when
\* it is not: no bind and unbind, and no reuse of an index, leaves it with a
\* node that drops what it sends.
PwBindings ==
  /\ IfTypeOK /\ PwTypeOK
  /\ \A i \in Ifaces :
       /\ PwInputOf(i) # Unbound => tunnelOf[PwInputOf(i)] = i /\ i \in exists
       /\ tunnelOf[i] # Unbound => PwInputOf(tunnelOf[i]) = i /\ i \in exists
  /\ careful => \A h \in Ifaces : IsHw(h) =>
       /\ PwOutputOf(h) = tunnelOf[h]
       /\ tunnelOf[h] = Unbound => outNode[h] = OwnNode
=============================================================================
