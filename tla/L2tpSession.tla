---------------------------- MODULE L2tpSession ----------------------------
(***************************************************************************)
(* L2TPv2 tunnels and sessions (plugins/l2tpv2).  A session of mode "ip"   *)
(* terminates PPP and has an interface, parked and reused like PPPoE's; one *)
(* of mode "raw" hands PPP frames to a node with an opaque number, and is  *)
(* known to others by its pool index.  Headers are data; a prefix length   *)
(* of zero is not sent.                                                    *)
(***************************************************************************)
EXTENDS SessionIfs

CONSTANTS
  TunnelKeys,  \* local address, peer address and local tunnel id
  SessionIds   \* local session ids

TunnelSlots == 1..Cardinality(TunnelKeys)

\* l2tpv2_tunnel_t and l2tpv2_session_t
Tunnels == [key : TunnelKeys, refs : Nat]
L2tpSessions ==
  [key : TunnelKeys \X SessionIds, tunnel : TunnelSlots, mode : {"ip", "raw"},
   opaque : Ifs \cup {0}, vrf : Vrfs, lease : Leases, sw : Ifs \cup {0}]

ASSUME L2tpAssumption ==
  /\ IsFiniteSet(TunnelKeys)
  /\ NULL \notin Tunnels /\ NULL \notin L2tpSessions

VARIABLES
  tunnels,     \* the tunnel pool
  tunnelTable, \* tunnel_table
  l2tps,       \* the session pool
  l2tpTable,   \* session_table
  l2tpOf,      \* session_index_by_sw_if_index
  l2tpParked   \* free_session_hw_if_indices

l2tpVars == <<tunnels, tunnelTable, l2tps, l2tpTable, l2tpOf, l2tpParked>>

L2tpInit ==
  /\ tunnels = [y \in TunnelSlots |-> NULL]
  /\ tunnelTable = [t \in TunnelKeys |-> 0]
  /\ l2tps = [x \in Slots |-> NULL]
  /\ l2tpTable = [k \in TunnelKeys \X SessionIds |-> 0]
  /\ l2tpOf = [i \in Ifs |-> 0]
  /\ l2tpParked = <<>>
-----------------------------------------------------------------------------
\* vnet_l2tpv2_add_del_tunnel, add
TunnelAdd(t) ==
  LET y == Min({z \in TunnelSlots : tunnels[z] = NULL})
  IN /\ tunnelTable[t] = 0
     /\ tunnels' = [tunnels EXCEPT ![y] = [key |-> t, refs |-> 0]]
     /\ tunnelTable' = [tunnelTable EXCEPT ![t] = y]
     /\ UNCHANGED <<l2tps, l2tpTable, l2tpOf, l2tpParked, ifVars>>

\* vnet_l2tpv2_add_del_tunnel, delete: not while it has sessions.
TunnelDel(t) ==
  /\ tunnelTable[t] # 0
  /\ tunnels[tunnelTable[t]].refs = 0
  /\ tunnels' = [tunnels EXCEPT ![tunnelTable[t]] = NULL]
  /\ tunnelTable' = [tunnelTable EXCEPT ![t] = 0]
  /\ UNCHANGED <<l2tps, l2tpTable, l2tpOf, l2tpParked, ifVars>>

\* vnet_l2tpv2_add_del_session, add, up to the mode: the tunnel and a session
\* in its pool element, found by its key and counted.
L2tpPut(t, id, s) ==
  LET x == PoolGet(l2tps)
      y == tunnelTable[t]
  IN /\ y # 0
     /\ l2tpTable[<<t, id>>] = 0
     /\ CanGet(l2tps)
     /\ l2tps' = [l2tps EXCEPT ![x] = s]
     /\ l2tpTable' = [l2tpTable EXCEPT ![<<t, id>>] = x]
     /\ tunnels' = [tunnels EXCEPT ![y].refs = @ + 1]
     /\ UNCHANGED tunnelTable

\* L2TPV2_DECAP_IP: the interface is not bound to the VRF.
L2tpAddIp(t, id, v) ==
  LET i == TakenIf(l2tpParked)
  IN /\ CanTakeIf(l2tpParked)
     /\ L2tpPut(t, id, [key |-> <<t, id>>, tunnel |-> tunnelTable[t], mode |-> "ip",
                        opaque |-> 0, vrf |-> v, lease |-> NoLease, sw |-> i])
     /\ kind' = [kind EXCEPT ![i] = "l2tp"]
     /\ l2tpParked' = Unparked(l2tpParked)
     /\ l2tpOf' = [l2tpOf EXCEPT ![i] = PoolGet(l2tps)]
     /\ UNCHANGED <<encaps, parent, vrf, routes, careful, plugins, limit>>

\* L2TPV2_DECAP_RAW: the next node has to exist, which is PPPoE's.
L2tpAddRaw(t, id, opaque) ==
  /\ "pppoe" \in plugins
  /\ L2tpPut(t, id, [key |-> <<t, id>>, tunnel |-> tunnelTable[t], mode |-> "raw",
                     opaque |-> opaque, vrf |-> DefaultVrf, lease |-> NoLease, sw |-> 0])
  /\ UNCHANGED <<l2tpOf, l2tpParked, ifVars>>

\* The FIB when the leases of a deleted session are withdrawn.
L2tpWithdrawn(s) == routes \ PathsOf("l2tp", s)

L2tpUncounted(y) ==
  IF tunnels[y].refs > 0 THEN [tunnels EXCEPT ![y].refs = @ - 1] ELSE tunnels

\* Mutant: the map still leads from the parked interface to the slot.
L2tpUnmapped_Not(s) == l2tpOf

L2tpUnmapped(s) == IF s.mode = "ip" THEN [l2tpOf EXCEPT ![s.sw] = 0] ELSE l2tpOf

\* vnet_l2tpv2_add_del_session, delete
L2tpDel(t, id) ==
  LET x == l2tpTable[<<t, id>>]
      s == l2tps[x]
  IN /\ tunnelTable[t] # 0
     /\ x # 0
     /\ routes' = L2tpWithdrawn(s)
     /\ l2tpParked' = IF s.mode = "ip" THEN Append(l2tpParked, s.sw) ELSE l2tpParked
     /\ l2tpOf' = L2tpUnmapped(s)
     /\ l2tpTable' = [l2tpTable EXCEPT ![<<t, id>>] = 0]
     /\ tunnels' = L2tpUncounted(tunnelTable[t])
     /\ l2tps' = [l2tps EXCEPT ![x] = NULL]
     /\ UNCHANGED <<tunnelTable, encaps, kind, parent, vrf, careful, plugins, limit>>

L2tpLease(i, k, p) ==
  /\ l2tps' = [l2tps EXCEPT ![l2tpOf[i]].lease[k] = p]
  /\ UNCHANGED <<tunnels, tunnelTable, l2tpTable, l2tpOf, l2tpParked, encaps, kind, parent,
                 vrf, careful, plugins, limit>>

\* vnet_l2tpv2_set_session_ipv4, _ipv6 and _set_delegated_prefix.  Only a
\* session of mode "ip" is found by an interface.
L2tpSetIpv4(i, p, add) ==
  /\ l2tpOf[i] # 0
  /\ IF add THEN LeaseAdd("l2tp", l2tps[l2tpOf[i]], "v4", p)
            ELSE LeaseDel("l2tp", l2tps[l2tpOf[i]], "v4", p)
  /\ L2tpLease(i, "v4", IF add THEN p ELSE NULL)

L2tpSetIpv6(i, p, add) ==
  /\ l2tpOf[i] # 0
  /\ IF add THEN LeaseAdd("l2tp", l2tps[l2tpOf[i]], "v6", p)
            ELSE LeaseDel("l2tp", l2tps[l2tpOf[i]], "v6", p)
  /\ L2tpLease(i, "v6", IF add THEN p ELSE NULL)

L2tpSetPrefix(i, p, add) ==
  /\ l2tpOf[i] # 0
  /\ IF add THEN LeaseAdd("l2tp", l2tps[l2tpOf[i]], "pd", p)
            ELSE LeaseDel("l2tp", l2tps[l2tpOf[i]], "pd", p)
  /\ L2tpLease(i, "pd", IF add THEN p ELSE NULL)
-----------------------------------------------------------------------------
\* l2tpv2_input_node: what becomes of a data packet of key k.  Control
\* packets and control frames of PPP are punted.
L2tpInput(k, ip) ==
  LET s == l2tps[l2tpTable[k]] IN
  IF l2tpTable[k] = 0 THEN [to |-> "drop", at |-> 0]
  ELSE IF s.mode = "raw" THEN [to |-> "raw", at |-> s.opaque]
  ELSE IF ip THEN [to |-> "ip", at |-> s.sw] ELSE [to |-> "punt", at |-> 0]

\* l2tpv2_encap_raw_node: the key of the session a frame with opaque x is
\* sent on, NULL when that element of the pool is free.
EncapRaw(x) ==
  IF l2tps[x] = NULL THEN NULL
  ELSE <<tunnels[l2tps[x].tunnel].key, l2tps[x].key[2]>>

\* l2tpv2_build_rewrite and l2tpv2_update_adj: the key of the session that
\* what is routed through i is sent on.
L2tpBuildRewrite(i) ==
  IF l2tpOf[i] = 0 THEN NULL
  ELSE LET s == l2tps[l2tpOf[i]] IN <<tunnels[s.tunnel].key, s.key[2]>>
=============================================================================
