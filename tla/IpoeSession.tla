---------------------------- MODULE IpoeSession ----------------------------
(***************************************************************************)
(* IPoE sessions (plugins/osvbng_ipoe): one per subscriber line and MAC,   *)
(* with an interface that lives as long as the session.  MAC addresses and *)
(* the outer TPID of the rewrite are data; a prefix length of zero is not  *)
(* sent.                                                                   *)
(***************************************************************************)
EXTENDS SessionIfs

CONSTANTS
  Clients,    \* MAC addresses of subscribers
  OuterVlans, \* S-VLANs, 0 for none
  InnerVlans  \* C-VLANs, 0 for none

\* ipoe_make_key
IpoeKeys == [encap : Encaps, inner : InnerVlans, mac : Clients]

\* ipoe_session_t
IpoeSessions ==
  [key : IpoeKeys, outer : OuterVlans, vrf : Vrfs, lease : Leases, sw : Ifs]

ASSUME IpoeAssumption == NULL \notin IpoeSessions

VARIABLES
  ipoes,     \* the session pool
  ipoeTable, \* session_table: slot of a key, 0 for none
  ipoeOf,    \* session_index_by_sw_if_index, 0 for ~0
  ipoeOn     \* enabled_by_sw_if_index

ipoeVars == <<ipoes, ipoeTable, ipoeOf, ipoeOn>>

IpoeInit ==
  /\ ipoes = [x \in Slots |-> NULL]
  /\ ipoeTable = [k \in IpoeKeys |-> 0]
  /\ ipoeOf = [i \in Ifs |-> 0]
  /\ ipoeOn = {}
-----------------------------------------------------------------------------
\* vnet_ipoe_add_del_session, add.  A key that is there changes nothing.  The
\* encapsulating interface is taken as it comes.
IpoeAdd(k, outer, v) ==
  LET x == PoolGet(ipoes)
      i == TakenIf(<<>>)
  IN /\ ipoeTable[k] = 0
     /\ careful => k.encap \in encaps
     /\ CanGet(ipoes) /\ CanTakeIf(<<>>)
     /\ ipoes' = [ipoes EXCEPT ![x] =
                   [key |-> k, outer |-> outer, vrf |-> v, lease |-> NoLease, sw |-> i]]
     /\ kind' = [kind EXCEPT ![i] = "ipoe"]
     /\ parent' = [parent EXCEPT ![i] = k.encap]
     /\ ipoeOf' = [ipoeOf EXCEPT ![i] = x]
     /\ vrf' = [vrf EXCEPT ![i] = v]
     /\ ipoeTable' = [ipoeTable EXCEPT ![k] = x]
     /\ UNCHANGED <<ipoeOn, encaps, routes, careful, plugins, limit>>

\* Mutant: the reverse map is cleared first, and the calls that withdraw the
\* leases no longer find the session.
IpoeWithdrawn_MapFirst(s) == routes

\* The FIB when the leases of a session are withdrawn, by the calls the client
\* uses, while the reverse map still leads to the session.
IpoeWithdrawn(s) == routes \ PathsOf("ipoe", s)

\* vnet_ipoe_add_del_session, delete: the interface goes with the session.
IpoeDel(k) ==
  LET x == ipoeTable[k]
      i == ipoes[x].sw
  IN /\ ipoeTable[k] # 0
     /\ routes' = IpoeWithdrawn(ipoes[x])
     /\ ipoeTable' = [ipoeTable EXCEPT ![k] = 0]
     /\ ipoeOf' = [ipoeOf EXCEPT ![i] = 0]
     /\ kind' = [kind EXCEPT ![i] = "none"]
     /\ parent' = [parent EXCEPT ![i] = i]
     /\ vrf' = [vrf EXCEPT ![i] = DefaultVrf]
     /\ ipoes' = [ipoes EXCEPT ![x] = NULL]
     /\ UNCHANGED <<ipoeOn, encaps, careful, plugins, limit>>

IpoeLease(i, k, p) ==
  /\ ipoes' = [ipoes EXCEPT ![ipoeOf[i]].lease[k] = p]
  /\ UNCHANGED <<ipoeTable, ipoeOf, ipoeOn, encaps, kind, parent, vrf, careful,
                 plugins, limit>>

\* vnet_ipoe_set_session_ipv4, _ipv6 and _set_delegated_prefix: an index
\* with no session behind it is refused.
IpoeSetIpv4(i, p, add) ==
  /\ ipoeOf[i] # 0
  /\ IF add THEN LeaseAdd("ipoe", ipoes[ipoeOf[i]], "v4", p)
            ELSE LeaseDel("ipoe", ipoes[ipoeOf[i]], "v4", p)
  /\ IpoeLease(i, "v4", IF add THEN p ELSE NULL)

IpoeSetIpv6(i, p, add) ==
  /\ ipoeOf[i] # 0
  /\ IF add THEN LeaseAdd("ipoe", ipoes[ipoeOf[i]], "v6", p)
            ELSE LeaseDel("ipoe", ipoes[ipoeOf[i]], "v6", p)
  /\ IpoeLease(i, "v6", IF add THEN p ELSE NULL)

IpoeSetPrefix(i, p, add) ==
  /\ ipoeOf[i] # 0
  /\ IF add THEN LeaseAdd("ipoe", ipoes[ipoeOf[i]], "pd", p)
            ELSE LeaseDel("ipoe", ipoes[ipoeOf[i]], "pd", p)
  /\ IpoeLease(i, "pd", IF add THEN p ELSE NULL)

\* vnet_ipoe_enable_disable: nothing takes the bit back when the interface
\* goes.
IpoeEnable(e, on) ==
  /\ e \in encaps /\ (e \in ipoeOn) # on
  /\ ipoeOn' = IF on THEN ipoeOn \cup {e} ELSE ipoeOn \ {e}
  /\ UNCHANGED <<ipoes, ipoeTable, ipoeOf, ifVars>>

IpoeNext ==
  \/ \E k \in IpoeKeys : \/ \E outer \in OuterVlans, v \in Vrfs : IpoeAdd(k, outer, v)
                         \/ IpoeDel(k)
  \/ \E i \in Ifs, p \in Prefixes, add \in BOOLEAN :
       IpoeSetIpv4(i, p, add) \/ IpoeSetIpv6(i, p, add) \/ IpoeSetPrefix(i, p, add)
  \/ \E e \in Encaps, on \in BOOLEAN : IpoeEnable(e, on)
-----------------------------------------------------------------------------
\* ipoe_recover_inner_vlan: the second tag, or else the first.
RecoverInnerVlan(tags) == IF tags = <<>> THEN 0 ELSE tags[Len(tags)]

\* ipoe_lookup_1 and ipoe_input_node: the interface a frame is received on.
\* The plugin leaves a frame alone on an interface that is not enabled, of no
\* session, or for a group address.
IpoeInput(e, tags, mac, group) ==
  LET k == [encap |-> e, inner |-> RecoverInnerVlan(tags), mac |-> mac]
  IN IF e \notin ipoeOn \/ k \notin IpoeKeys THEN e
     ELSE IF ipoeTable[k] = 0 \/ group THEN e
     ELSE ipoes[ipoeTable[k]].sw

\* A VLAN id is sent as a tag, 0 as none.
Tags(vlan) == IF vlan = 0 THEN <<>> ELSE <<vlan>>

\* Mutant: an outer tag goes out alone.
IpoeBuildRewrite_OuterOnly(i) ==
  IF ipoeOf[i] = 0 THEN NULL
  ELSE LET s == ipoes[ipoeOf[i]]
       IN [mac |-> s.key.mac, encap |-> s.key.encap,
           tags |-> IF s.outer # 0 THEN <<s.outer>>
                    ELSE IF s.key.inner # 0 THEN <<s.key.inner>> ELSE <<>>]

\* ipoe_build_rewrite and ipoe_update_adj: where what is routed through i is
\* sent, NULL when i has no session.
IpoeBuildRewrite(i) ==
  IF ipoeOf[i] = 0 THEN NULL
  ELSE LET s == ipoes[ipoeOf[i]]
       IN [mac |-> s.key.mac, encap |-> s.key.encap,
           tags |-> Tags(s.outer) \o Tags(s.key.inner)]
=============================================================================
