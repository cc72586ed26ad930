---------------------------- MODULE PppoeSession ----------------------------
(***************************************************************************)
(* PPPoE sessions (plugins/osvbng_pppoe): terminated locally, or bridged   *)
(* to an L2TPv2 session (LAC).  The interface of a deleted session is      *)
(* parked and given to the next one.  Rewrites are data; a client address  *)
(* is an IPv4 one, as in every message of the API; the next hop of a       *)
(* delegated prefix is not part of its path.                               *)
(***************************************************************************)
EXTENDS SessionIfs

CONSTANT PppoeKeys   \* client MAC and session id

\* osvbng_pppoe_session_t
PppoeSessions ==
  [key : PppoeKeys, encap : Encaps, vrf : Vrfs, lease : Leases, sw : Ifs,
   lac : Slots \cup {NULL}]

ASSUME PppoeAssumption == NULL \notin PppoeSessions

VARIABLES
  pppoes,      \* the session pool
  pppoeTable,  \* session_table
  pppoeOf,     \* session_index_by_sw_if_index
  pppoeParked, \* free_pppoe_session_hw_if_indices
  lacCount     \* lac_session_count

pppoeVars == <<pppoes, pppoeTable, pppoeOf, pppoeParked, lacCount>>

PppoeInit ==
  /\ pppoes = [x \in Slots |-> NULL]
  /\ pppoeTable = [k \in PppoeKeys |-> 0]
  /\ pppoeOf = [i \in Ifs |-> 0]
  /\ pppoeParked = <<>>
  /\ lacCount = 0
-----------------------------------------------------------------------------
\* ip_table_bind, of a new interface and a recycled one.
PppoeBoundVrf(i, v) == [vrf EXCEPT ![i] = v]

\* vnet_osvbng_pppoe_add_del_session, add, with client address p.  For a key
\* that is there nothing changes, whether the arguments are the same or have
\* drifted.
PppoeAdd(k, e, v, p) ==
  LET x == PoolGet(pppoes)
      i == TakenIf(pppoeParked)
      s == [key |-> k, encap |-> e, vrf |-> v, lease |-> [NoLease EXCEPT !["v4"] = p],
            sw |-> i, lac |-> NULL]
  IN /\ pppoeTable[k] = 0
     /\ e \in encaps
     /\ CanGet(pppoes) /\ CanTakeIf(pppoeParked)
     /\ pppoes' = [pppoes EXCEPT ![x] = s]
     /\ pppoeTable' = [pppoeTable EXCEPT ![k] = x]
     /\ pppoeParked' = Unparked(pppoeParked)
     /\ kind' = [kind EXCEPT ![i] = "pppoe"]
     /\ pppoeOf' = [pppoeOf EXCEPT ![i] = x]
     /\ parent' = [parent EXCEPT ![i] = e]
     /\ vrf' = PppoeBoundVrf(i, v)
     /\ routes' = routes \cup {Path("pppoe", s, "v4", p)}
     /\ Cardinality(routes') <= limit.routes
     /\ UNCHANGED <<lacCount, encaps, careful, plugins, limit>>

\* Mutant: the parked interface keeps its parent.
PppoeUnparented_Not(i) == parent

\* A parked interface is its own parent.
PppoeUnparented(i) == [parent EXCEPT ![i] = i]

\* vnet_osvbng_pppoe_add_del_session, delete.  The IPv4 path that goes is the
\* one of the message's VRF and address; IPv6 leases keep theirs.
PppoeDel(k, v, p) ==
  LET x == pppoeTable[k]
      s == pppoes[x]
  IN /\ pppoeTable[k] # 0
     /\ careful => s.lease = [NoLease EXCEPT !["v4"] = p] /\ s.vrf = v
     /\ lacCount' = IF s.lac # NULL /\ lacCount > 0 THEN lacCount - 1 ELSE lacCount
     /\ pppoeTable' = [pppoeTable EXCEPT ![k] = 0]
     /\ pppoeOf' = [pppoeOf EXCEPT ![s.sw] = 0]
     /\ routes' = routes \ {Path("pppoe", [s EXCEPT !.vrf = v], "v4", p)}
     /\ parent' = PppoeUnparented(s.sw)
     /\ pppoeParked' = Append(pppoeParked, s.sw)
     /\ pppoes' = [pppoes EXCEPT ![x] = NULL]
     /\ UNCHANGED <<encaps, kind, vrf, careful, plugins, limit>>

PppoeLease(i, k, p) ==
  /\ pppoes' = [pppoes EXCEPT ![pppoeOf[i]].lease[k] = p]
  /\ UNCHANGED <<pppoeTable, pppoeOf, pppoeParked, lacCount, encaps, kind, parent, vrf,
                 careful, plugins, limit>>

\* vnet_pppoe_set_session_ipv6 and vnet_pppoe_set_delegated_prefix
PppoeSetIpv6(i, p, add) ==
  /\ pppoeOf[i] # 0
  /\ IF add THEN LeaseAdd("pppoe", pppoes[pppoeOf[i]], "v6", p)
            ELSE LeaseDel("pppoe", pppoes[pppoeOf[i]], "v6", p)
  /\ PppoeLease(i, "v6", IF add THEN p ELSE NULL)

PppoeSetPrefix(i, p, add) ==
  /\ pppoeOf[i] # 0
  /\ IF add THEN LeaseAdd("pppoe", pppoes[pppoeOf[i]], "pd", p)
            ELSE LeaseDel("pppoe", pppoes[pppoeOf[i]], "pd", p)
  /\ PppoeLease(i, "pd", IF add THEN p ELSE NULL)

\* The count when the bridge of s becomes x: it follows the flag, not the
\* index.
LacCounted(s, x) ==
  IF s.lac # NULL /\ x = NULL /\ lacCount > 0 THEN lacCount - 1
  ELSE IF s.lac = NULL /\ x # NULL THEN lacCount + 1
  ELSE lacCount

\* Mutant: a session that is bridged already keeps its index.
SetLacTunnel_FlagOnly(i, x) ==
  /\ pppoeOf[i] # 0
  /\ LET s == pppoes[pppoeOf[i]] IN
     /\ lacCount' = LacCounted(s, x)
     /\ pppoes' = [pppoes EXCEPT ![pppoeOf[i]].lac =
                     IF x # NULL /\ @ # NULL THEN @ ELSE x]
  /\ UNCHANGED <<pppoeTable, pppoeOf, pppoeParked, ifVars>>

\* osvbng_pppoe_set_lac_tunnel: bridge the session of interface i to the
\* L2TPv2 session of pool index x, or NULL to end the bridge.
SetLacTunnel(i, x) ==
  /\ pppoeOf[i] # 0
  /\ LET s == pppoes[pppoeOf[i]] IN
     /\ s.lac # x
     /\ lacCount' = LacCounted(s, x)
     /\ pppoes' = [pppoes EXCEPT ![pppoeOf[i]].lac = x]
  /\ UNCHANGED <<pppoeTable, pppoeOf, pppoeParked, ifVars>>
-----------------------------------------------------------------------------
\* osvbng_pppoe_input_node: what becomes of a frame of key k.  A bridged
\* session's frames go to L2TPv2, all of them, or nowhere when that plugin is
\* not loaded; control frames and IPv6 group traffic are punted, session or
\* not; IP needs a session.
PppoeInput(k, ip) ==
  LET x == pppoeTable[k] IN
  IF x # 0 /\ pppoes[x].lac # NULL
  THEN [to |-> IF "l2tp" \in plugins THEN "l2tp" ELSE "drop", at |-> pppoes[x].lac]
  ELSE IF ~ip THEN [to |-> "punt", at |-> 0]
  ELSE IF x = 0 THEN [to |-> "drop", at |-> 0]
  ELSE [to |-> "ip", at |-> pppoes[x].sw]

\* osvbng_pppoe_lac_tx_node: the key a frame that L2TPv2 hands over is sent
\* to, NULL when the interface of its opaque has no session.
LacTx(i) == IF pppoeOf[i] = 0 THEN NULL ELSE pppoes[pppoeOf[i]].key

\* pppoe_build_rewrite and pppoe_update_adj
PppoeBuildRewrite(i) == IF pppoeOf[i] = 0 THEN NULL ELSE pppoes[pppoeOf[i]].key
=============================================================================
