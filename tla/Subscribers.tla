---------------------------- MODULE Subscribers ----------------------------
(***************************************************************************)
(* The session plugins over one interface table and one FIB, and a client  *)
(* that drives them: IPoE and PPPoE sessions, L2TPv2 tunnels and sessions,  *)
(* and the LAC bridge between a PPPoE session and an L2TPv2 one, which the *)
(* PPPoE side knows by pool index and the L2TPv2 side by interface index.  *)
(* A careful client withdraws what it leased, ends a bridge before it      *)
(* deletes either side, and deletes sessions before the interface they are *)
(* on; any other client may send the calls in any order.                   *)
(***************************************************************************)
EXTENDS IpoeSession, PppoeSession, L2tpSession

CONSTANT Loadouts   \* plugins that are loaded together, and bounds for them

ASSUME LoadoutsAssumption ==
  Loadouts \subseteq [with : SUBSET Plugins, limit : [routes : Nat, encaps : Nat]]

VARIABLE bridges    \* the careful client's book: PPPoE keys and L2TPv2 keys it joined

vars == <<ifVars, ipoeVars, pppoeVars, l2tpVars, bridges>>

Init ==
  /\ encaps = {} /\ routes = {}
  /\ kind = [i \in Ifs |-> "none"]
  /\ parent = [i \in Ifs |-> i]
  /\ vrf = [i \in Ifs |-> DefaultVrf]
  /\ careful \in BOOLEAN
  /\ \E o \in Loadouts : plugins = o.with /\ limit = o.limit
  /\ IpoeInit /\ PppoeInit /\ L2tpInit
  /\ bridges = {}
-----------------------------------------------------------------------------
\* The L2TPv2 sessions that hand their frames to interface i.
RawsTo(i) == {x \in Live(l2tps) : l2tps[x].mode = "raw" /\ l2tps[x].opaque = i}

Ipoe == "ipoe" \in plugins /\ IpoeNext /\ UNCHANGED <<pppoeVars, l2tpVars, bridges>>

DeletePppoe(k, v, p) ==
  /\ careful /\ pppoeTable[k] # 0 =>
       LET s == pppoes[pppoeTable[k]] IN s.lac = NULL /\ RawsTo(s.sw) = {}
  /\ PppoeDel(k, v, p)
  /\ UNCHANGED <<l2tpVars, bridges>>

Bridge(i, x) ==
  /\ careful /\ x # NULL => x \in RawsTo(i)
  /\ SetLacTunnel(i, x)
  /\ bridges' = IF ~careful THEN {}
                ELSE LET k == pppoes[pppoeOf[i]].key
                     IN {b \in bridges : b[1] # k}
                        \cup {<<k, l2tps[y].key>> : y \in {x} \ {NULL}}
  /\ UNCHANGED l2tpVars

Pppoe ==
  /\ "pppoe" \in plugins
  /\ \/ /\ \E k \in PppoeKeys, e \in Encaps, v \in Vrfs, p \in Prefixes : PppoeAdd(k, e, v, p)
        /\ UNCHANGED <<l2tpVars, bridges>>
     \/ \E k \in PppoeKeys, v \in Vrfs, p \in Prefixes : DeletePppoe(k, v, p)
     \/ /\ \E i \in Ifs, p \in Prefixes, add \in BOOLEAN :
             PppoeSetIpv6(i, p, add) \/ PppoeSetPrefix(i, p, add)
        /\ UNCHANGED <<l2tpVars, bridges>>
     \/ \E i \in Ifs, x \in Slots \cup {NULL} : Bridge(i, x)
  /\ UNCHANGED ipoeVars

L2tp ==
  /\ "l2tp" \in plugins
  /\ \/ \E t \in TunnelKeys : TunnelAdd(t) \/ TunnelDel(t)
     \/ \E t \in TunnelKeys, id \in SessionIds :
          \/ \E v \in Vrfs : L2tpAddIp(t, id, v)
          \/ \E i \in Ifs : (careful => pppoeOf[i] # 0) /\ L2tpAddRaw(t, id, i)
          \/ (careful => \A b \in bridges : b[2] # <<t, id>>) /\ L2tpDel(t, id)
     \/ \E i \in Ifs, p \in Prefixes, add \in BOOLEAN :
          L2tpSetIpv4(i, p, add) \/ L2tpSetIpv6(i, p, add) \/ L2tpSetPrefix(i, p, add)
  /\ UNCHANGED <<ipoeVars, pppoeVars, bridges>>

CreateEncap(e) == EncapCreate(e) /\ UNCHANGED <<ipoeVars, pppoeVars, l2tpVars, bridges>>

DeleteEncap(e) ==
  /\ careful => /\ \A x \in Live(ipoes) : ipoes[x].key.encap # e
                /\ \A x \in Live(pppoes) : pppoes[x].encap # e
  /\ EncapDelete(e)
  /\ UNCHANGED <<ipoeVars, pppoeVars, l2tpVars, bridges>>

Next ==
  \/ Ipoe \/ Pppoe \/ L2tp
  \/ \E e \in Encaps : CreateEncap(e) \/ DeleteEncap(e)

Spec == Init /\ [][Next]_vars
-----------------------------------------------------------------------------
\* The state has its shape.
TypeOK ==
  /\ encaps \subseteq Encaps /\ ipoeOn \subseteq Encaps
  /\ kind \in [Ifs -> Plugins \cup {"none"}]
  /\ parent \in [Ifs -> Ifs \cup Encaps]
  /\ vrf \in [Ifs -> Vrfs]
  /\ routes \subseteq [src : Plugins, vrf : Vrfs, kind : Kinds, prefix : Prefixes, via : Ifs]
  /\ careful \in BOOLEAN /\ plugins \subseteq Plugins /\ limit \in [routes : Nat, encaps : Nat]
  /\ ipoes \in [Slots -> IpoeSessions \cup {NULL}]
  /\ pppoes \in [Slots -> PppoeSessions \cup {NULL}]
  /\ l2tps \in [Slots -> L2tpSessions \cup {NULL}]
  /\ tunnels \in [TunnelSlots -> Tunnels \cup {NULL}]
  /\ ipoeTable \in [IpoeKeys -> Slots \cup {0}]
  /\ pppoeTable \in [PppoeKeys -> Slots \cup {0}]
  /\ l2tpTable \in [TunnelKeys \X SessionIds -> Slots \cup {0}]
  /\ tunnelTable \in [TunnelKeys -> TunnelSlots \cup {0}]
  /\ \A of \in {ipoeOf, pppoeOf, l2tpOf} : of \in [Ifs -> Slots \cup {0}]
  /\ \A parked \in {pppoeParked, l2tpParked} : parked \in Seq(Ifs)
  /\ lacCount \in Nat
  /\ bridges \subseteq PppoeKeys \X (TunnelKeys \X SessionIds)

\* One plugin's books: the key of a live session leads to it and so does its
\* interface, nothing else does, and the interface is the plugin's; a parked
\* interface is the plugin's too, parked once, and leads to no session.
Resolves(src, pool, table, of, parked) ==
  LET onIf == {x \in Live(pool) : pool[x].sw # 0}
  IN /\ \A x \in Live(pool) : table[pool[x].key] = x
     /\ \A k \in DOMAIN table : table[k] # 0 => pool[table[k]] # NULL /\ pool[table[k]].key = k
     /\ \A x \in onIf : of[pool[x].sw] = x /\ kind[pool[x].sw] = src
     /\ \A i \in Ifs : of[i] # 0 => of[i] \in onIf /\ pool[of[i]].sw = i
     /\ \A i \in Ifs : kind[i] = src /\ of[i] = 0 <=> \E n \in DOMAIN parked : parked[n] = i
     /\ \A m, n \in DOMAIN parked : m # n => parked[m] # parked[n]

\* A tunnel counts the sessions that use it and is not freed under them, so
\* the index a session keeps always leads to its tunnel.
TunnelsResolve ==
  /\ \A x \in Live(l2tps) : LET y == l2tps[x].tunnel
                            IN tunnels[y] # NULL /\ tunnels[y].key = l2tps[x].key[1]
  /\ \A t \in TunnelKeys : tunnelTable[t] # 0 =>
       LET y == tunnelTable[t]
       IN /\ tunnels[y] # NULL /\ tunnels[y].key = t
          /\ tunnels[y].refs = Cardinality({x \in Live(l2tps) : l2tps[x].tunnel = y})

\* Session by key, session by interface and the interfaces kept for the next
\* session agree, in each plugin and between them, whatever the client sends:
\* no two sessions get one interface, no lookup reaches a freed slot, and a
\* session's tunnel outlives it (osvbng_ipoe.c:212, osvbng_pppoe.c:515,
\* l2tpv2_session.c:70 and 248).
SessionsResolve ==
  /\ TypeOK
  /\ Resolves("ipoe", ipoes, ipoeTable, ipoeOf, <<>>)
  /\ Resolves("pppoe", pppoes, pppoeTable, pppoeOf, pppoeParked)
  /\ Resolves("l2tp", l2tps, l2tpTable, l2tpOf, l2tpParked)
  /\ TunnelsResolve

AllPaths ==
  UNION ({PathsOf("ipoe", ipoes[x]) : x \in Live(ipoes)}
         \cup {PathsOf("pppoe", pppoes[x]) : x \in Live(pppoes)}
         \cup {PathsOf("l2tp", l2tps[x]) : x \in Live(l2tps)})

\* A leased prefix is routed through its session's interface as long as the
\* lease lasts, whatever is done to other sessions; and with a careful client
\* nothing else is, so that the subscriber who gets a recycled interface gets
\* no one else's traffic (osvbng_pppoe.c:541, l2tpv2_session.c:258).
RoutesOwned ==
  /\ AllPaths \subseteq routes
  /\ careful => routes = AllPaths

\* The bridge of a careful client carries frames both ways between the two
\* subscribers' sessions it joined, and no other session's, although each side
\* holds an index that the other side may free; and lac_session_count is the
\* number of bridged sessions, for any client (osvbng_pppoe.c:956,
\* l2tpv2_session.c:258).
BridgeBothWays ==
  /\ lacCount = Cardinality({x \in Live(pppoes) : pppoes[x].lac # NULL})
  /\ \A b \in bridges, ip \in BOOLEAN :
       LET out == PppoeInput(b[1], ip)
           in == L2tpInput(b[2], ip)
       IN /\ out.to = "l2tp" /\ EncapRaw(out.at) = b[2]
          /\ in.to = "raw" /\ LacTx(in.at) = b[1]
  /\ careful => \A k \in PppoeKeys : PppoeInput(k, TRUE).to = "l2tp" => \E b \in bridges : b[1] = k

\* A recycled interface has its new session's VRF and parent and nothing of
\* the old one's, and with a careful client no interface has a parent that is
\* gone (osvbng_pppoe.c:541).
InterfacesFresh ==
  /\ \A x \in Live(ipoes) :
       vrf[ipoes[x].sw] = ipoes[x].vrf /\ parent[ipoes[x].sw] = ipoes[x].key.encap
  /\ \A x \in Live(pppoes) :
       vrf[pppoes[x].sw] = pppoes[x].vrf /\ parent[pppoes[x].sw] = pppoes[x].encap
  /\ careful => \A i \in Ifs : parent[i] \in encaps \cup {i}

\* What a subscriber answers, with the tags its session sends, is received on
\* the session's interface, and on an enabled interface only the session of an
\* S-VLAN without a C-VLAN never hears its subscriber: the lookup takes the
\* only tag of a frame for a C-VLAN (osvbng_ipoe_input.c:52).
AnswersFound ==
  \A x \in Live(ipoes) :
    LET s == ipoes[x]
        r == IpoeBuildRewrite(s.sw)
    IN s.key.encap \in ipoeOn =>
         (IpoeInput(r.encap, r.tags, r.mac, FALSE) = s.sw
            <=> s.outer = 0 \/ s.key.inner # 0)
=============================================================================
