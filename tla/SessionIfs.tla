----------------------------- MODULE SessionIfs -----------------------------
(***************************************************************************)
(* What the session plugins (IPoE, PPPoE, L2TPv2) share: VPP's interfaces  *)
(* and its FIB as they use them (external), and the shape of a session's   *)
(* leases.  Each session that terminates IP has an interface; the FIB      *)
(* sends what is for the subscriber through it.  API handlers run on the   *)
(* main thread under the worker barrier, so a call is one step.  A VRF has *)
(* an IPv4 and an IPv6 table; prefixes are data, and those of the three    *)
(* kinds of lease are different.                                           *)
(***************************************************************************)
EXTENDS Integers, FiniteSets, Sequences, FiniteSetsExt

CONSTANTS
  MaxIfs,      \* bound: indices of session interfaces
  Encaps,      \* interfaces that subscribers are behind
  Vrfs,        \* VRFs, each with both tables
  DefaultVrf,  \* the VRF of a new interface
  Prefixes,    \* addresses and prefixes leased to subscribers
  MaxSessions, \* bound: sessions of one plugin
  NULL         \* no prefix, no session

ASSUME SessionIfsAssumption ==
  /\ MaxIfs \in Nat /\ MaxSessions \in Nat
  /\ IsFiniteSet(Encaps) /\ IsFiniteSet(Prefixes)
  /\ Encaps \cap (1..MaxIfs) = {}
  /\ DefaultVrf \in Vrfs
  /\ NULL \notin Prefixes /\ NULL \notin Nat

Ifs == 1..MaxIfs
Slots == 1..MaxSessions
Kinds == {"v4", "v6", "pd"}
Plugins == {"ipoe", "pppoe", "l2tp"}
Leases == [Kinds -> Prefixes \cup {NULL}]

VARIABLES
  encaps,   \* the interfaces of Encaps that exist
  kind,     \* the plugin that registered a session interface, or "none"
  parent,   \* sup_sw_if_index of each session interface
  vrf,      \* the VRF each is bound to
  routes,   \* FIB paths: source, VRF, kind, prefix and interface
  careful,  \* whether the client is careful, the same throughout
  plugins,  \* the plugins VPP loaded, the same throughout
  limit     \* bounds: FIB paths and encapsulating interfaces at a time

ifVars == <<encaps, kind, parent, vrf, routes, careful, plugins, limit>>
-----------------------------------------------------------------------------
\* The interface of a new session: the one parked last, or else a new one
\* (vnet_register_interface).
FreshIfs == {i \in Ifs : kind[i] = "none"}
CanTakeIf(parked) == parked # <<>> \/ FreshIfs # {}
TakenIf(parked) == IF parked # <<>> THEN parked[Len(parked)] ELSE Min(FreshIfs)
Unparked(parked) == SubSeq(parked, 1, Len(parked) - 1)

EncapCreate(e) ==
  /\ e \in Encaps \ encaps
  /\ Cardinality(encaps) < limit.encaps
  /\ encaps' = encaps \cup {e}
  /\ UNCHANGED <<kind, parent, vrf, routes, careful, plugins, limit>>

EncapDelete(e) ==
  /\ e \in encaps
  /\ encaps' = encaps \ {e}
  /\ UNCHANGED <<kind, parent, vrf, routes, careful, plugins, limit>>
-----------------------------------------------------------------------------
NoLease == [k \in Kinds |-> NULL]

\* A FIB path of session s of plugin src, through its interface.
Path(src, s, k, p) ==
  [src |-> src, vrf |-> s.vrf, kind |-> k, prefix |-> p, via |-> s.sw]

\* What the leases of s stand for.
PathsOf(src, s) == {Path(src, s, k, s.lease[k]) : k \in {j \in Kinds : s.lease[j] # NULL}}

\* To lease prefix p to s: nothing if it is leased already, else the old
\* path goes and the new one comes.
LeaseAdd(src, s, k, p) ==
  /\ s.lease[k] # p
  /\ routes' = (routes \ {Path(src, s, k, s.lease[k])}) \cup {Path(src, s, k, p)}
  /\ Cardinality(routes') <= limit.routes

\* To withdraw p: nothing if s has no lease of that kind, else the path of
\* the prefix in the message goes, whichever is leased, and s has no lease.
LeaseDel(src, s, k, p) ==
  /\ s.lease[k] # NULL
  /\ careful => p = s.lease[k]
  /\ routes' = routes \ {Path(src, s, k, p)}

\* The sessions of a pool, and the element pool_get gives.
Live(pool) == {x \in Slots : pool[x] # NULL}
CanGet(pool) == Live(pool) # Slots
PoolGet(pool) == Min(Slots \ Live(pool))
=============================================================================
