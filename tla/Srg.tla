-------------------------------- MODULE Srg --------------------------------
(***************************************************************************)
(* Subscriber redundancy groups (plugins/osvbng_srg).  While a group is    *)
(* active its virtual MAC is on the hardware interface of each of its      *)
(* members; groups may share a MAC and an interface, so a count is kept    *)
(* per hardware interface and MAC.  The driver may refuse a MAC.  Every    *)
(* operation runs on the main thread under the worker barrier.             *)
(*                                                                         *)
(* srg_by_name keeps a pointer to the name inside the group's pool element *)
(* as its key.  When the pool grows it may move, and the keys of the       *)
(* groups that are there point into freed memory, which may hold the name  *)
(* still, another one, or none: any lookup may find such an entry, and any *)
(* may miss it, the lookup by which a delete removes the entry included.   *)
(* What is missed stays and leads to an element that is free, or another   *)
(* group's; deleting by it puts a free element back into the pool again.   *)
(***************************************************************************)
EXTENDS Interfaces, Sequences

CONSTANTS
  Names,      \* group names
  MaxSrgs,    \* bound: elements of the group pool
  MaxMembers, \* bound: interfaces of one add message
  MaxMacRefs, \* bound: the largest count of one MAC on one interface
  MaxPuts     \* bound: how often an element is put back before it is taken

ASSUME SrgAssumption ==
  MaxSrgs \in Nat /\ MaxMembers \in Nat /\ MaxMacRefs \in Nat /\ MaxPuts \in Nat

VARIABLES
  srgs,       \* the pool: groups by index, free elements as they were left
  vacant,     \* how often each element is on the pool's list of free ones
  byName,     \* srg_by_name, 0 when the name has no entry
  stale,      \* where its entries lead whose key is no longer their name
  ifToSrg,    \* if_to_srg, 0 when unmapped
  macRefs,    \* hw_mac_refcount; 0 is no entry
  refusals,   \* whether the driver ever refuses, the same throughout
  moves       \* whether the pool ever moves when it grows, the same throughout

srgVars == <<srgs, vacant, byName, stale, ifToSrg, macRefs, refusals, moves>>

Slots == 1..Len(srgs)
LiveSrg(s) == vacant[s] = 0
MemberLists == UNION {[1..n -> Ifaces] : n \in 0..MaxMembers}
SrgRecord == [name : Names, mac : Macs, members : MemberLists, active : BOOLEAN]

SrgInit ==
  /\ srgs = <<>>
  /\ byName = [n \in Names |-> 0]
  /\ vacant = [s \in 1..MaxSrgs |-> 0]
  /\ stale = {}
  /\ ifToSrg = [i \in Ifaces |-> 0]
  /\ macRefs = [k \in Ifaces \X Macs |-> 0]
  /\ refusals \in BOOLEAN /\ moves \in BOOLEAN
-----------------------------------------------------------------------------
\* hash_get_mem (srg_by_name, name): the indices the lookup may give, 0 for
\* not found.
Find(n) == {byName[n]} \cup stale

\* One of the entries S that leads to t is gone: it was the only one, or not.
OneLess(S, t) == {S \ {t}, S}

\* hash_unset_mem (srg_by_name, name): the entry the lookup finds, if any.
UnsetName(n) ==
  \/ byName' = [byName EXCEPT ![n] = 0] /\ UNCHANGED stale
  \/ byName' = byName /\ \E t \in stale : stale' \in OneLess(stale, t)

\* hash_set_mem (srg_by_name, name, s), the keys in the elements of lost no
\* longer being what they were set as: a new entry, or a stale one that is
\* found and now leads to s.
SetName(n, s, lost) ==
  LET kept == [x \in Names |-> IF byName[x] \in lost THEN 0 ELSE byName[x]]
      out == stale \cup ({byName[x] : x \in Names} \cap lost)
  IN \/ byName' = [kept EXCEPT ![n] = s] /\ stale' = out
     \/ byName' = kept /\ \E t \in out : \E left \in OneLess(out, t) : stale' = left \cup {s}

\* pool_get_zero: an element of the free list, whatever is there, or one
\* more, which may move the pool.  The name is keyed where it is then.
SrgPut(s, g) ==
  \/ /\ s \in Slots /\ vacant[s] > 0
     /\ srgs' = [srgs EXCEPT ![s] = g]
     /\ vacant' = [vacant EXCEPT ![s] = @ - 1]
     /\ SetName(g.name, s, {s})
  \/ /\ \A f \in Slots : vacant[f] = 0
     /\ s = Len(srgs) + 1 /\ s <= MaxSrgs
     /\ srgs' = Append(srgs, g)
     /\ \E lost \in {{}} \cup IF moves THEN {Slots} ELSE {} : SetName(g.name, s, lost)
     /\ UNCHANGED vacant

\* osvbng_srg_add_del (name, mac, interfaces, 1).  The interfaces are checked
\* before the first is assigned: one may be listed twice.
SrgAdd(n, m, list) ==
  /\ 0 \in Find(n)
  /\ \A p \in DOMAIN list : list[p] \in exists /\ ifToSrg[list[p]] = 0
  /\ \E s \in 1..MaxSrgs :
       /\ SrgPut(s, [name |-> n, mac |-> m, members |-> list, active |-> FALSE])
       /\ ifToSrg' = [i \in Ifaces |->
                       IF \E p \in DOMAIN list : list[p] = i THEN s ELSE ifToSrg[i]]
  /\ UNCHANGED <<macRefs, refusals, moves, ifVars>>

\* The members a state change comes to on key k, by position.
Positions(g, k) ==
  {p \in DOMAIN g.members : LET i == g.members[p] IN
                            i \in exists /\ <<sup[i], g.mac>> = k}
Upto(P, p) == Cardinality({q \in P : q <= p})

\* The count after activation: a member whose MAC the driver refuses is
\* passed over, and the next one on that interface tries again.
Raised(g, k, bad) ==
  LET P == Positions(g, k)
  IN macRefs[k] + Cardinality({p \in P : \/ macRefs[k] > 0
                                         \/ \E q \in P : q <= p /\ q \notin bad})

\* Mutant: the MAC goes with the first member that leaves.
Lowered_NoCount(g, k, bad) ==
  LET P == Positions(g, k)
  IN IF P \subseteq bad THEN macRefs[k] ELSE 0

\* The count after deactivation: the last reference goes only if the driver
\* removes the MAC; a refusal leaves it for the next member.
Lowered(g, k, bad) ==
  LET P == Positions(g, k)
      r == macRefs[k]
      tried == {p \in P : Upto(P, p) >= r}
  IN IF Cardinality(P) < r THEN r - Cardinality(P)
     ELSE IF r > 0 /\ tried \subseteq bad THEN 1 ELSE 0

\* vnet_hw_interface_add_del_mac_address on the 0 to 1 and 1 to 0 edges; an
\* interface that is gone has none.
MacTable ==
  {k \in Ifaces \X Macs : IF macRefs'[k] = macRefs[k] THEN k \in macs
                          ELSE IF macRefs[k] = 0 THEN TRUE
                          ELSE macRefs'[k] > 0 /\ k \in macs}

\* Mutant: the count goes although the driver keeps the MAC.
SwitchMembers_DropsRefused(s, a) ==
  LET g == srgs[s] IN
  /\ macRefs' = [k \in Ifaces \X Macs |->
                  IF a THEN Raised(g, k, {}) ELSE Lowered(g, k, {})]
  /\ macs' \in {MacTable} \cup IF refusals /\ ~a THEN {MacTable \cup macs} ELSE {}
  /\ UNCHANGED <<exists, sup, fibOf, outNode, feature, careful>>

\* The loop of osvbng_srg_set_state over the members of group s; the driver
\* refuses the calls made for the positions in bad.
SwitchMembers(s, a) ==
  LET g == srgs[s] IN
  /\ \E bad \in SUBSET (DOMAIN g.members) :
       /\ refusals \/ bad = {}
       /\ macRefs' = [k \in Ifaces \X Macs |->
                       IF a THEN Raised(g, k, bad) ELSE Lowered(g, k, bad)]
  /\ macs' = MacTable
  /\ UNCHANGED <<exists, sup, fibOf, outNode, feature, careful>>

\* osvbng_srg_set_state: nothing if the group is not found or is in that
\* state already; the state is set whatever the driver did.
SrgSetState(n, a) ==
  \E s \in Find(n) \ {0} :
    /\ srgs[s].active # a
    /\ SwitchMembers(s, a)
    /\ \A k \in DOMAIN macRefs' : macRefs'[k] <= MaxMacRefs
    /\ srgs' = [srgs EXCEPT ![s].active = a]
    /\ UNCHANGED <<vacant, byName, stale, ifToSrg, refusals, moves>>

\* A delete of what was found as s but for if_to_srg: if it is active, a
\* second lookup of its name says which group goes to standby; the name is
\* removed, the list of members freed and the element put back.
Retire(n, s) ==
  /\ vacant[s] < MaxPuts
  /\ \/ \E t \in Find(n) \ {0} :
          /\ srgs[s].active /\ srgs[t].active
          /\ SwitchMembers(t, FALSE)
          /\ srgs' = [srgs EXCEPT ![t].active = FALSE, ![s].members = <<>>]
     \/ /\ \/ ~srgs[s].active \/ 0 \in Find(n)
           \/ \E t \in Find(n) \ {0} : ~srgs[t].active
        /\ srgs' = [srgs EXCEPT ![s].members = <<>>]
        /\ UNCHANGED <<macRefs, ifVars>>
  /\ UnsetName(srgs[s].name)
  /\ vacant' = [vacant EXCEPT ![s] = @ + 1]
  /\ UNCHANGED <<refusals, moves>>

\* Mutant: the members stay assigned.
SrgDel_KeepsMembers(n) == \E s \in Find(n) \ {0} : Retire(n, s) /\ UNCHANGED ifToSrg

\* osvbng_srg_add_del (name, ..., 0)
SrgDel(n) ==
  \E s \in Find(n) \ {0} :
    /\ Retire(n, s)
    /\ ifToSrg' = [i \in Ifaces |->
                    IF \E p \in DOMAIN srgs[s].members : srgs[s].members[p] = i
                    THEN 0 ELSE ifToSrg[i]]

SrgNext ==
  \E n \in Names :
    \/ \E m \in Macs, list \in MemberLists : SrgAdd(n, m, list)
    \/ \E a \in BOOLEAN : SrgSetState(n, a)
    \/ SrgDel(n)

\* A careful client deletes an interface that is in no group and has no MAC
\* of one left: one that the driver refused to remove stays counted.
SrgUnused(i) == ifToSrg[i] = 0 /\ \A m \in Macs : macRefs[<<i, m>>] = 0
-----------------------------------------------------------------------------
SrgTypeOK ==
  /\ srgs \in Seq(SrgRecord)
  /\ Len(srgs) <= MaxSrgs
  /\ vacant \in [1..MaxSrgs -> Nat]
  /\ byName \in [Names -> 0..Len(srgs)]
  /\ stale \subseteq Slots
  /\ ifToSrg \in [Ifaces -> 0..Len(srgs)]
  /\ macRefs \in [Ifaces \X Macs -> Nat]
  /\ refusals \in BOOLEAN /\ moves \in BOOLEAN

\* The keys the active groups' members are on.
Wanted == {k \in Ifaces \X Macs :
             \E s \in Slots : srgs[s].active /\ Positions(srgs[s], k) # {}}

\* For a careful client, a driver that obeys and a pool that stays where it is,
\* a virtual MAC is on a hardware interface exactly while an active group has a
\* member there, whatever other groups with the same MAC or interface did
\* before.
VmacWhileActive == careful /\ ~refusals /\ ~moves => macs = Wanted

\* Whatever the driver refuses and whichever groups the lookups lead to,
\* hw_mac_refcount has an entry exactly for the MACs that are programmed: else
\* a MAC would never be added, or removed, again.  While the pool stays where
\* it is, for any client, if_to_srg and the groups' lists of members say the
\* same, so an interface is in one group at most and free after it; and a name
\* has an entry exactly while there is a group of that name, and leads to it.
SrgBooksAgree ==
  /\ SrgTypeOK
  /\ careful => macs = {k \in Ifaces \X Macs : macRefs[k] > 0}
  /\ ~moves => \A s \in Slots :
       /\ \A i \in Ifaces :
            ifToSrg[i] = s <=> \E p \in DOMAIN srgs[s].members : srgs[s].members[p] = i
       /\ \A n \in Names : byName[n] = s <=> LiveSrg(s) /\ srgs[s].name = n
=============================================================================
