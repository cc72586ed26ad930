---------------------------- MODULE AccessProofs ----------------------------
(***************************************************************************)
(* Proofs about Access: for every set of interfaces, tables, protocols,    *)
(* groups and workers, whichever plugins are used together and whatever    *)
(* the client does.                                                        *)
(***************************************************************************)
EXTENDS Access, FiniteSums

\* What a headend is left with.  The output node of a careful client's
\* headend is its own while it is bound, with the device's saved, and the
\* device's while it is not; only hardware interfaces are bound, and an index
\* without an interface has the node a new interface starts with.
HeadendNodes ==
  careful => \A h \in Ifaces :
    /\ tunnelOf[h] # Unbound =>
         IsHw(h) /\ outNode[h] = h /\ savedNode[h] = OwnNode
    /\ tunnelOf[h] = Unbound /\ (IsHw(h) \/ h \notin exists) =>
         outNode[h] = OwnNode

\* The two tables are one matching of interfaces that exist.
Matching ==
  \A i \in Ifaces :
    /\ headendOf[i] # Unbound => tunnelOf[headendOf[i]] = i /\ i \in exists
    /\ tunnelOf[i] # Unbound => headendOf[tunnelOf[i]] = i /\ i \in exists

\* While the pool stays where it is: no key is stale, an element is put back
\* once, as no group's, and the lists of the groups agree with if_to_srg and
\* the names of those in use with srg_by_name.
SrgShape ==
  ~moves =>
    /\ stale = {}
    /\ \A s \in 1..MaxSrgs :
         vacant[s] # 0 => vacant[s] = 1 /\ s \in Slots /\ srgs[s].members = <<>>
    /\ \A s \in Slots :
         /\ \A i \in Ifaces :
              ifToSrg[i] = s <=> \E p \in DOMAIN srgs[s].members : srgs[s].members[p] = i
         /\ \A n \in Names : byName[n] = s <=> LiveSrg(s) /\ srgs[s].name = n

\* hw_mac_refcount has an entry for exactly the MACs that are programmed.
MacsCounted == careful => macs = {k \in Ifaces \X Macs : macRefs[k] > 0}

\* An entry of the gateway's pool.
EntryRecord ==
  [rx : Keys, tx : Keys, on : BOOLEAN, access : BOOLEAN, peer : EntryIds,
   circuit : EntryIds] \cup {NoEntry}

\* An entry and its peer are the two directions of one circuit, and the key
\* of an entry leads to it, or to its peer when both have the same key.
Paired(e) ==
  LET p == entries[e].peer IN
  /\ entries[p] # NoEntry /\ entries[p].peer = e
  /\ entries[p].rx = entries[e].tx /\ entries[p].tx = entries[e].rx
  /\ entries[p].on = entries[e].on /\ entries[p].access # entries[e].access
  /\ entries[p].circuit = entries[e].circuit
  /\ circuits[entries[e].rx] \in {e, p}
  /\ entries[e].tx # entries[e].rx => circuits[entries[e].rx] = e

EntriesPaired ==
  /\ entries \in [EntryIds -> EntryRecord]
  /\ \A k \in Keys : circuits[k] # 0 => entries[circuits[k]].rx = k
  /\ \A e \in EntryIds : entries[e] # NoEntry => Paired(e)
  /\ careful => \A e \in EntryIds : entries[e] # NoEntry => entries[e].tx[1] \in exists

\* What is counted: the members of active groups that are on the key.
Holders(k) ==
  {x \in Slots \X (1..MaxMembers) :
     srgs[x[1]].active /\ x[2] \in Positions(srgs[x[1]], k)}

\* A careful client's groups have members that exist, as far as if_to_srg is
\* right about what an interface is used for.
MembersExist ==
  careful /\ ~moves => \A s \in Slots : \A p \in DOMAIN srgs[s].members : srgs[s].members[p] \in exists

\* Where nothing goes wrong the count of a MAC is the number of its holders.
RefsExact ==
  careful /\ ~refusals /\ ~moves =>
    \A k \in Ifaces \X Macs : macRefs[k] = Cardinality(Holders(k))

\* The workers between the search for a tuple and the write.
Checking(k) == {w \in Workers : checking[w] = k}

\* The punts of a tuple that are younger than the interval are those of the
\* tick of the last of them: the workers that made one in this tick and those
\* that still will are different workers, and a worker that is about to
\* searched before any of them wrote, or in the tick they did.
Dampened(k) ==
  /\ punts[k] \in [0..(Interval - 1) -> Nat]
  /\ \A a \in 0..(Interval - 1) :
       punts[k][a] # 0 => a = lastPunt[k] /\ punts[k][a] <= Cardinality(Workers)
  /\ punts[k][0] + Cardinality(Checking(k)) <= Cardinality(Workers)
  /\ Checking(k) # {} => lastPunt[k] \in {0, Interval}

AllDampened ==
  /\ punts \in [FrameKeys -> [0..(Interval - 1) -> Nat]]
  /\ \A k \in FrameKeys : Dampened(k)

Inv ==
  /\ IfTypeOK /\ PuntTypeOK /\ SrgTypeOK /\ L2gwTypeOK /\ PwTypeOK
  /\ HeadendNodes /\ Matching
  /\ Receivable
  /\ SrgShape /\ MacsCounted /\ MembersExist /\ RefsExact
  /\ PortStateFresh
  /\ EntriesPaired
  /\ AllDampened
-----------------------------------------------------------------------------
(* What the steps of each plugin leave alone.                              *)

LEMMA PuntFrame == PuntNext => UNCHANGED ifVars
  BY DEF PuntNext, ApiEnable, ApiDisable, CliEnableDisable

LEMMA SrgFrame == SrgNext => UNCHANGED <<exists, sup, fibOf, outNode, feature, careful>>
  BY DEF SrgNext, SrgAdd, SrgSetState, SrgDel, Retire, SwitchMembers, ifVars

LEMMA L2gwFrame == L2gwNext => UNCHANGED <<exists, sup, fibOf, outNode, macs, careful>>
<1> DEFINE Frame == UNCHANGED <<exists, sup, fibOf, outNode, macs, careful>>
<1>1. ASSUME NEW a \in Keys,
             CircuitDel(a) \/ \E h \in Keys, on \in BOOLEAN : CircuitAdd(a, h, on)
      PROVE  Frame
  BY <1>1 DEF CircuitDel, CircuitAdd, ifVars
<1>2. ASSUME NEW on \in BOOLEAN,
             CircuitSetAll(on) \/ \E c \in EntryIds : CircuitSetState(c, on)
      PROVE  Frame
  BY <1>2 DEF CircuitSetAll, CircuitSetState, ifVars
<1>3. ASSUME NEW i \in Ifaces, NEW on \in BOOLEAN, L2gwEnableDisable(i, on)
      PROVE  Frame
  BY <1>3 DEF L2gwEnableDisable
<1>4. ASSUME NEW i \in Ifaces, NEW lo \in Svlans, NEW hi \in Svlans,
             NEW any \in BOOLEAN, NEW add \in BOOLEAN, TriggerRange(i, lo, hi, any, add)
      PROVE  Frame
  BY <1>4 DEF TriggerRange, ifVars
<1>5. ASSUME L2gwTick \/ \E w \in Workers : DampenStore(w) \/ \E k \in FrameKeys : DampenSearch(w, k)
      PROVE  Frame
  BY <1>5 DEF L2gwTick, DampenStore, DampenSearch, ifVars
<1> HIDE DEF Frame
<1>6. L2gwNext => Frame
  BY <1>1, <1>2, <1>3, <1>4, <1>5 DEF L2gwNext
<1> QED BY <1>6 DEF Frame

\* Only vnet_l2gw_enable_disable touches the feature and the bit.
LEMMA FeatureFrame ==
  ASSUME L2gwNext
  PROVE  \/ UNCHANGED <<feature, l2gwOn>>
         \/ \E i \in Ifaces, on \in BOOLEAN : L2gwEnableDisable(i, on)
<1>1. ASSUME NEW a \in Keys,
             CircuitDel(a) \/ \E h \in Keys, on \in BOOLEAN : CircuitAdd(a, h, on)
      PROVE  UNCHANGED <<feature, l2gwOn>>
  BY <1>1 DEF CircuitDel, CircuitAdd, ifVars
<1>2. ASSUME NEW on \in BOOLEAN,
             CircuitSetAll(on) \/ \E c \in EntryIds : CircuitSetState(c, on)
      PROVE  UNCHANGED <<feature, l2gwOn>>
  BY <1>2 DEF CircuitSetAll, CircuitSetState, ifVars
<1>3. ASSUME NEW i \in Ifaces, NEW lo \in Svlans, NEW hi \in Svlans,
             NEW any \in BOOLEAN, NEW add \in BOOLEAN, TriggerRange(i, lo, hi, any, add)
      PROVE  UNCHANGED <<feature, l2gwOn>>
  BY <1>3 DEF TriggerRange, ifVars
<1>4. ASSUME L2gwTick \/ \E w \in Workers : DampenStore(w) \/ \E k \in FrameKeys : DampenSearch(w, k)
      PROVE  UNCHANGED <<feature, l2gwOn>>
  BY <1>4 DEF L2gwTick, DampenStore, DampenSearch, ifVars, tables
<1> QED BY <1>1, <1>2, <1>3, <1>4 DEF L2gwNext

LEMMA PwFrame == PwNext => UNCHANGED <<exists, sup, fibOf, macs, feature, careful>>
  BY DEF PwNext, PwBind, PwUnbind

\* Every step, seen from the interface table: a plugin's, or VPP's own.
LEMMA StepCases ==
  ASSUME Next
  PROVE  \/ Punt \/ Policer \/ Groups \/ Gateway \/ Headends
         \/ \E i, h \in Ifaces : CreateInterface(i, h)
         \/ \E i \in Ifaces : DeleteInterface(i)
         \/ \E i \in Ifaces, f \in Fibs : MoveFib(i, f)
  BY DEF Next
-----------------------------------------------------------------------------
(* Headends.                                                               *)

\* A bind of hardware interfaces, an unbind and a deletion keep the matching
\* and the nodes.
LEMMA BindStep ==
  ASSUME IfTypeOK, PwTypeOK, HeadendNodes, Matching,
         NEW t \in Ifaces, NEW h \in Ifaces, PwBind(t, h)
  PROVE  outNode' \in [Ifaces -> Ifaces \cup {OwnNode}]
         /\ PwTypeOK' /\ HeadendNodes' /\ Matching'
<1>1. /\ t \in exists /\ h \in exists /\ (careful => IsHw(h))
      /\ headendOf[t] = Unbound /\ tunnelOf[h] = Unbound
      /\ savedNode' = [savedNode EXCEPT ![h] = outNode[sup[h]]]
      /\ outNode' = [outNode EXCEPT ![sup[h]] = h]
      /\ headendOf' = [headendOf EXCEPT ![t] = h]
      /\ tunnelOf' = [tunnelOf EXCEPT ![h] = t]
      /\ UNCHANGED <<exists, sup, careful>>
  BY DEF PwBind
<1>2. sup[h] \in Ifaces /\ outNode[sup[h]] \in Ifaces \cup {OwnNode}
  BY DEF IfTypeOK
<1>3. PwTypeOK'
  BY <1>1, <1>2 DEF PwTypeOK
<1>4. outNode' \in [Ifaces -> Ifaces \cup {OwnNode}]
  BY <1>1, <1>2 DEF IfTypeOK
<1>5. 0 \notin Ifaces
  BY InterfacesAssumption
<1>6. Matching'
  BY <1>1, <1>5 DEF Matching, PwTypeOK, Unbound
<1>7. ASSUME careful PROVE HeadendNodes'
  <2>1. IsHw(h) /\ sup[h] = h /\ outNode[h] = OwnNode
    BY <1>1, <1>7 DEF HeadendNodes, IsHw
  <2>2. savedNode' = [savedNode EXCEPT ![h] = OwnNode] /\ outNode' = [outNode EXCEPT ![h] = h]
    BY <1>1, <2>1
  <2>3. \A g \in Ifaces : IsHw(g)' <=> IsHw(g)
    BY <1>1 DEF IsHw
  <2>4. ASSUME NEW g \in Ifaces, g # h
        PROVE  tunnelOf'[g] = tunnelOf[g] /\ outNode'[g] = outNode[g] /\ savedNode'[g] = savedNode[g]
    BY <1>1, <2>2, <2>4 DEF PwTypeOK, IfTypeOK
  <2>5. tunnelOf'[h] = t /\ outNode'[h] = h /\ savedNode'[h] = OwnNode /\ t # Unbound
    BY <1>1, <1>5, <2>2 DEF PwTypeOK, IfTypeOK, Unbound
  <2> QED
    BY <1>1, <1>7, <2>1, <2>3, <2>4, <2>5 DEF HeadendNodes
<1>8. HeadendNodes'
  BY <1>1, <1>7 DEF HeadendNodes
<1> QED BY <1>3, <1>4, <1>6, <1>8

LEMMA UnbindStep ==
  ASSUME IfTypeOK, PwTypeOK, HeadendNodes, Matching,
         NEW t \in Ifaces, NEW h \in Ifaces, PwUnbind(t, h)
  PROVE  outNode' \in [Ifaces -> Ifaces \cup {OwnNode}]
         /\ PwTypeOK' /\ HeadendNodes' /\ Matching'
<1>1. /\ t \in exists /\ h \in exists /\ headendOf[t] = h
      /\ outNode' = IF savedNode[h] = NoNode THEN outNode
                    ELSE [outNode EXCEPT ![sup[h]] = savedNode[h]]
      /\ headendOf' = [headendOf EXCEPT ![t] = Unbound]
      /\ tunnelOf' = [tunnelOf EXCEPT ![h] = Unbound]
      /\ savedNode' = [savedNode EXCEPT ![h] = NoNode]
      /\ UNCHANGED <<exists, sup, careful>>
  BY DEF PwUnbind
<1>2. 0 \notin Ifaces
  BY InterfacesAssumption
<1>3. h # Unbound /\ tunnelOf[h] = t /\ t # Unbound
  BY <1>1, <1>2 DEF Matching, Unbound
<1>4. PwTypeOK'
  BY <1>1 DEF PwTypeOK
<1>5. outNode' \in [Ifaces -> Ifaces \cup {OwnNode}]
  BY <1>1 DEF IfTypeOK, PwTypeOK
<1>6. Matching'
  BY <1>1, <1>2, <1>3 DEF Matching, PwTypeOK, Unbound
<1>7. ASSUME careful PROVE HeadendNodes'
  <2>1. IsHw(h) /\ sup[h] = h /\ savedNode[h] = OwnNode
    BY <1>3, <1>7 DEF HeadendNodes, IsHw
  <2>2. OwnNode # NoNode
    BY DEF OwnNode, NoNode
  <2>3. outNode' = [outNode EXCEPT ![h] = OwnNode]
    BY <1>1, <2>1, <2>2
  <2>4. \A g \in Ifaces : IsHw(g)' <=> IsHw(g)
    BY <1>1 DEF IsHw
  <2>5. ASSUME NEW g \in Ifaces, g # h
        PROVE  tunnelOf'[g] = tunnelOf[g] /\ outNode'[g] = outNode[g] /\ savedNode'[g] = savedNode[g]
    BY <1>1, <2>3, <2>5 DEF PwTypeOK, IfTypeOK
  <2>6. tunnelOf'[h] = Unbound /\ outNode'[h] = OwnNode
    BY <1>1, <2>3 DEF PwTypeOK, IfTypeOK
  <2> QED
    BY <1>1, <1>7, <2>1, <2>4, <2>5, <2>6 DEF HeadendNodes
<1>8. HeadendNodes'
  BY <1>1, <1>7 DEF HeadendNodes
<1> QED BY <1>4, <1>5, <1>6, <1>8

LEMMA PwDeleteStep ==
  ASSUME IfTypeOK, PwTypeOK, HeadendNodes, Matching,
         NEW i \in Ifaces, careful => PwUnused(i), IfDelete(i), PwInterfaceDel(i)
  PROVE  PwTypeOK' /\ HeadendNodes' /\ Matching'
<1>1. /\ headendOf' = [t \in Ifaces |->
                    IF t = i \/ tunnelOf[i] = t THEN Unbound ELSE headendOf[t]]
      /\ tunnelOf' = [h \in Ifaces |->
                   IF h = i \/ headendOf[i] = h THEN Unbound ELSE tunnelOf[h]]
      /\ savedNode' = [savedNode EXCEPT ![i] = NoNode]
      /\ exists' = exists \ {i} /\ sup' = [sup EXCEPT ![i] = i]
      /\ outNode' = [outNode EXCEPT ![i] = OwnNode] /\ careful' = careful
  BY DEF PwInterfaceDel, IfDelete
<1>2. 0 \notin Ifaces
  BY InterfacesAssumption
<1>3. PwTypeOK'
  BY <1>1 DEF PwTypeOK
<1>4. Matching'
  <2>1. ASSUME NEW t \in Ifaces, headendOf'[t] # Unbound
        PROVE  tunnelOf'[headendOf'[t]] = t /\ t \in exists'
    <3>1. t # i /\ tunnelOf[i] # t /\ headendOf'[t] = headendOf[t]
      BY <1>1, <2>1
    <3>2. headendOf[t] \in Ifaces /\ tunnelOf[headendOf[t]] = t /\ t \in exists
      BY <2>1, <3>1 DEF Matching, PwTypeOK
    <3>3. headendOf[t] # i
      BY <3>1, <3>2
    <3>4. headendOf[i] # headendOf[t]
      BY <3>1, <3>2, <1>2 DEF Matching, Unbound
    <3> QED BY <1>1, <3>1, <3>2, <3>3, <3>4
  <2>2. ASSUME NEW h \in Ifaces, tunnelOf'[h] # Unbound
        PROVE  headendOf'[tunnelOf'[h]] = h /\ h \in exists'
    <3>1. h # i /\ headendOf[i] # h /\ tunnelOf'[h] = tunnelOf[h]
      BY <1>1, <2>2
    <3>2. tunnelOf[h] \in Ifaces /\ headendOf[tunnelOf[h]] = h /\ h \in exists
      BY <2>2, <3>1 DEF Matching, PwTypeOK
    <3>3. tunnelOf[h] # i
      BY <3>1, <3>2
    <3>4. tunnelOf[i] # tunnelOf[h]
      BY <3>1, <3>2, <1>2 DEF Matching, Unbound
    <3> QED BY <1>1, <3>1, <3>2, <3>3, <3>4
  <2> QED BY <2>1, <2>2 DEF Matching
<1>5. ASSUME careful PROVE HeadendNodes'
  <2>1. headendOf[i] = Unbound /\ tunnelOf[i] = Unbound
    BY <1>5 DEF PwUnused
  <2>2. ASSUME NEW g \in Ifaces, g # i
        PROVE  /\ tunnelOf'[g] = tunnelOf[g] /\ outNode'[g] = outNode[g]
               /\ savedNode'[g] = savedNode[g] /\ sup'[g] = sup[g]
               /\ g \in exists' <=> g \in exists
    BY <1>1, <1>2, <2>1, <2>2 DEF PwTypeOK, IfTypeOK, Unbound
  <2>3. tunnelOf'[i] = Unbound /\ outNode'[i] = OwnNode
    BY <1>1 DEF PwTypeOK, IfTypeOK
  <2> QED
    BY <1>1, <1>5, <2>2, <2>3 DEF HeadendNodes, IsHw
<1>6. HeadendNodes'
  BY <1>1, <1>5 DEF HeadendNodes
<1> QED BY <1>3, <1>4, <1>6

\* A new interface: an index without one is bound to nothing and has the
\* node of its device.
LEMMA PwCreateStep ==
  ASSUME IfTypeOK, PwTypeOK, HeadendNodes, Matching,
         NEW i \in Ifaces, NEW h \in Ifaces, IfCreate(i, h), UNCHANGED pwVars
  PROVE  PwTypeOK' /\ HeadendNodes' /\ Matching'
<1>1. /\ i \notin exists /\ exists' = exists \cup {i} /\ sup' = [sup EXCEPT ![i] = h]
      /\ UNCHANGED <<outNode, careful, headendOf, tunnelOf, savedNode>>
  BY DEF IfCreate, pwVars
<1>2. PwTypeOK' /\ Matching'
  BY <1>1 DEF PwTypeOK, Matching
<1>3. tunnelOf[i] = Unbound
  BY <1>1 DEF Matching
<1>4. \A g \in Ifaces : g # i => (IsHw(g)' <=> IsHw(g))
  BY <1>1 DEF IsHw, IfTypeOK
<1>5. HeadendNodes'
  BY <1>1, <1>3, <1>4 DEF HeadendNodes
<1> QED BY <1>2, <1>5

LEMMA HeadendsStep ==
  ASSUME IfTypeOK, PwTypeOK, HeadendNodes, Matching, Next
  PROVE  PwTypeOK' /\ HeadendNodes' /\ Matching'
<1>1. ASSUME UNCHANGED <<exists, sup, outNode, careful, pwVars>>
      PROVE  PwTypeOK' /\ HeadendNodes' /\ Matching'
  BY <1>1 DEF pwVars, PwTypeOK, HeadendNodes, Matching, IsHw
<1>2. CASE Punt
  BY <1>1, <1>2, PuntFrame DEF Punt, ifVars
<1>3. CASE Policer
  BY <1>1, <1>3 DEF Policer, ifVars
<1>4. CASE Groups
  BY <1>1, <1>4, SrgFrame DEF Groups
<1>5. CASE Gateway
  BY <1>1, <1>5, L2gwFrame DEF Gateway
<1>6. CASE Headends
  BY <1>6, BindStep, UnbindStep DEF Headends, PwNext
<1>7. ASSUME NEW i \in Ifaces, NEW h \in Ifaces, CreateInterface(i, h)
      PROVE  PwTypeOK' /\ HeadendNodes' /\ Matching'
  BY <1>7, PwCreateStep DEF CreateInterface
<1>8. ASSUME NEW i \in Ifaces, DeleteInterface(i)
      PROVE  PwTypeOK' /\ HeadendNodes' /\ Matching'
  BY <1>8, PwDeleteStep DEF DeleteInterface
<1>9. ASSUME NEW i \in Ifaces, NEW f \in Fibs, MoveFib(i, f)
      PROVE  PwTypeOK' /\ HeadendNodes' /\ Matching'
  BY <1>1, <1>9 DEF MoveFib, IfMoveFib
<1> QED BY StepCases, <1>2, <1>3, <1>4, <1>5, <1>6, <1>7, <1>8, <1>9

\* The interface table keeps its shape, whichever plugin writes to it.
LEMMA InterfacesStep ==
  ASSUME IfTypeOK, PwTypeOK, HeadendNodes, Matching, Next
  PROVE  IfTypeOK'
<1>2. CASE Punt
  BY <1>2, PuntFrame DEF Punt, ifVars, IfTypeOK
<1>3. CASE Policer
  BY <1>3 DEF Policer, ifVars, IfTypeOK
<1>4. CASE Groups
  <2>1. MacTable \subseteq Ifaces \X Macs
    BY DEF MacTable
  <2>2. UNCHANGED macs \/ macs' = MacTable
    BY <1>4 DEF Groups, SrgNext, SrgAdd, SrgSetState, SrgDel, Retire, SwitchMembers, ifVars
  <2>3. macs' \subseteq Ifaces \X Macs
    BY <2>1, <2>2 DEF IfTypeOK
  <2> QED BY <1>4, <2>3, SrgFrame DEF Groups, IfTypeOK
<1>5. CASE Gateway
  <2>1. feature' \subseteq Ifaces
    BY <1>5, FeatureFrame DEF Gateway, L2gwEnableDisable, IfTypeOK
  <2> QED BY <1>5, <2>1, L2gwFrame DEF Gateway, IfTypeOK
<1>6. CASE Headends
  <2>1. outNode' \in [Ifaces -> Ifaces \cup {OwnNode}]
    BY <1>6, BindStep, UnbindStep DEF Headends, PwNext
  <2> QED BY <1>6, <2>1, PwFrame DEF Headends, IfTypeOK
<1>7. ASSUME NEW i \in Ifaces, NEW h \in Ifaces, CreateInterface(i, h)
      PROVE  IfTypeOK'
  BY <1>7 DEF CreateInterface, IfCreate, IfTypeOK
<1>8. ASSUME NEW i \in Ifaces, DeleteInterface(i)
      PROVE  IfTypeOK'
  <2>1. macs' \subseteq Ifaces \X Macs
    BY <1>8 DEF DeleteInterface, IfDelete, IfTypeOK
  <2> QED
    BY <1>8, <2>1, InterfacesAssumption DEF DeleteInterface, IfDelete, IfTypeOK
<1>9. ASSUME NEW i \in Ifaces, NEW f \in Fibs, MoveFib(i, f)
      PROVE  IfTypeOK'
  BY <1>9 DEF MoveFib, IfMoveFib, IfTypeOK
<1> QED BY StepCases, <1>2, <1>3, <1>4, <1>5, <1>6, <1>7, <1>8, <1>9
-----------------------------------------------------------------------------
(* Punt control.                                                           *)

\* The client enables a protocol.
LEMMA EnableStep ==
  ASSUME IfTypeOK, Receivable, NEW i \in Ifaces, NEW p \in Protos, ApiEnable(p, i)
  PROVE  Receivable'
<1> USE PuntAssumption
<1> DEFINE f == fibOf[i]
<1>1. /\ careful => i \notin enabled[p]
      /\ enabled' = [enabled EXCEPT ![p] = @ \cup {i}]
      /\ hooks' = IF p \in Hooked THEN hooks \cup {p} ELSE hooks
      /\ UNCHANGED <<ready, fibOf, careful>>
  BY DEF ApiEnable, SetEnabled, ifVars
<1>2. f \in Fibs /\ refs[f] \in Nat /\ enabled[p] \in SUBSET Ifaces
  BY DEF IfTypeOK, Receivable, PuntTypeOK
<1>3. /\ enabled' \in [Protos -> SUBSET Ifaces] /\ hooks' \subseteq Hooked
      /\ ready' \in BOOLEAN
  BY <1>1, <1>2 DEF Receivable, PuntTypeOK
<1>4. careful => \A q \in Hooked : enabled'[q] # {} => q \in hooks'
  BY <1>1 DEF Receivable, PuntTypeOK, Hooked
<1>5. CASE p # "dhcpv4"
  <2>1. UNCHANGED <<refs, route>> /\ enabled'["dhcpv4"] = enabled["dhcpv4"]
    BY <1>1, <1>5 DEF ApiEnable, Receivable, PuntTypeOK
  <2>2. \A g \in Fibs : Counting(g)' = Counting(g)
    BY <1>1, <2>1 DEF Counting
  <2> QED BY <1>1, <1>3, <1>4, <2>1, <2>2 DEF Receivable, PuntTypeOK
<1>6. CASE p = "dhcpv4"
  <2>1. /\ route' = IF refs[f] = 0 THEN route \cup {f} ELSE route
        /\ refs' = [refs EXCEPT ![f] = refs[f] + 1]
    BY <1>6 DEF ApiEnable, BcastRouteEnable
  <2>2. PuntTypeOK'
    BY <1>2, <1>3, <2>1 DEF Receivable, PuntTypeOK
  <2>3. route' = {g \in Fibs : refs'[g] > 0}
    BY <1>2, <2>1 DEF Receivable, PuntTypeOK
  <2>4. ASSUME careful, NEW j \in enabled'["dhcpv4"] PROVE fibOf'[j] \in route'
    BY <1>1, <1>2, <1>6, <2>1, <2>4 DEF Receivable, PuntTypeOK
  <2>5. ASSUME careful, NEW g \in Fibs PROVE refs'[g] = Cardinality(Counting(g)')
    <3>1. IsFiniteSet(Counting(g))
      BY FS_Subset, InterfacesAssumption DEF Counting, Receivable, PuntTypeOK
    <3>2. CASE g # f
      <4>1. Counting(g)' = Counting(g)
        BY <1>1, <1>6, <3>2 DEF Counting, Receivable, PuntTypeOK
      <4> QED BY <2>1, <2>5, <3>2, <4>1 DEF Receivable, PuntTypeOK
    <3>3. CASE g = f
      <4>1. Counting(g)' = Counting(g) \cup {i} /\ i \notin Counting(g)
        BY <1>1, <1>6, <2>5, <3>3 DEF Counting, Receivable, PuntTypeOK
      <4>2. Cardinality(Counting(g)') = Cardinality(Counting(g)) + 1
        BY <3>1, <4>1, FS_AddElement
      <4>3. refs[g] = Cardinality(Counting(g))
        BY <2>5 DEF Receivable
      <4>4. refs'[g] = refs[g] + 1
        BY <2>1, <3>3 DEF Receivable, PuntTypeOK
      <4> QED BY <4>2, <4>3, <4>4
    <3> QED BY <3>2, <3>3
  <2> QED BY <1>1, <1>4, <2>2, <2>3, <2>4, <2>5 DEF Receivable
<1> QED BY <1>5, <1>6

\* The client disables one: the ports go with the last interface.
LEMMA DisableStep ==
  ASSUME IfTypeOK, Receivable, NEW i \in Ifaces, NEW p \in Protos, ApiDisable(p, i)
  PROVE  Receivable'
<1> USE PuntAssumption
<1> DEFINE f == fibOf[i]
<1>1. /\ careful => i \in enabled[p]
      /\ enabled' = [enabled EXCEPT ![p] = @ \ {i}]
      /\ hooks' = IF p \in Ported /\ enabled[p] \subseteq {i} THEN hooks \ {p} ELSE hooks
      /\ UNCHANGED <<ready, fibOf, careful>>
  BY DEF ApiDisable, SetDisabled, ifVars
<1>2. f \in Fibs /\ refs[f] \in Nat /\ enabled[p] \in SUBSET Ifaces
  BY DEF IfTypeOK, Receivable, PuntTypeOK
<1>3. /\ enabled' \in [Protos -> SUBSET Ifaces] /\ hooks' \subseteq Hooked
      /\ ready' \in BOOLEAN
  BY <1>1, <1>2 DEF Receivable, PuntTypeOK
<1>4. careful => \A q \in Hooked : enabled'[q] # {} => q \in hooks'
  <2>1. ASSUME careful, NEW q \in Hooked, enabled'[q] # {} PROVE q \in hooks'
    <3>1. q \in Protos /\ enabled'[q] \subseteq enabled[q]
      BY <1>1, <1>2 DEF Hooked, Receivable, PuntTypeOK
    <3>2. q \in hooks
      BY <2>1, <3>1 DEF Receivable
    <3>3. q = p => ~(enabled[p] \subseteq {i})
      BY <1>1, <1>2, <2>1 DEF Receivable, PuntTypeOK
    <3> QED BY <1>1, <3>2, <3>3
  <2> QED BY <2>1
<1>5. CASE p # "dhcpv4"
  <2>1. UNCHANGED <<refs, route>> /\ enabled'["dhcpv4"] = enabled["dhcpv4"]
    BY <1>1, <1>5 DEF ApiDisable, Receivable, PuntTypeOK
  <2>2. \A g \in Fibs : Counting(g)' = Counting(g)
    BY <1>1, <2>1 DEF Counting
  <2> QED BY <1>1, <1>3, <1>4, <2>1, <2>2 DEF Receivable, PuntTypeOK
<1>6. CASE p = "dhcpv4"
  <2>1. /\ route' = IF refs[f] = 1 THEN route \ {f} ELSE route
        /\ refs' = [refs EXCEPT ![f] = IF refs[f] = 0 THEN 0 ELSE refs[f] - 1]
    BY <1>6 DEF ApiDisable, BcastRouteDisable
  <2>2. PuntTypeOK'
    BY <1>2, <1>3, <2>1 DEF Receivable, PuntTypeOK
  <2>3. route' = {g \in Fibs : refs'[g] > 0}
    BY <1>2, <2>1 DEF Receivable, PuntTypeOK
  <2>4. ASSUME careful, NEW g \in Fibs PROVE refs'[g] = Cardinality(Counting(g)')
    <3>1. IsFiniteSet(Counting(g))
      BY FS_Subset, InterfacesAssumption DEF Counting, Receivable, PuntTypeOK
    <3>2. CASE g # f
      <4>1. Counting(g)' = Counting(g)
        BY <1>1, <1>6, <3>2 DEF Counting, Receivable, PuntTypeOK
      <4> QED BY <2>1, <2>4, <3>2, <4>1 DEF Receivable, PuntTypeOK
    <3>3. CASE g = f
      <4>1. Counting(g)' = Counting(g) \ {i} /\ i \in Counting(g)
        BY <1>1, <1>6, <2>4, <3>3 DEF Counting, Receivable, PuntTypeOK
      <4>2. Cardinality(Counting(g)') = Cardinality(Counting(g)) - 1
        BY <3>1, <4>1, FS_RemoveElement
      <4>3. refs[g] = Cardinality(Counting(g))
        BY <2>4 DEF Receivable
      <4>4. refs[g] # 0
        BY <3>1, <4>1, <4>3, FS_EmptySet
      <4>5. refs'[g] = refs[g] - 1
        BY <2>1, <3>3, <4>4 DEF Receivable, PuntTypeOK
      <4> QED BY <4>2, <4>3, <4>5
    <3> QED BY <3>2, <3>3
  <2>5. ASSUME careful, NEW j \in enabled'["dhcpv4"] PROVE fibOf'[j] \in route'
    <3> DEFINE g == fibOf[j]
    <3>1. j \in Ifaces /\ fibOf'[j] = g /\ g \in Fibs
      BY <1>1, <1>3, <2>5 DEF IfTypeOK
    <3>2. j \in Counting(g)'
      BY <1>1, <2>5 DEF Counting
    <3>3. IsFiniteSet(Counting(g)') /\ Counting(g)' # {}
      BY <1>3, <3>2, FS_Subset, InterfacesAssumption DEF Counting
    <3>4. refs'[g] # 0
      BY <2>4, <2>5, <3>1, <3>3, FS_EmptySet
    <3> QED BY <2>2, <2>3, <3>1, <3>4 DEF PuntTypeOK
  <2> QED BY <1>1, <1>4, <2>2, <2>3, <2>4, <2>5 DEF Receivable
<1> QED BY <1>5, <1>6

LEMMA PuntStep ==
  ASSUME IfTypeOK, Receivable, Next
  PROVE  Receivable'
<1> USE PuntAssumption
<1>1. ASSUME UNCHANGED <<puntVars, fibOf, careful>> PROVE Receivable'
  <2>1. \A g \in Fibs : Counting(g)' = Counting(g)
    BY <1>1 DEF puntVars, Counting
  <2> QED BY <1>1, <2>1 DEF puntVars, Receivable, PuntTypeOK
<1>2. CASE Punt
  <2>1. ASSUME NEW i \in Ifaces, NEW p \in Protos, CliEnableDisable(p, i)
        PROVE  Receivable'
    <3>1. /\ ~careful /\ UNCHANGED <<hooks, refs, route, ready, careful>>
          /\ \/ enabled' = [enabled EXCEPT ![p] = @ \cup {i}]
             \/ enabled' = [enabled EXCEPT ![p] = @ \ {i}]
      BY <2>1 DEF CliEnableDisable, SetEnabled, SetDisabled, ifVars
    <3>2. enabled' \in [Protos -> SUBSET Ifaces]
      BY <3>1 DEF Receivable, PuntTypeOK
    <3> QED BY <3>1, <3>2 DEF Receivable, PuntTypeOK
  <2> QED BY <1>2, <2>1, EnableStep, DisableStep DEF Punt, PuntNext
<1>3. CASE Policer
  BY <1>1, <1>3 DEF Policer, ifVars
<1>4. CASE Groups
  BY <1>1, <1>4, SrgFrame DEF Groups
<1>5. CASE Gateway
  BY <1>1, <1>5, L2gwFrame DEF Gateway
<1>6. CASE Headends
  BY <1>1, <1>6, PwFrame DEF Headends
<1>7. ASSUME NEW i \in Ifaces, NEW h \in Ifaces, CreateInterface(i, h)
      PROVE  Receivable'
  BY <1>1, <1>7 DEF CreateInterface, IfCreate
\* The table of an interface that counts on a route stays what it is.
<1>8. ASSUME NEW i \in Ifaces, NEW g \in Fibs, fibOf' = [fibOf EXCEPT ![i] = g],
             careful => PuntUnused(i), UNCHANGED <<puntVars, careful>>
      PROVE  Receivable'
  <2>1. enabled["dhcpv4"] \subseteq Ifaces
    BY DEF Receivable, PuntTypeOK
  <2>2. ASSUME careful, NEW j \in enabled["dhcpv4"] PROVE fibOf'[j] = fibOf[j]
    BY <1>8, <2>1, <2>2 DEF IfTypeOK, PuntUnused
  <2>3. careful => \A c \in Fibs : Counting(c)' = Counting(c)
    BY <1>8, <2>2 DEF puntVars, Counting
  <2> QED BY <1>8, <2>2, <2>3 DEF puntVars, Receivable, PuntTypeOK
<1>9. ASSUME NEW i \in Ifaces, DeleteInterface(i)
      PROVE  Receivable'
  BY <1>8, <1>9, InterfacesAssumption DEF DeleteInterface, IfDelete
<1>10. ASSUME NEW i \in Ifaces, NEW g \in Fibs, MoveFib(i, g)
      PROVE  Receivable'
  BY <1>8, <1>10 DEF MoveFib, IfMoveFib
<1> QED BY StepCases, <1>2, <1>3, <1>4, <1>5, <1>6, <1>7, <1>9, <1>10
-----------------------------------------------------------------------------
(* Redundancy groups.                                                      *)

\* A group's members are finitely many interfaces.
LEMMA MembersFinite ==
  ASSUME NEW g \in SrgRecord
  PROVE  /\ IsFiniteSet(DOMAIN g.members)
         /\ \A p \in DOMAIN g.members : g.members[p] \in Ifaces
<1>1. g.members \in MemberLists
  BY DEF SrgRecord
<1>2. PICK n \in 0..MaxMembers : g.members \in [1..n -> Ifaces]
  BY <1>1, SrgAssumption DEF MemberLists
<1>3. n \in Int /\ 1 \in Int /\ DOMAIN g.members = 1..n
  BY <1>2, SrgAssumption
<1>4. IsFiniteSet(1..n)
  BY <1>3, FS_Interval
<1> QED BY <1>2, <1>3, <1>4

\* A list that is freed is an empty one.
LEMMA EmptyList == <<>> \in MemberLists /\ DOMAIN <<>> = {}
<1>1. <<>> \in [1..0 -> Ifaces] /\ 0 \in 0..MaxMembers
  BY SrgAssumption
<1> QED BY <1>1 DEF MemberLists

\* The count of a MAC stays a number, whatever the driver refuses.
LEMMA CountsType ==
  ASSUME SrgTypeOK, NEW g \in SrgRecord, NEW k \in Ifaces \X Macs, NEW bad
  PROVE  Raised(g, k, bad) \in Nat /\ Lowered(g, k, bad) \in Nat
<1> DEFINE P == Positions(g, k)
           R == {p \in P : \/ macRefs[k] > 0
                           \/ \E q \in P : q <= p /\ q \notin bad}
<1>1. macRefs[k] \in Nat
  BY DEF SrgTypeOK
<1>2. IsFiniteSet(P)
  BY MembersFinite, FS_Subset DEF Positions
<1>3. IsFiniteSet(R)
  BY <1>2, FS_Subset
<1>4. Cardinality(P) \in Nat /\ Cardinality(R) \in Nat
  BY <1>2, <1>3, FS_CardinalityType
<1>5. Raised(g, k, bad) = macRefs[k] + Cardinality(R)
  BY DEF Raised
<1>6. \/ Cardinality(P) < macRefs[k] /\ Lowered(g, k, bad) = macRefs[k] - Cardinality(P)
      \/ Lowered(g, k, bad) = 1
      \/ Lowered(g, k, bad) = 0
  BY DEF Lowered
<1> HIDE DEF P, R
<1> QED BY <1>1, <1>4, <1>5, <1>6

\* A state change keeps hw_mac_refcount and the programmed MACs together.
LEMMA SwitchStep ==
  ASSUME SrgTypeOK, NEW s \in Slots, NEW a \in BOOLEAN, SwitchMembers(s, a)
  PROVE  /\ macRefs' \in [Ifaces \X Macs -> Nat]
         /\ macs = {k \in Ifaces \X Macs : macRefs[k] > 0}
            => macs' = {k \in Ifaces \X Macs : macRefs'[k] > 0}
<1>1. srgs[s] \in SrgRecord
  BY DEF SrgTypeOK, Slots
<1>2. PICK bad : macRefs' = [k \in Ifaces \X Macs |->
                     IF a THEN Raised(srgs[s], k, bad) ELSE Lowered(srgs[s], k, bad)]
  BY DEF SwitchMembers
<1>3. macRefs' \in [Ifaces \X Macs -> Nat]
  BY <1>1, <1>2, CountsType
<1>4. macs' = {k \in Ifaces \X Macs : IF macRefs'[k] = macRefs[k] THEN k \in macs
                          ELSE IF macRefs[k] = 0 THEN TRUE
                          ELSE macRefs'[k] > 0 /\ k \in macs}
  BY DEF SwitchMembers, MacTable
<1>5. \A k \in Ifaces \X Macs : macRefs[k] \in Nat /\ macRefs'[k] \in Nat
  BY <1>3 DEF SrgTypeOK
<1> QED BY <1>3, <1>4, <1>5

\* What a lookup gives is an element of the pool.
LEMMA Found ==
  ASSUME SrgTypeOK, NEW n \in Names, NEW s \in Find(n) \ {0}
  PROVE  s \in Slots /\ s \in 1..MaxSrgs /\ srgs[s] \in SrgRecord
<1>1. s \in Slots
  BY DEF Find, SrgTypeOK, Slots
<1> QED BY <1>1, SrgAssumption DEF SrgTypeOK, Slots

\* And while the pool stays where it is, it is the group of that name.
LEMMA FoundLive ==
  ASSUME SrgTypeOK, SrgShape, ~moves, NEW n \in Names, NEW s \in Find(n) \ {0}
  PROVE  s = byName[n] /\ LiveSrg(s) /\ srgs[s].name = n /\ Find(n) = {s}
<1>1. s = byName[n] /\ Find(n) = {s}
  BY DEF Find, SrgShape
<1>2. s \in Slots
  BY Found
<1> QED BY <1>1, <1>2 DEF SrgShape

\* What is keyed leads to elements of the pool, which may have grown.
LEMMA SetNameType ==
  ASSUME SrgTypeOK, NEW n \in Names, NEW lost \in SUBSET Slots,
         NEW L \in Nat, Len(srgs) <= L, NEW s \in 1..L, SetName(n, s, lost)
  PROVE  byName' \in [Names -> 0..L] /\ stale' \subseteq 1..L
<1> DEFINE kept == [x \in Names |-> IF byName[x] \in lost THEN 0 ELSE byName[x]]
           out == stale \cup ({byName[x] : x \in Names} \cap lost)
<1>1. Slots \subseteq 1..L /\ 0..Len(srgs) \subseteq 0..L
  BY DEF Slots, SrgTypeOK
<1>2. kept \in [Names -> 0..L]
  BY <1>1 DEF SrgTypeOK
<1>3. out \subseteq 1..L
  BY <1>1 DEF SrgTypeOK
<1>4. \/ byName' = [kept EXCEPT ![n] = s] /\ stale' = out
      \/ byName' = kept /\ \E left \in SUBSET out : stale' = left \cup {s}
  BY DEF SetName, OneLess
<1> HIDE DEF kept, out
<1>5. s \in 0..L /\ [kept EXCEPT ![n] = s] \in [Names -> 0..L]
  BY <1>2
<1>6. stale' \subseteq 1..L
  BY <1>3, <1>4
<1> QED BY <1>2, <1>4, <1>5, <1>6

LEMMA UnsetNameType ==
  ASSUME SrgTypeOK, NEW n \in Names, UnsetName(n)
  PROVE  byName' \in [Names -> 0..Len(srgs)] /\ stale' \subseteq Slots
<1>1. Len(srgs) \in Nat
  BY DEF SrgTypeOK
<1> QED BY <1>1 DEF UnsetName, OneLess, SrgTypeOK

\* A name that is keyed when no other key is lost.
LEMMA SetNameExact ==
  ASSUME SrgTypeOK, stale = {}, NEW n \in Names, NEW s, NEW lost,
         \A x \in Names : byName[x] \notin lost, SetName(n, s, lost)
  PROVE  byName' = [byName EXCEPT ![n] = s] /\ stale' = {}
<1>1. [x \in Names |-> IF byName[x] \in lost THEN 0 ELSE byName[x]] = byName
  BY DEF SrgTypeOK
<1>2. stale \cup ({byName[x] : x \in Names} \cap lost) = {}
  OBVIOUS
<1> QED BY <1>1, <1>2 DEF SetName

\* A group is put into an element that is free, or into one more.
LEMMA PutStep ==
  ASSUME SrgTypeOK, NEW s \in 1..MaxSrgs, NEW g \in SrgRecord, SrgPut(s, g)
  PROVE  /\ srgs' \in Seq(SrgRecord) /\ Len(srgs') <= MaxSrgs
         /\ Len(srgs') \in Nat /\ Len(srgs) \in Nat /\ Len(srgs) <= Len(srgs')
         /\ s \in Slots' /\ srgs'[s] = g
         /\ \A t \in Slots' : t # s => t \in Slots /\ srgs'[t] = srgs[t]
         /\ vacant' \in [1..MaxSrgs -> Nat]
         /\ byName' \in [Names -> 0..Len(srgs')] /\ stale' \subseteq Slots'
<1> USE SrgAssumption
<1>1. srgs \in Seq(SrgRecord) /\ Len(srgs) \in Nat /\ Len(srgs) <= MaxSrgs
      /\ vacant \in [1..MaxSrgs -> Nat] /\ g.name \in Names
  BY DEF SrgTypeOK, SrgRecord
<1>2. CASE /\ s \in Slots /\ vacant[s] > 0
           /\ srgs' = [srgs EXCEPT ![s] = g]
           /\ vacant' = [vacant EXCEPT ![s] = @ - 1]
           /\ SetName(g.name, s, {s})
  <2>1. srgs' \in Seq(SrgRecord) /\ Len(srgs') = Len(srgs) /\ Slots' = Slots
    BY <1>1, <1>2 DEF Slots
  <2>2. byName' \in [Names -> 0..Len(srgs)] /\ stale' \subseteq 1..Len(srgs)
    <3>1. {s} \in SUBSET Slots /\ s \in 1..Len(srgs) /\ Len(srgs) <= Len(srgs)
      BY <1>1, <1>2 DEF Slots
    <3> QED BY <1>1, <1>2, <3>1, SetNameType
  <2> QED BY <1>1, <1>2, <2>1, <2>2 DEF Slots
<1>3. ASSUME NEW lost \in SUBSET Slots,
             /\ s = Len(srgs) + 1 /\ s <= MaxSrgs
             /\ srgs' = Append(srgs, g)
             /\ SetName(g.name, s, lost)
             /\ UNCHANGED vacant
      PROVE  /\ srgs' \in Seq(SrgRecord) /\ Len(srgs') = Len(srgs) + 1
             /\ srgs'[s] = g /\ \A t \in 1..Len(srgs) : srgs'[t] = srgs[t]
             /\ byName' \in [Names -> 0..Len(srgs')] /\ stale' \subseteq 1..Len(srgs')
  <2>1. /\ srgs' \in Seq(SrgRecord) /\ Len(srgs') = Len(srgs) + 1
        /\ srgs'[s] = g /\ \A t \in 1..Len(srgs) : srgs'[t] = srgs[t]
    BY <1>1, <1>3
  <2>2. s \in 1..Len(srgs') /\ Len(srgs') \in Nat /\ Len(srgs) <= Len(srgs')
    BY <1>1, <1>3, <2>1
  <2> QED BY <1>1, <1>3, <2>1, <2>2, SetNameType
<1>4. \/ /\ s \in Slots /\ vacant[s] > 0
         /\ srgs' = [srgs EXCEPT ![s] = g]
         /\ vacant' = [vacant EXCEPT ![s] = @ - 1]
         /\ SetName(g.name, s, {s})
      \/ \E lost \in SUBSET Slots :
             /\ s = Len(srgs) + 1 /\ s <= MaxSrgs
             /\ srgs' = Append(srgs, g)
             /\ SetName(g.name, s, lost)
             /\ UNCHANGED vacant
  BY DEF SrgPut
<1>5. ASSUME NEW lost \in SUBSET Slots,
             /\ s = Len(srgs) + 1 /\ s <= MaxSrgs
             /\ srgs' = Append(srgs, g)
             /\ SetName(g.name, s, lost)
             /\ UNCHANGED vacant
      PROVE  /\ srgs' \in Seq(SrgRecord) /\ Len(srgs') <= MaxSrgs
             /\ Len(srgs') \in Nat /\ Len(srgs) \in Nat /\ Len(srgs) <= Len(srgs')
             /\ s \in Slots' /\ srgs'[s] = g
             /\ \A t \in Slots' : t # s => t \in Slots /\ srgs'[t] = srgs[t]
             /\ vacant' \in [1..MaxSrgs -> Nat]
             /\ byName' \in [Names -> 0..Len(srgs')] /\ stale' \subseteq Slots'
  BY <1>1, <1>3, <1>5 DEF Slots
<1> QED BY <1>2, <1>4, <1>5

\* While the pool stays where it is the element is nobody's, its free place is
\* taken, and the name leads to it and every other where it did.
LEMMA PutExact ==
  ASSUME SrgTypeOK, SrgShape, ~moves, NEW s \in 1..MaxSrgs, NEW g \in SrgRecord,
         SrgPut(s, g)
  PROVE  /\ byName' = [byName EXCEPT ![g.name] = s] /\ stale' = {}
         /\ vacant' = [vacant EXCEPT ![s] = 0]
         /\ s \in Slots => srgs[s].members = <<>> /\ ~LiveSrg(s)
         /\ \A x \in Names : byName[x] # s
<1> USE SrgAssumption
<1>1. g.name \in Names /\ vacant \in [1..MaxSrgs -> Nat] /\ stale = {} /\ Len(srgs) \in Nat
  BY DEF SrgRecord, SrgTypeOK, SrgShape
<1>2. CASE /\ s \in Slots /\ vacant[s] > 0
           /\ srgs' = [srgs EXCEPT ![s] = g]
           /\ vacant' = [vacant EXCEPT ![s] = @ - 1]
           /\ SetName(g.name, s, {s})
  <2>1. vacant[s] = 1 /\ srgs[s].members = <<>> /\ ~LiveSrg(s)
    BY <1>1, <1>2 DEF SrgShape, LiveSrg
  <2>2. \A x \in Names : byName[x] # s
    BY <1>2, <2>1 DEF SrgShape
  <2>3. byName' = [byName EXCEPT ![g.name] = s] /\ stale' = {}
    BY <1>1, <1>2, <2>2, SetNameExact
  <2>4. vacant' = [vacant EXCEPT ![s] = 0]
    BY <1>1, <1>2, <2>1
  <2> QED BY <2>1, <2>2, <2>3, <2>4
<1>3. CASE /\ s = Len(srgs) + 1
           /\ SetName(g.name, s, {})
           /\ UNCHANGED vacant
  <2>1. s \notin Slots /\ \A x \in Names : byName[x] # s
    BY <1>1, <1>3 DEF Slots, SrgTypeOK
  <2>2. byName' = [byName EXCEPT ![g.name] = s] /\ stale' = {}
    BY <1>1, <1>3, SetNameExact
  <2>3. vacant[s] = 0
    BY <2>1 DEF SrgShape
  <2>4. vacant' = [vacant EXCEPT ![s] = 0]
    BY <1>1, <1>3, <2>3
  <2> QED BY <2>1, <2>2, <2>4
<1> QED BY <1>2, <1>3 DEF SrgPut

LEMMA AddStep ==
  ASSUME SrgTypeOK, SrgShape, NEW n \in Names, NEW m \in Macs,
         NEW list \in MemberLists, SrgAdd(n, m, list)
  PROVE  SrgTypeOK' /\ SrgShape'
<1> DEFINE g == [name |-> n, mac |-> m, members |-> list, active |-> FALSE]
<1>1. PICK s \in 1..MaxSrgs :
        /\ SrgPut(s, g)
        /\ ifToSrg' = [i \in Ifaces |->
                        IF \E p \in DOMAIN list : list[p] = i THEN s ELSE ifToSrg[i]]
  BY DEF SrgAdd
<1>2. g \in SrgRecord /\ g.members = list /\ g.name = n
  BY DEF SrgRecord
<1> HIDE DEF g
<1>3. /\ srgs' \in Seq(SrgRecord) /\ Len(srgs') <= MaxSrgs
      /\ Len(srgs') \in Nat /\ Len(srgs) \in Nat /\ Len(srgs) <= Len(srgs')
      /\ s \in Slots' /\ srgs'[s] = g
      /\ \A t \in Slots' : t # s => t \in Slots /\ srgs'[t] = srgs[t]
      /\ vacant' \in [1..MaxSrgs -> Nat]
      /\ byName' \in [Names -> 0..Len(srgs')] /\ stale' \subseteq Slots'
  BY <1>1, <1>2, PutStep
<1>4. UNCHANGED <<macRefs, refusals, moves>>
  BY DEF SrgAdd
<1>5. SrgTypeOK'
  <2>1. ifToSrg' \in [Ifaces -> 0..Len(srgs')]
    BY <1>1, <1>3 DEF SrgTypeOK, Slots
  <2> QED BY <1>3, <1>4, <2>1 DEF SrgTypeOK
<1>6. ASSUME ~moves PROVE SrgShape'
  <2>1. /\ byName' = [byName EXCEPT ![n] = s] /\ stale' = {}
        /\ vacant' = [vacant EXCEPT ![s] = 0]
        /\ s \in Slots => srgs[s].members = <<>> /\ ~LiveSrg(s)
        /\ \A x \in Names : byName[x] # s
    BY <1>1, <1>2, <1>6, PutExact
  <2>2. vacant \in [1..MaxSrgs -> Nat] /\ byName \in [Names -> 0..Len(srgs)]
    BY DEF SrgTypeOK
  <2>3. ASSUME NEW t \in 1..MaxSrgs, vacant'[t] # 0
        PROVE  vacant'[t] = 1 /\ t \in Slots' /\ srgs'[t].members = <<>>
    <3>1. t # s /\ vacant[t] = vacant'[t]
      BY <2>1, <2>2, <2>3
    <3>2. vacant[t] = 1 /\ t \in Slots /\ srgs[t].members = <<>>
      BY <1>6, <2>3, <3>1 DEF SrgShape
    <3>3. t \in Slots'
      BY <1>3, <3>2 DEF Slots
    <3> QED BY <1>3, <3>1, <3>2, <3>3
  <2>4. ASSUME NEW i \in Ifaces, NEW t \in Slots'
        PROVE  ifToSrg'[i] = t <=>
                 \E p \in DOMAIN srgs'[t].members : srgs'[t].members[p] = i
    <3>0. s \in Int /\ t \in Int /\ t # 0
      BY <1>3, <2>4 DEF Slots
    <3>1. \A p \in DOMAIN list : ifToSrg[list[p]] = 0
      BY DEF SrgAdd
    <3>2. CASE t = s
      <4>1. s \in Slots => ifToSrg[i] # s
        BY <1>6, <2>1, EmptyList DEF SrgShape
      <4>2. s \notin Slots => ifToSrg[i] # s
        BY <1>3, <3>0, <3>2 DEF SrgTypeOK, Slots
      <4> QED BY <1>1, <1>2, <1>3, <3>2, <4>1, <4>2
    <3>3. CASE t # s
      <4>1. t \in Slots /\ srgs'[t] = srgs[t]
        BY <1>3, <3>3
      <4>2. ifToSrg[i] = t <=> \E p \in DOMAIN srgs[t].members : srgs[t].members[p] = i
        BY <1>6, <4>1 DEF SrgShape
      <4>3. ASSUME NEW p \in DOMAIN list, list[p] = i PROVE ifToSrg[i] # t
        BY <3>0, <3>1, <4>3
      <4> QED BY <1>1, <3>3, <4>1, <4>2, <4>3
    <3> QED BY <3>2, <3>3
  <2>5. ASSUME NEW c \in Names, NEW t \in Slots'
        PROVE  byName'[c] = t <=> vacant'[t] = 0 /\ srgs'[t].name = c
    <3>1. byName[n] = 0 /\ t # 0 /\ t \in 1..MaxSrgs
      <4>1. 0 \in Find(n) /\ stale = {}
        BY <1>6 DEF SrgAdd, SrgShape
      <4> QED BY <1>3, <2>5, <4>1, SrgAssumption DEF Find, Slots
    <3>2. CASE t = s
      BY <1>2, <1>3, <2>1, <2>2, <3>1, <3>2
    <3>3. CASE t # s
      <4>1. t \in Slots /\ srgs'[t] = srgs[t] /\ vacant'[t] = vacant[t]
        BY <1>3, <2>1, <2>2, <3>1, <3>3
      <4>2. byName[c] = t <=> vacant[t] = 0 /\ srgs[t].name = c
        BY <1>6, <4>1 DEF SrgShape, LiveSrg
      <4>3. byName'[c] = t <=> byName[c] = t
        BY <2>1, <2>2, <3>1, <3>3
      <4> QED BY <4>1, <4>2, <4>3
    <3> QED BY <3>2, <3>3
  <2> QED BY <2>1, <2>3, <2>4, <2>5 DEF SrgShape, LiveSrg
<1> QED BY <1>4, <1>5, <1>6 DEF SrgShape

LEMMA SetStateStep ==
  ASSUME SrgTypeOK, SrgShape, NEW n \in Names, NEW a \in BOOLEAN, SrgSetState(n, a)
  PROVE  /\ SrgTypeOK' /\ SrgShape'
         /\ MacsCounted => MacsCounted'
<1>1. PICK s \in Find(n) \ {0} :
        /\ SwitchMembers(s, a)
        /\ srgs' = [srgs EXCEPT ![s].active = a]
        /\ UNCHANGED <<vacant, byName, stale, ifToSrg, refusals, moves, careful>>
  BY DEF SrgSetState, SwitchMembers
<1>2. s \in Slots /\ srgs[s] \in SrgRecord
  BY Found
<1> DEFINE g == [srgs[s] EXCEPT !.active = a]
<1>3. g \in SrgRecord /\ g.members = srgs[s].members /\ g.name = srgs[s].name
  BY <1>2 DEF SrgRecord
<1>4. srgs' = [srgs EXCEPT ![s] = g]
  BY <1>1
<1> HIDE DEF g
<1>5. /\ srgs' \in Seq(SrgRecord) /\ Len(srgs') = Len(srgs) /\ Slots' = Slots
      /\ srgs'[s] = g /\ \A t \in Slots : t # s => srgs'[t] = srgs[t]
  BY <1>2, <1>3, <1>4 DEF SrgTypeOK, Slots
<1>6. \A t \in Slots : srgs'[t].members = srgs[t].members /\ srgs'[t].name = srgs[t].name
  BY <1>3, <1>5
<1>7. /\ macRefs' \in [Ifaces \X Macs -> Nat]
      /\ macs = {k \in Ifaces \X Macs : macRefs[k] > 0}
            => macs' = {k \in Ifaces \X Macs : macRefs'[k] > 0}
  BY <1>1, <1>2, SwitchStep
<1>8. SrgTypeOK'
  BY <1>1, <1>5, <1>7 DEF SrgTypeOK
<1>9. SrgShape'
  BY <1>1, <1>5, <1>6 DEF SrgShape, LiveSrg
<1> QED BY <1>1, <1>7, <1>8, <1>9 DEF MacsCounted

\* What a delete does to the pool and the counts, whichever group it takes to
\* standby.
LEMMA RetireFacts ==
  ASSUME SrgTypeOK, NEW n \in Names, NEW s \in Find(n) \ {0}, Retire(n, s)
  PROVE  /\ srgs' \in Seq(SrgRecord) /\ Len(srgs') = Len(srgs) /\ Slots' = Slots
         /\ srgs'[s].members = <<>> /\ srgs'[s].name = srgs[s].name
         /\ \A t \in Slots : t # s => /\ srgs'[t].members = srgs[t].members
                                      /\ srgs'[t].name = srgs[t].name
         /\ careful' = careful /\ macRefs' \in [Ifaces \X Macs -> Nat]
         /\ MacsCounted => MacsCounted'
<1>1. s \in Slots /\ srgs[s] \in SrgRecord
  BY Found
<1>2. ASSUME NEW f \in Seq(SrgRecord), Len(f) = Len(srgs),
             \A t \in Slots : f[t].members = srgs[t].members /\ f[t].name = srgs[t].name,
             srgs' = [f EXCEPT ![s].members = <<>>]
      PROVE  /\ srgs' \in Seq(SrgRecord) /\ Len(srgs') = Len(srgs) /\ Slots' = Slots
             /\ srgs'[s].members = <<>> /\ srgs'[s].name = srgs[s].name
             /\ \A t \in Slots : t # s => /\ srgs'[t].members = srgs[t].members
                                          /\ srgs'[t].name = srgs[t].name
  <2> DEFINE g == [f[s] EXCEPT !.members = <<>>]
  <2>1. f[s] \in SrgRecord
    BY <1>1, <1>2 DEF Slots
  <2>2. g \in SrgRecord /\ g.members = <<>> /\ g.name = f[s].name
    BY <2>1, EmptyList DEF SrgRecord
  <2>3. srgs' = [f EXCEPT ![s] = g]
    BY <1>2
  <2> HIDE DEF g
  <2>4. /\ srgs' \in Seq(SrgRecord) /\ Len(srgs') = Len(f)
        /\ srgs'[s] = g /\ \A t \in Slots : t # s => srgs'[t] = f[t]
    BY <1>1, <1>2, <2>2, <2>3 DEF Slots
  <2> QED BY <1>1, <1>2, <2>2, <2>4 DEF Slots
<1>3. ASSUME NEW t \in Find(n) \ {0}, SwitchMembers(t, FALSE),
             srgs' = [srgs EXCEPT ![t].active = FALSE, ![s].members = <<>>]
      PROVE  /\ srgs' \in Seq(SrgRecord) /\ Len(srgs') = Len(srgs) /\ Slots' = Slots
             /\ srgs'[s].members = <<>> /\ srgs'[s].name = srgs[s].name
             /\ \A u \in Slots : u # s => /\ srgs'[u].members = srgs[u].members
                                          /\ srgs'[u].name = srgs[u].name
             /\ careful' = careful /\ macRefs' \in [Ifaces \X Macs -> Nat]
             /\ MacsCounted => MacsCounted'
  <2> DEFINE h == [srgs[t] EXCEPT !.active = FALSE]
             f == [srgs EXCEPT ![t] = h]
  <2>1. t \in Slots /\ srgs[t] \in SrgRecord
    BY Found
  <2>2. h \in SrgRecord /\ h.members = srgs[t].members /\ h.name = srgs[t].name
    BY <2>1 DEF SrgRecord
  <2>3. srgs' = [f EXCEPT ![s].members = <<>>]
    BY <1>3
  <2> HIDE DEF h
  <2>4. /\ f \in Seq(SrgRecord) /\ Len(f) = Len(srgs)
        /\ f[t] = h /\ \A u \in Slots : u # t => f[u] = srgs[u]
    BY <2>1, <2>2 DEF SrgTypeOK, Slots
  <2> HIDE DEF f
  <2>5. \A u \in Slots : f[u].members = srgs[u].members /\ f[u].name = srgs[u].name
    BY <2>2, <2>4
  <2>6. careful' = careful /\ macRefs' \in [Ifaces \X Macs -> Nat] /\ (MacsCounted => MacsCounted')
    BY <1>3, <2>1, SwitchStep DEF SwitchMembers, MacsCounted
  <2> QED BY <1>2, <2>3, <2>4, <2>5, <2>6
<1>4. CASE srgs' = [srgs EXCEPT ![s].members = <<>>] /\ UNCHANGED <<macRefs, ifVars>>
  <2>1. careful' = careful /\ macRefs' \in [Ifaces \X Macs -> Nat] /\ (MacsCounted => MacsCounted')
    BY <1>4 DEF ifVars, SrgTypeOK, MacsCounted
  <2> QED BY <1>2, <1>4, <2>1 DEF SrgTypeOK
<1> QED BY <1>3, <1>4 DEF Retire

LEMMA DelStep ==
  ASSUME SrgTypeOK, SrgShape, NEW n \in Names, SrgDel(n)
  PROVE  /\ SrgTypeOK' /\ SrgShape'
         /\ MacsCounted => MacsCounted'
<1>1. PICK s \in Find(n) \ {0} :
        /\ Retire(n, s)
        /\ ifToSrg' = [i \in Ifaces |->
                        IF \E p \in DOMAIN srgs[s].members : srgs[s].members[p] = i
                        THEN 0 ELSE ifToSrg[i]]
  BY DEF SrgDel
<1>2. /\ UnsetName(srgs[s].name)
      /\ vacant' = [vacant EXCEPT ![s] = @ + 1]
      /\ UNCHANGED <<refusals, moves>>
  BY <1>1 DEF Retire
<1>3. s \in Slots /\ s \in 1..MaxSrgs /\ srgs[s].name \in Names
  BY Found DEF SrgRecord
<1>4. /\ srgs' \in Seq(SrgRecord) /\ Len(srgs') = Len(srgs) /\ Slots' = Slots
      /\ srgs'[s].members = <<>> /\ srgs'[s].name = srgs[s].name
      /\ \A t \in Slots : t # s => /\ srgs'[t].members = srgs[t].members
                                   /\ srgs'[t].name = srgs[t].name
      /\ careful' = careful /\ macRefs' \in [Ifaces \X Macs -> Nat]
      /\ MacsCounted => MacsCounted'
  BY <1>1, RetireFacts
<1>5. SrgTypeOK'
  <2>1. byName' \in [Names -> 0..Len(srgs)] /\ stale' \subseteq Slots
    BY <1>2, <1>3, UnsetNameType
  <2>2. ifToSrg' \in [Ifaces -> 0..Len(srgs)]
    <3>1. Len(srgs) \in Nat /\ ifToSrg \in [Ifaces -> 0..Len(srgs)]
      BY DEF SrgTypeOK
    <3>2. 0 \in 0..Len(srgs)
      BY <3>1
    <3>3. \A i \in Ifaces : ifToSrg'[i] \in {0, ifToSrg[i]}
      BY <1>1
    <3>4. ifToSrg' = [i \in Ifaces |-> ifToSrg'[i]]
      BY <1>1
    <3> QED BY <3>1, <3>2, <3>3, <3>4
  <2>3. vacant' \in [1..MaxSrgs -> Nat]
    <3>1. vacant \in [1..MaxSrgs -> Nat]
      BY DEF SrgTypeOK
    <3>2. vacant[s] \in Nat
      BY <1>3, <3>1
    <3>3. vacant[s] + 1 \in Nat
      BY <3>2
    <3> QED BY <1>2, <1>3, <3>1, <3>3
  <2> QED BY <1>2, <1>4, <2>1, <2>2, <2>3 DEF SrgTypeOK
<1>6. ASSUME ~moves PROVE SrgShape'
  <2>0. vacant \in [1..MaxSrgs -> Nat] /\ byName \in [Names -> 0..Len(srgs)] /\ Len(srgs) \in Nat
    BY DEF SrgTypeOK
  <2>1. s = byName[n] /\ vacant[s] = 0 /\ srgs[s].name = n
    BY <1>6, FoundLive DEF LiveSrg
  <2>2. byName' = [byName EXCEPT ![n] = 0] /\ stale' = {}
    BY <1>2, <1>6, <2>1 DEF UnsetName, SrgShape
  <2>3. ASSUME NEW t \in 1..MaxSrgs, vacant'[t] # 0
        PROVE  vacant'[t] = 1 /\ t \in Slots' /\ srgs'[t].members = <<>>
    <3>1. CASE t = s
      BY <1>2, <1>3, <1>4, <2>0, <2>1, <3>1
    <3>2. CASE t # s
      <4>1. vacant'[t] = vacant[t]
        BY <1>2, <2>0, <3>2
      <4> QED BY <1>4, <1>6, <2>3, <3>2, <4>1 DEF SrgShape
    <3> QED BY <3>1, <3>2
  <2>4. ASSUME NEW i \in Ifaces, NEW t \in Slots
        PROVE  ifToSrg'[i] = t <=>
                 \E p \in DOMAIN srgs'[t].members : srgs'[t].members[p] = i
    <3>0. t # 0 /\ s # 0
      BY <1>3, <2>4 DEF Slots
    <3>1. \A u \in Slots : ifToSrg[i] = u <=>
                 \E p \in DOMAIN srgs[u].members : srgs[u].members[p] = i
      BY <1>6 DEF SrgShape
    <3>2. CASE t = s
      <4>1. ifToSrg'[i] # s
        BY <1>1, <1>3, <3>0, <3>1
      <4> QED BY <1>4, <3>2, <4>1, EmptyList
    <3>3. CASE t # s
      <4>1. ifToSrg'[i] = t <=> ifToSrg[i] = t
        BY <1>1, <1>3, <3>0, <3>1, <3>3
      <4> QED BY <1>4, <3>1, <3>3, <4>1
    <3> QED BY <3>2, <3>3
  <2>5. ASSUME NEW c \in Names, NEW t \in Slots
        PROVE  byName'[c] = t <=> vacant'[t] = 0 /\ srgs'[t].name = c
    <3>0. t # 0 /\ t \in 1..MaxSrgs
      BY <2>0, <2>5, SrgAssumption DEF Slots, SrgTypeOK
    <3>1. byName[c] = t <=> vacant[t] = 0 /\ srgs[t].name = c
      BY <1>6 DEF SrgShape, LiveSrg
    <3>2. CASE t = s
      <4>1. vacant'[t] = 1
        BY <1>2, <1>3, <2>0, <2>1, <3>2
      <4>2. byName'[c] # t
        BY <2>0, <2>1, <2>2, <3>0, <3>1, <3>2
      <4> QED BY <4>1, <4>2
    <3>3. CASE t # s
      <4>1. vacant'[t] = vacant[t] /\ srgs'[t].name = srgs[t].name
        BY <1>2, <1>4, <2>0, <3>0, <3>3
      <4>2. byName'[c] = t <=> byName[c] = t
        BY <2>0, <2>1, <2>2, <3>0, <3>3
      <4> QED BY <3>1, <4>1, <4>2
    <3> QED BY <3>2, <3>3
  <2> QED BY <1>4, <2>2, <2>3, <2>4, <2>5 DEF SrgShape, LiveSrg
<1> QED BY <1>2, <1>4, <1>5, <1>6 DEF SrgShape

LEMMA GroupsStep ==
  ASSUME SrgTypeOK, SrgShape, MacsCounted, Next
  PROVE  SrgTypeOK' /\ SrgShape' /\ MacsCounted'
<1>1. ASSUME UNCHANGED srgVars PROVE SrgTypeOK' /\ SrgShape'
  BY <1>1 DEF srgVars, SrgTypeOK, SrgShape, Slots, LiveSrg
<1>2. ASSUME UNCHANGED <<srgVars, macs, careful>>
      PROVE  SrgTypeOK' /\ SrgShape' /\ MacsCounted'
  BY <1>1, <1>2 DEF srgVars, MacsCounted
<1>3. CASE Punt
  BY <1>2, <1>3, PuntFrame DEF Punt, ifVars
<1>4. CASE Policer
  BY <1>2, <1>4 DEF Policer, ifVars
<1>5. CASE Groups
  <2>1. ASSUME NEW n \in Names, NEW m \in Macs, NEW list \in MemberLists, SrgAdd(n, m, list)
        PROVE  MacsCounted'
    BY <2>1 DEF SrgAdd, ifVars, MacsCounted
  <2> QED BY <1>5, <2>1, AddStep, SetStateStep, DelStep DEF Groups, SrgNext
<1>6. CASE Gateway
  BY <1>2, <1>6, L2gwFrame DEF Gateway
<1>7. CASE Headends
  BY <1>2, <1>7, PwFrame DEF Headends
<1>8. ASSUME NEW i \in Ifaces, NEW h \in Ifaces, CreateInterface(i, h)
      PROVE  SrgTypeOK' /\ SrgShape' /\ MacsCounted'
  BY <1>2, <1>8 DEF CreateInterface, IfCreate
<1>9. ASSUME NEW i \in Ifaces, DeleteInterface(i)
      PROVE  SrgTypeOK' /\ SrgShape' /\ MacsCounted'
  <2>1. /\ UNCHANGED <<srgVars, careful>> /\ macs' = {k \in macs : k[1] # i}
        /\ careful => \A m \in Macs : macRefs[<<i, m>>] = 0
    BY <1>9 DEF DeleteInterface, IfDelete, SrgUnused
  <2>2. ASSUME careful PROVE macs' = {k \in Ifaces \X Macs : macRefs[k] > 0}
    <3>1. macs = {k \in Ifaces \X Macs : macRefs[k] > 0}
      BY <2>2 DEF MacsCounted
    <3>2. ASSUME NEW k \in Ifaces \X Macs, macRefs[k] > 0 PROVE k[1] # i
      <4>1. k = <<k[1], k[2]>> /\ k[2] \in Macs
        BY <3>2
      <4>2. k[1] = i => macRefs[k] = 0
        BY <2>1, <2>2, <4>1
      <4> QED BY <3>2, <4>2
    <3> QED BY <2>1, <3>1, <3>2
  <2> QED BY <1>1, <2>1, <2>2 DEF MacsCounted, srgVars
<1>10. ASSUME NEW i \in Ifaces, NEW f \in Fibs, MoveFib(i, f)
      PROVE  SrgTypeOK' /\ SrgShape' /\ MacsCounted'
  BY <1>2, <1>10 DEF MoveFib, IfMoveFib
<1> QED BY StepCases, <1>3, <1>4, <1>5, <1>6, <1>7, <1>8, <1>9, <1>10
-----------------------------------------------------------------------------
(* The count of a virtual MAC on a hardware interface.                     *)

LEMMA PositionsFacts ==
  ASSUME NEW g \in SrgRecord, NEW k
  PROVE  /\ Positions(g, k) \subseteq 1..MaxMembers
         /\ IsFiniteSet(Positions(g, k))
         /\ Cardinality(Positions(g, k)) \in Nat
<1>1. DOMAIN g.members \subseteq 1..MaxMembers
  <2>1. PICK n \in 0..MaxMembers : g.members \in [1..n -> Ifaces]
    BY SrgAssumption DEF SrgRecord, MemberLists
  <2> QED BY <2>1, SrgAssumption
<1>2. Positions(g, k) \subseteq DOMAIN g.members
  BY DEF Positions
<1>3. IsFiniteSet(Positions(g, k))
  BY <1>2, MembersFinite, FS_Subset
<1> QED BY <1>1, <1>2, <1>3, FS_CardinalityType

LEMMA HoldersFinite ==
  ASSUME SrgTypeOK, NEW k
  PROVE  IsFiniteSet(Holders(k)) /\ Cardinality(Holders(k)) \in Nat
<1>1. Len(srgs) \in Int /\ MaxMembers \in Int
  BY SrgAssumption DEF SrgTypeOK
<1>2. IsFiniteSet(Slots) /\ IsFiniteSet(1..MaxMembers)
  BY <1>1, FS_Interval DEF Slots
<1>3. IsFiniteSet(Slots \X (1..MaxMembers))
  BY <1>2, FS_Product
<1>4. Holders(k) \subseteq Slots \X (1..MaxMembers)
  BY DEF Holders
<1>5. IsFiniteSet(Holders(k))
  BY <1>3, <1>4, FS_Subset
<1> QED BY <1>5, FS_CardinalityType

\* A driver that obeys: activation counts every member.
LEMMA RaisedExact ==
  ASSUME NEW g \in SrgRecord, NEW k
  PROVE  Raised(g, k, {}) = macRefs[k] + Cardinality(Positions(g, k))
<1> DEFINE P == Positions(g, k)
<1>1. P \subseteq Nat
  BY PositionsFacts, SrgAssumption
<1>2. {p \in P : \/ macRefs[k] > 0 \/ \E q \in P : q <= p /\ q \notin {}} = P
  BY <1>1
<1> QED BY <1>2 DEF Raised

\* Of as many members as there are references some member takes the last one:
\* the counts up to each of them are all different.
LEMMA LastTried ==
  ASSUME NEW P \in SUBSET Nat, IsFiniteSet(P), Cardinality(P) > 0
  PROVE  \E p \in P : Upto(P, p) >= Cardinality(P)
<1> DEFINE c == Cardinality(P)
           U(p) == {q \in P : q <= p}
<1> SUFFICES ASSUME \A p \in P : Upto(P, p) < c PROVE FALSE
  <2>1. c \in Nat
    BY FS_CardinalityType
  <2>2. ASSUME NEW p \in P PROVE Upto(P, p) \in Nat
    BY FS_Subset, FS_CardinalityType DEF Upto
  <2> QED BY <2>1, <2>2
<1>1. c \in Nat
  BY FS_CardinalityType
<1>2. ASSUME NEW p \in P
      PROVE  IsFiniteSet(U(p)) /\ Upto(P, p) = Cardinality(U(p)) /\ Upto(P, p) \in 1..(c - 1)
  <2>1. IsFiniteSet(U(p))
    BY FS_Subset
  <2>2. Upto(P, p) = Cardinality(U(p))
    BY DEF Upto
  <2>3. Cardinality(U(p)) \in Nat /\ p \in U(p)
    BY <2>1, FS_CardinalityType
  <2>4. Cardinality(U(p)) # 0
    BY <2>1, <2>3, FS_EmptySet
  <2> HIDE DEF U
  <2>5. Upto(P, p) < c
    OBVIOUS
  <2> QED BY <1>1, <2>1, <2>2, <2>3, <2>4, <2>5
<1> DEFINE f == [p \in P |-> Upto(P, p)]
<1>3. f \in [P -> 1..(c - 1)]
  BY <1>2
<1>4. IsFiniteSet(1..(c - 1)) /\ Cardinality(1..(c - 1)) = c - 1
  <2>1. c - 1 \in Int /\ (1 > c - 1 => c - 1 = 0)
    BY <1>1
  <2> HIDE DEF c
  <2>2. Cardinality(1..(c - 1)) = IF 1 > c - 1 THEN 0 ELSE c - 1 - 1 + 1
    BY <2>1, FS_Interval
  <2> QED BY <1>1, <2>1, <2>2, FS_Interval
<1>5. PICK x \in P, y \in P : x # y /\ f[x] = f[y]
  <2> HIDE DEF f
  <2>1. Cardinality(1..(c - 1)) < Cardinality(P)
    BY <1>1, <1>4
  <2> QED BY <1>3, <1>4, <2>1, FS_PigeonHole
<1>6. Upto(P, x) = Upto(P, y)
  BY <1>5
<1>7. ASSUME NEW a \in P, NEW b \in P, a < b, Upto(P, a) = Upto(P, b) PROVE FALSE
  <2>0. a \in Nat /\ b \in Nat /\ \A q \in P : q \in Nat
    OBVIOUS
  <2>1. U(a) \subseteq U(b) /\ b \in U(b) /\ b \notin U(a)
    <3>1. (\A q \in P : q <= a => q <= b) /\ b <= b /\ ~(b <= a)
      BY <1>7, <2>0
    <3> QED BY <3>1, Zenon
  <2>2. Cardinality(U(a)) = Cardinality(U(b)) /\ IsFiniteSet(U(b))
    BY <1>2, <1>7
  <2> HIDE DEF U
  <2> QED BY <2>1, <2>2, FS_Subset
<1>8. x < y \/ y < x
  BY <1>5
<1> QED BY <1>6, <1>7, <1>8

\* A driver that obeys: deactivation gives back every member's reference.
LEMMA LoweredExact ==
  ASSUME SrgTypeOK, NEW g \in SrgRecord, NEW k \in Ifaces \X Macs,
         Cardinality(Positions(g, k)) <= macRefs[k]
  PROVE  Lowered(g, k, {}) = macRefs[k] - Cardinality(Positions(g, k))
<1> DEFINE P == Positions(g, k)
           r == macRefs[k]
           tried == {p \in P : Upto(P, p) >= r}
<1>1. r \in Nat /\ Cardinality(P) \in Nat /\ IsFiniteSet(P) /\ P \subseteq Nat
  BY PositionsFacts, SrgAssumption DEF SrgTypeOK
<1>2. CASE Cardinality(P) < r
  BY <1>2 DEF Lowered
<1>3. CASE Cardinality(P) = r
  <2>1. r > 0 => tried # {}
    BY <1>1, <1>3, LastTried
  <2>2. ~(r > 0 /\ tried \subseteq {})
    BY <2>1
  <2>3. Lowered(g, k, {}) = 0
    BY <1>1, <1>3, <2>2 DEF Lowered
  <2> QED BY <1>1, <1>3, <2>3
<1> QED BY <1>1, <1>2, <1>3

\* A group that changes between active and standby, or goes, and no other.
LEMMA HoldersOn ==
  ASSUME SrgTypeOK, NEW k, NEW s \in Slots, Slots' = Slots, UNCHANGED <<exists, sup>>,
         \A t \in Slots : t # s => srgs'[t] = srgs[t],
         ~srgs[s].active, srgs'[s].active,
         srgs'[s].members = srgs[s].members, srgs'[s].mac = srgs[s].mac
  PROVE  Cardinality(Holders(k)') = Cardinality(Holders(k)) + Cardinality(Positions(srgs[s], k))
<1> DEFINE P == Positions(srgs[s], k)
           Own == {s} \X P
<1>1. srgs[s] \in SrgRecord
  BY DEF SrgTypeOK, Slots
<1>2. P \subseteq 1..MaxMembers /\ IsFiniteSet(P) /\ Cardinality(P) \in Nat
  BY <1>1, PositionsFacts
<1>3. ASSUME NEW t \in Slots PROVE Positions(srgs[t], k)' = Positions(srgs[t], k)
  BY DEF Positions
<1>4. Holders(k)' = Holders(k) \cup Own
  <2> HIDE DEF P
  <2>1. Holders(k)' = {x \in Slots \X (1..MaxMembers) :
                         srgs'[x[1]].active /\ x[2] \in Positions(srgs[x[1]], k)}
    BY <1>3 DEF Holders
  <2>2. Own \subseteq Slots \X (1..MaxMembers)
    BY <1>2
  <2>3. \A x \in Own : x[1] = s /\ x[2] \in P
    OBVIOUS
  <2>4. \A x \in Slots \X (1..MaxMembers) : x[1] = s /\ x[2] \in P => x \in Own
    OBVIOUS
  <2> HIDE DEF Own
  <2> QED BY <2>1, <2>2, <2>3, <2>4 DEF Holders, P
<1>5. Holders(k) \cap Own = {}
  BY DEF Holders
<1>6. IsFiniteSet(Own) /\ Cardinality(Own) = Cardinality(P)
  <2>1. IsFiniteSet({s}) /\ Cardinality({s}) = 1
    BY FS_Singleton
  <2> HIDE DEF P
  <2>2. IsFiniteSet(Own) /\ Cardinality(Own) = 1 * Cardinality(P)
    BY <1>2, <2>1, FS_Product
  <2> QED BY <1>2, <2>2
<1> HIDE DEF Own, P
<1>7. IsFiniteSet(Holders(k)) /\ Cardinality(Holders(k)) \in Nat
  BY HoldersFinite
<1>8. Cardinality(Holders(k) \cap Own) = 0
  BY <1>5, FS_EmptySet
<1>9. Cardinality(Holders(k) \cup Own) = Cardinality(Holders(k)) + Cardinality(Own) - 0
  BY <1>6, <1>7, <1>8, FS_Union
<1> QED BY <1>2, <1>4, <1>6, <1>7, <1>9 DEF P

LEMMA HoldersOff ==
  ASSUME SrgTypeOK, NEW k, NEW s \in Slots, Slots' = Slots, UNCHANGED <<exists, sup>>,
         \A t \in Slots : t # s => srgs'[t] = srgs[t],
         srgs[s].active, ~srgs'[s].active
  PROVE  /\ Cardinality(Holders(k)') = Cardinality(Holders(k)) - Cardinality(Positions(srgs[s], k))
         /\ Cardinality(Positions(srgs[s], k)) <= Cardinality(Holders(k))
<1> DEFINE P == Positions(srgs[s], k)
           Own == {s} \X P
<1>1. srgs[s] \in SrgRecord
  BY DEF SrgTypeOK, Slots
<1>2. P \subseteq 1..MaxMembers /\ IsFiniteSet(P) /\ Cardinality(P) \in Nat
  BY <1>1, PositionsFacts
<1>3. ASSUME NEW t \in Slots, t # s PROVE Positions(srgs[t], k)' = Positions(srgs[t], k)
  BY <1>3 DEF Positions
<1>4. \A x \in Slots \X (1..MaxMembers) : x \in Own <=> x[1] = s /\ x[2] \in P
  <2> HIDE DEF P
  <2> QED OBVIOUS
<1>5. Own \subseteq Holders(k)
  <2>1. Own \subseteq Slots \X (1..MaxMembers)
    BY <1>2
  <2> HIDE DEF Own
  <2> QED BY <1>4, <2>1 DEF Holders
<1>6. Holders(k)' = Holders(k) \ Own
  <2> HIDE DEF P, Own
  <2>1. Holders(k)' = {x \in Slots \X (1..MaxMembers) :
                         x[1] # s /\ srgs[x[1]].active /\ x[2] \in Positions(srgs[x[1]], k)}
    BY <1>3 DEF Holders
  <2>2. \A x \in Slots \X (1..MaxMembers) :
          x[1] = s /\ x[2] \in Positions(srgs[x[1]], k) => x \in Own
    BY <1>4 DEF P
  <2> QED BY <1>4, <2>1, <2>2 DEF Holders
<1>7. IsFiniteSet(Own) /\ Cardinality(Own) = Cardinality(P)
  <2>1. IsFiniteSet({s}) /\ Cardinality({s}) = 1
    BY FS_Singleton
  <2> HIDE DEF P
  <2>2. IsFiniteSet(Own) /\ Cardinality(Own) = 1 * Cardinality(P)
    BY <1>2, <2>1, FS_Product
  <2> QED BY <1>2, <2>2
<1> HIDE DEF Own, P
<1>8. IsFiniteSet(Holders(k)) /\ Cardinality(Holders(k)) \in Nat
  BY HoldersFinite
<1>9. Holders(k) \cap Own = Own
  BY <1>5
<1>10. Cardinality(Holders(k) \ Own) = Cardinality(Holders(k)) - Cardinality(Own)
  <2>1. Cardinality(Holders(k) \ Own) =
          Cardinality(Holders(k)) - Cardinality(Holders(k) \cap Own)
    BY <1>8, FS_Difference
  <2> QED BY <1>9, <2>1
<1>11. Cardinality(Own) <= Cardinality(Holders(k))
  BY <1>5, <1>8, FS_Subset
<1> QED BY <1>6, <1>7, <1>10, <1>11 DEF P

\* The members that are on a key are the same while the groups and where
\* their members are do not change.
LEMMA HoldersFrame ==
  ASSUME NEW k, UNCHANGED srgs,
         \A s \in Slots : \A p \in DOMAIN srgs[s].members :
           LET i == srgs[s].members[p] IN i \in exists /\ i \in exists' /\ sup'[i] = sup[i]
  PROVE  Holders(k)' = Holders(k)
<1>1. Slots' = Slots
  BY DEF Slots
<1>2. ASSUME NEW s \in Slots PROVE Positions(srgs[s], k)' = Positions(srgs[s], k)
  BY DEF Positions
<1> QED BY <1>1, <1>2 DEF Holders

\* An interface in no group is no group's member.
LEMMA NotAMember ==
  ASSUME SrgTypeOK, SrgShape, ~moves, NEW i \in Ifaces, ifToSrg[i] = 0, NEW s \in Slots,
         NEW p \in DOMAIN srgs[s].members
  PROVE  srgs[s].members[p] # i
<1>1. s # 0
  BY DEF Slots
<1> QED BY <1>1 DEF SrgShape

\* A careful client's groups keep members that exist, and a driver that obeys
\* and a pool that stays where it is keep the counts.
LEMMA AddCounts ==
  ASSUME SrgTypeOK, SrgShape, NEW n \in Names, NEW m \in Macs,
         NEW list \in MemberLists, SrgAdd(n, m, list)
  PROVE  /\ MembersExist => MembersExist'
         /\ RefsExact => RefsExact'
<1>1. PICK g, s : /\ s \in 1..MaxSrgs
                  /\ g = [name |-> n, mac |-> m, members |-> list,
                          active |-> FALSE]
                  /\ SrgPut(s, g)
  BY DEF SrgAdd
<1>2. g \in SrgRecord /\ g.members = list /\ ~g.active
  BY <1>1 DEF SrgRecord
<1>3. /\ \A p \in DOMAIN list : list[p] \in exists
      /\ UNCHANGED <<macRefs, refusals, moves, exists, sup, careful>>
  BY DEF SrgAdd, ifVars
<1>4. /\ s \in Slots' /\ srgs'[s] = g
      /\ Len(srgs) \in Nat /\ Len(srgs') \in Nat /\ Len(srgs) <= Len(srgs')
      /\ \A t \in Slots' : t # s => t \in Slots /\ srgs'[t] = srgs[t]
  BY <1>1, <1>2, PutStep
<1>5. MembersExist => MembersExist'
  BY <1>2, <1>3, <1>4 DEF MembersExist
<1>6. ASSUME ~moves, NEW k PROVE Holders(k)' = Holders(k)
  <2>1. ASSUME NEW t \in Slots', t # s PROVE Positions(srgs[t], k)' = Positions(srgs[t], k)
    BY <1>3, <1>4, <2>1 DEF Positions
  <2>2. Holders(k)' = {x \in Slots' \X (1..MaxMembers) :
                         x[1] # s /\ srgs[x[1]].active /\ x[2] \in Positions(srgs[x[1]], k)}
    BY <1>2, <1>4, <2>1 DEF Holders
  <2>3. Slots \subseteq Slots' /\ \A t \in Slots' : t # s => t \in Slots
    BY <1>4 DEF Slots
  <2>4. s \in Slots => Positions(srgs[s], k) = {}
    BY <1>1, <1>2, <1>6, PutExact, EmptyList DEF Positions
  <2> QED BY <2>2, <2>3, <2>4 DEF Holders
<1> QED BY <1>3, <1>5, <1>6 DEF RefsExact

LEMMA SetStateCounts ==
  ASSUME SrgTypeOK, SrgShape, NEW n \in Names, NEW a \in BOOLEAN, SrgSetState(n, a)
  PROVE  /\ MembersExist => MembersExist'
         /\ RefsExact => RefsExact'
<1>1. PICK s \in Find(n) \ {0} :
        /\ srgs[s].active # a /\ SwitchMembers(s, a)
        /\ srgs' = [srgs EXCEPT ![s].active = a]
        /\ UNCHANGED <<refusals, moves, exists, sup, careful>>
  BY DEF SrgSetState, SwitchMembers
<1>2. s \in Slots /\ srgs[s] \in SrgRecord
  BY Found
<1>3. PICK g : g = [srgs[s] EXCEPT !.active = a]
  OBVIOUS
<1>4. g.members = srgs[s].members /\ g.mac = srgs[s].mac /\ g.active = a
  BY <1>2, <1>3 DEF SrgRecord
<1>5. /\ Slots' = Slots /\ srgs'[s] = g /\ \A t \in Slots : t # s => srgs'[t] = srgs[t]
  <2>1. srgs' = [srgs EXCEPT ![s] = g] /\ g \in SrgRecord
    BY <1>1, <1>2, <1>3 DEF SrgRecord
  <2> QED BY <1>2, <2>1 DEF SrgTypeOK, Slots
<1>6. MembersExist => MembersExist'
  BY <1>1, <1>4, <1>5 DEF MembersExist
<1>7. ASSUME RefsExact, careful, ~refusals, ~moves, NEW k \in Ifaces \X Macs
      PROVE  macRefs'[k] = Cardinality(Holders(k)')
  <2>1. macRefs[k] = Cardinality(Holders(k))
    BY <1>7 DEF RefsExact
  <2>2. macRefs'[k] = IF a THEN Raised(srgs[s], k, {}) ELSE Lowered(srgs[s], k, {})
    BY <1>1, <1>7 DEF SwitchMembers
  <2>3. srgs[s].active \in BOOLEAN
    BY <1>2 DEF SrgRecord
  <2>4. CASE a
    <3>0. /\ ~srgs[s].active /\ srgs'[s].active
          /\ srgs'[s].members = srgs[s].members /\ srgs'[s].mac = srgs[s].mac
      BY <1>1, <1>4, <1>5, <2>3, <2>4
    <3>1. Cardinality(Holders(k)') = Cardinality(Holders(k)) + Cardinality(Positions(srgs[s], k))
      BY <1>1, <1>2, <1>5, <3>0, HoldersOn
    <3> QED BY <1>2, <2>1, <2>2, <2>4, <3>1, RaisedExact
  <2>5. CASE ~a
    <3>1. /\ Cardinality(Holders(k)') = Cardinality(Holders(k)) - Cardinality(Positions(srgs[s], k))
          /\ Cardinality(Positions(srgs[s], k)) <= Cardinality(Holders(k))
      <4>1. srgs[s].active /\ ~srgs'[s].active
        BY <1>1, <1>4, <1>5, <2>3, <2>5
      <4> QED BY <1>1, <1>2, <1>5, <4>1, HoldersOff
    <3> QED BY <1>2, <2>1, <2>2, <2>5, <3>1, LoweredExact
  <2> QED BY <2>4, <2>5
<1> QED BY <1>1, <1>6, <1>7 DEF RefsExact

LEMMA DelCounts ==
  ASSUME SrgTypeOK, SrgShape, NEW n \in Names, SrgDel(n)
  PROVE  /\ MembersExist => MembersExist'
         /\ RefsExact => RefsExact'
<1>1. PICK s \in Find(n) \ {0} : Retire(n, s)
  BY DEF SrgDel
<1>2. s \in Slots /\ srgs[s] \in SrgRecord
  BY Found
<1>3. UNCHANGED <<exists, sup, careful, refusals, moves>>
  BY <1>1 DEF Retire, SwitchMembers, ifVars
<1>4. /\ Slots' = Slots /\ srgs'[s].members = <<>>
      /\ \A t \in Slots : t # s => srgs'[t].members = srgs[t].members
  BY <1>1, RetireFacts
<1>5. MembersExist => MembersExist'
  BY <1>3, <1>4, EmptyList DEF MembersExist
<1>6. ASSUME RefsExact, careful, ~refusals, ~moves, NEW k \in Ifaces \X Macs
      PROVE  macRefs'[k] = Cardinality(Holders(k)')
  <2>1. macRefs[k] = Cardinality(Holders(k)) /\ Find(n) = {s} /\ s # 0
    BY <1>6, FoundLive DEF RefsExact
  <2>2. CASE /\ srgs[s].active /\ SwitchMembers(s, FALSE)
             /\ srgs' = [srgs EXCEPT ![s].active = FALSE, ![s].members = <<>>]
    <3>1. ~srgs'[s].active /\ \A t \in Slots : t # s => srgs'[t] = srgs[t]
      BY <1>2, <2>2 DEF SrgTypeOK, SrgRecord, Slots
    <3>2. macRefs'[k] = Lowered(srgs[s], k, {})
      BY <1>6, <2>2 DEF SwitchMembers
    <3>3. /\ Cardinality(Holders(k)') = Cardinality(Holders(k)) - Cardinality(Positions(srgs[s], k))
          /\ Cardinality(Positions(srgs[s], k)) <= Cardinality(Holders(k))
      BY <1>2, <1>3, <1>4, <2>2, <3>1, HoldersOff
    <3> QED BY <1>2, <2>1, <3>2, <3>3, LoweredExact
  <2>3. CASE /\ ~srgs[s].active /\ macRefs' = macRefs
             /\ srgs' = [srgs EXCEPT ![s].members = <<>>]
    <3>1. ~srgs'[s].active /\ \A t \in Slots : t # s => srgs'[t] = srgs[t]
      BY <1>2, <2>3 DEF SrgTypeOK, SrgRecord, Slots
    <3>2. ASSUME NEW t \in Slots, t # s PROVE Positions(srgs[t], k)' = Positions(srgs[t], k)
      BY <1>3, <3>1, <3>2 DEF Positions
    <3>3. Holders(k)' = Holders(k)
      BY <1>4, <2>3, <3>1, <3>2 DEF Holders
    <3> QED BY <2>1, <2>3, <3>3
  <2> QED BY <1>1, <2>1, <2>2, <2>3 DEF Retire
<1> QED BY <1>3, <1>5, <1>6 DEF RefsExact

LEMMA CountsStep ==
  ASSUME SrgTypeOK, SrgShape, MembersExist, RefsExact, Next
  PROVE  MembersExist' /\ RefsExact'
<1>1. ASSUME UNCHANGED <<srgVars, exists, sup, careful>>
      PROVE  MembersExist' /\ RefsExact'
  BY <1>1 DEF srgVars, MembersExist, RefsExact, Holders, Positions, Slots
<1>2. CASE Punt
  BY <1>1, <1>2, PuntFrame DEF Punt, ifVars
<1>3. CASE Policer
  BY <1>1, <1>3 DEF Policer, ifVars
<1>4. CASE Groups
  BY <1>4, AddCounts, SetStateCounts, DelCounts DEF Groups, SrgNext
<1>5. CASE Gateway
  BY <1>1, <1>5, L2gwFrame DEF Gateway
<1>6. CASE Headends
  BY <1>1, <1>6, PwFrame DEF Headends
<1>7. ASSUME UNCHANGED <<srgVars, careful>>, NEW i \in Ifaces,
             \A j \in Ifaces : j # i => sup'[j] = sup[j],
             careful => \A j \in exists : j # i => j \in exists',
             careful /\ ~moves => \A s \in Slots : \A p \in DOMAIN srgs[s].members : srgs[s].members[p] # i
      PROVE  MembersExist' /\ RefsExact'
  <2>1. Slots' = Slots
    BY <1>7 DEF srgVars, Slots
  <2>2. \A s \in Slots : \A p \in DOMAIN srgs[s].members : srgs[s].members[p] \in Ifaces
    BY MembersFinite DEF SrgTypeOK, Slots
  <2>3. ASSUME careful, ~moves, NEW s \in Slots, NEW p \in DOMAIN srgs[s].members
        PROVE  LET j == srgs[s].members[p] IN j \in exists /\ j \in exists' /\ sup'[j] = sup[j]
    BY <1>7, <2>2, <2>3 DEF MembersExist
  <2>4. MembersExist'
    BY <1>7, <2>1, <2>3 DEF MembersExist, srgVars
  <2>5. ASSUME careful, ~moves, NEW k PROVE Holders(k)' = Holders(k)
    BY <1>7, <2>3, <2>5, HoldersFrame DEF srgVars
  <2>6. RefsExact'
    BY <1>7, <2>5 DEF RefsExact, srgVars
  <2> QED BY <2>4, <2>6
<1>8. ASSUME NEW i \in Ifaces, NEW h \in Ifaces, CreateInterface(i, h)
      PROVE  MembersExist' /\ RefsExact'
  <2>1. /\ UNCHANGED <<srgVars, careful>> /\ i \notin exists /\ exists' = exists \cup {i}
        /\ sup' = [sup EXCEPT ![i] = h]
    BY <1>8 DEF CreateInterface, IfCreate
  <2>2. \A j \in Ifaces : j # i => sup'[j] = sup[j]
    BY <2>1
  <2>3. careful /\ ~moves => \A s \in Slots : \A p \in DOMAIN srgs[s].members : srgs[s].members[p] # i
    BY <2>1 DEF MembersExist
  <2> QED BY <1>7, <2>1, <2>2, <2>3
<1>9. ASSUME NEW i \in Ifaces, DeleteInterface(i)
      PROVE  MembersExist' /\ RefsExact'
  <2>1. /\ UNCHANGED <<srgVars, careful>> /\ exists' = exists \ {i}
        /\ sup' = [sup EXCEPT ![i] = i] /\ (careful => ifToSrg[i] = 0)
    BY <1>9 DEF DeleteInterface, IfDelete, SrgUnused
  <2>2. \A j \in Ifaces : j # i => sup'[j] = sup[j]
    BY <2>1
  <2>3. careful /\ ~moves => \A s \in Slots : \A p \in DOMAIN srgs[s].members : srgs[s].members[p] # i
    BY <2>1, NotAMember
  <2> QED BY <1>7, <2>1, <2>2, <2>3
<1>10. ASSUME NEW i \in Ifaces, NEW f \in Fibs, MoveFib(i, f)
      PROVE  MembersExist' /\ RefsExact'
  BY <1>1, <1>10 DEF MoveFib, IfMoveFib
<1> QED BY StepCases, <1>2, <1>3, <1>4, <1>5, <1>6, <1>8, <1>9, <1>10
-----------------------------------------------------------------------------
(* The layer 2 gateway.                                                    *)

\* Steps of the gateway by what they write: circuits, ports, triggers or the
\* dampener.
LEMMA GatewayCases ==
  ASSUME L2gwNext
  PROVE  \/ \E a \in Keys : CircuitDel(a)
         \/ \E a \in Keys, h \in Keys, on \in BOOLEAN : CircuitAdd(a, h, on)
         \/ \E on \in BOOLEAN : CircuitSetAll(on)
         \/ \E on \in BOOLEAN, c \in EntryIds : CircuitSetState(c, on)
         \/ \E i \in Ifaces, on \in BOOLEAN : L2gwEnableDisable(i, on)
         \/ \E i \in Ifaces, lo, hi \in Svlans, any, add \in BOOLEAN :
              TriggerRange(i, lo, hi, any, add)
         \/ \E w \in Workers, k \in FrameKeys : DampenSearch(w, k)
         \/ \E w \in Workers : DampenStore(w)
         \/ L2gwTick
  BY DEF L2gwNext

\* What the workers and the clock do leaves the tables alone.
LEMMA DampenFrame ==
  ASSUME \/ \E w \in Workers, k \in FrameKeys : DampenSearch(w, k)
         \/ \E w \in Workers : DampenStore(w)
         \/ L2gwTick
  PROVE  UNCHANGED <<tables, ifVars>>
  BY DEF DampenSearch, DampenStore, L2gwTick

\* A port's bit follows its feature and the triggers go with the interface.
LEMMA PortsStep ==
  ASSUME IfTypeOK, L2gwTypeOK, PortStateFresh, Next
  PROVE  PortStateFresh'
<1>1. ASSUME UNCHANGED <<exists, feature, l2gwOn, trigger>> PROVE PortStateFresh'
  BY <1>1 DEF PortStateFresh
<1>2. CASE Punt
  BY <1>1, <1>2, PuntFrame DEF Punt, ifVars, l2gwVars
<1>3. CASE Policer
  BY <1>1, <1>3 DEF Policer, ifVars, l2gwVars
<1>4. CASE Groups
  BY <1>1, <1>4, SrgFrame DEF Groups, l2gwVars
<1>5. CASE Gateway
  <2>1. ASSUME NEW i \in Ifaces, NEW on \in BOOLEAN, L2gwEnableDisable(i, on)
        PROVE  PortStateFresh'
    BY <2>1 DEF L2gwEnableDisable, PortStateFresh
  <2>2. ASSUME NEW i \in Ifaces, NEW lo \in Svlans, NEW hi \in Svlans,
               NEW any \in BOOLEAN, NEW add \in BOOLEAN, TriggerRange(i, lo, hi, any, add)
        PROVE  PortStateFresh'
    <3>1. i \in exists /\ UNCHANGED <<exists, feature, l2gwOn>>
      BY <2>2 DEF TriggerRange, ifVars
    <3>2. \A j \in Ifaces : j # i => trigger'[j] = trigger[j]
      BY <2>2 DEF TriggerRange, L2gwTypeOK
    <3> QED BY <3>1, <3>2 DEF PortStateFresh
  <2>3. ASSUME \/ \E a \in Keys : CircuitDel(a)
               \/ \E a \in Keys, h \in Keys, on \in BOOLEAN : CircuitAdd(a, h, on)
        PROVE  UNCHANGED <<exists, feature, l2gwOn, trigger>>
    BY <2>3 DEF CircuitDel, CircuitAdd, ifVars
  <2>4. ASSUME \/ \E on \in BOOLEAN : CircuitSetAll(on)
               \/ \E on \in BOOLEAN, c \in EntryIds : CircuitSetState(c, on)
        PROVE  UNCHANGED <<exists, feature, l2gwOn, trigger>>
    BY <2>4 DEF CircuitSetAll, CircuitSetState, ifVars
  <2>5. ASSUME UNCHANGED <<tables, ifVars>>
        PROVE  UNCHANGED <<exists, feature, l2gwOn, trigger>>
    BY <2>5 DEF tables, ifVars
  <2> QED
    BY <1>1, <1>5, <2>1, <2>2, <2>3, <2>4, <2>5, GatewayCases, DampenFrame DEF Gateway
<1>6. CASE Headends
  BY <1>1, <1>6, PwFrame DEF Headends, l2gwVars
<1>7. ASSUME NEW i \in Ifaces, NEW h \in Ifaces, CreateInterface(i, h)
      PROVE  PortStateFresh'
  BY <1>7 DEF CreateInterface, IfCreate, l2gwVars, PortStateFresh
<1>8. ASSUME NEW i \in Ifaces, DeleteInterface(i)
      PROVE  PortStateFresh'
  BY <1>8 DEF DeleteInterface, IfDelete, L2gwInterfaceDel, PortStateFresh, L2gwTypeOK
<1>9. ASSUME NEW i \in Ifaces, NEW f \in Fibs, MoveFib(i, f)
      PROVE  PortStateFresh'
  BY <1>1, <1>9 DEF MoveFib, IfMoveFib, l2gwVars
<1> QED BY StepCases, <1>2, <1>3, <1>4, <1>5, <1>6, <1>7, <1>8, <1>9

\* An entry of a circuit, and the entry of a key.
LEMMA EntryFacts ==
  ASSUME L2gwTypeOK, EntriesPaired
  PROVE  /\ \A e \in EntryIds : entries[e] # NoEntry =>
              /\ entries[e] \in [rx : Keys, tx : Keys, on : BOOLEAN,
                                 access : BOOLEAN, peer : EntryIds, circuit : EntryIds]
              /\ entries[e].rx \in Keys /\ entries[e].tx \in Keys
              /\ entries[e].peer \in EntryIds /\ entries[e].peer # e
         /\ \A k \in Keys : circuits[k] # 0 =>
              circuits[k] \in EntryIds /\ entries[circuits[k]] # NoEntry
<1>1. ASSUME NEW e \in EntryIds, entries[e] # NoEntry
      PROVE  /\ entries[e] \in [rx : Keys, tx : Keys, on : BOOLEAN,
                                access : BOOLEAN, peer : EntryIds, circuit : EntryIds]
             /\ entries[e].rx \in Keys /\ entries[e].tx \in Keys
             /\ entries[e].peer \in EntryIds /\ entries[e].peer # e
  <2>1. entries[e] \in EntryRecord
    BY DEF EntriesPaired
  <2>2. entries[e] \in [rx : Keys, tx : Keys, on : BOOLEAN,
                        access : BOOLEAN, peer : EntryIds, circuit : EntryIds]
    BY <1>1, <2>1 DEF EntryRecord
  <2>3. entries[entries[e].peer].access # entries[e].access
    BY <1>1 DEF EntriesPaired, Paired
  <2> QED BY <2>2, <2>3
<1>2. ASSUME NEW k \in Keys, circuits[k] # 0
      PROVE  circuits[k] \in EntryIds /\ entries[circuits[k]] # NoEntry
  <2>1. circuits[k] \in EntryIds
    BY <1>2 DEF L2gwTypeOK
  <2>2. entries[circuits[k]].rx = k
    BY <1>2 DEF EntriesPaired
  <2>3. NoEntry.rx = <<>> /\ k # <<>>
    BY DEF NoEntry, NoKey, Keys
  <2> QED BY <2>1, <2>2, <2>3
<1> QED BY <1>1, <1>2

\* Both directions of a new circuit are in the table, the handoff's last.
LEMMA CircuitAddStep ==
  ASSUME L2gwTypeOK, EntriesPaired, NEW a \in Keys, NEW h \in Keys, NEW on \in BOOLEAN,
         CircuitAdd(a, h, on)
  PROVE  EntriesPaired' /\ circuits' \in [Keys -> EntryIds \cup {0}]
<1> DEFINE A(i, j) == [rx |-> a, tx |-> h, on |-> on, access |-> TRUE, peer |-> j, circuit |-> i]
           H(i, j) == [rx |-> h, tx |-> a, on |-> on, access |-> FALSE, peer |-> i, circuit |-> i]
<1>1. PICK i \in EntryIds, j \in EntryIds :
        /\ PoolGet(i, {}) /\ PoolGet(j, {i})
        /\ entries' = [entries EXCEPT ![i] = A(i, j), ![j] = H(i, j)]
        /\ circuits' = [[circuits EXCEPT ![a] = i] EXCEPT ![h] = j]
  BY DEF CircuitAdd
<1>2. /\ circuits[a] = 0 /\ circuits[h] = 0
      /\ a[1] \in exists /\ h[1] \in exists /\ UNCHANGED <<exists, careful>>
  BY DEF CircuitAdd, ValidCircuit, ifVars
<1>3. i # j /\ entries[i] = NoEntry /\ entries[j] = NoEntry
  BY <1>1 DEF PoolGet
<1>4. /\ A(i, j) \in EntryRecord /\ H(i, j) \in EntryRecord
      /\ A(i, j) # NoEntry /\ H(i, j) # NoEntry
  <2>1. A(i, j) \in EntryRecord /\ H(i, j) \in EntryRecord
    BY DEF EntryRecord
  <2>2. A(i, j).peer = j /\ H(i, j).peer = i /\ NoEntry.peer = 0
    BY DEF NoEntry
  <2>3. i # 0 /\ j # 0
    BY DEF EntryIds
  <2> QED BY <2>1, <2>2, <2>3
<1>5. /\ A(i, j).rx = a /\ A(i, j).tx = h /\ A(i, j).on = on /\ A(i, j).access = TRUE
      /\ A(i, j).peer = j /\ A(i, j).circuit = i
      /\ H(i, j).rx = h /\ H(i, j).tx = a /\ H(i, j).on = on /\ H(i, j).access = FALSE
      /\ H(i, j).peer = i /\ H(i, j).circuit = i
  OBVIOUS
<1>6. entries \in [EntryIds -> EntryRecord] /\ circuits \in [Keys -> EntryIds \cup {0}]
  BY DEF EntriesPaired, L2gwTypeOK
<1>7. PICK ra, rh : ra = A(i, j) /\ rh = H(i, j)
  OBVIOUS
<1> HIDE DEF A, H
<1>8. /\ entries' \in [EntryIds -> EntryRecord]
      /\ entries'[i] = ra /\ entries'[j] = rh
      /\ \A e \in EntryIds : e # i /\ e # j => entries'[e] = entries[e]
  BY <1>1, <1>3, <1>4, <1>6, <1>7
<1>9. /\ circuits' \in [Keys -> EntryIds \cup {0}]
      /\ circuits'[h] = j /\ (a # h => circuits'[a] = i)
      /\ \A k \in Keys : k # a /\ k # h => circuits'[k] = circuits[k]
  BY <1>1, <1>6
<1>10. /\ ra # NoEntry /\ rh # NoEntry
       /\ ra.rx = a /\ ra.tx = h /\ ra.on = on /\ ra.access = TRUE
       /\ ra.peer = j /\ ra.circuit = i
       /\ rh.rx = h /\ rh.tx = a /\ rh.on = on /\ rh.access = FALSE
       /\ rh.peer = i /\ rh.circuit = i
  BY <1>4, <1>5, <1>7
<1>11. ASSUME NEW k \in Keys, circuits'[k] # 0 PROVE entries'[circuits'[k]].rx = k
  <2>1. CASE k # a /\ k # h
    <3>1. circuits'[k] = circuits[k] /\ circuits[k] \in EntryIds /\ entries[circuits[k]] # NoEntry
      BY <1>9, <1>11, <2>1, EntryFacts
    <3>2. entries'[circuits[k]] = entries[circuits[k]]
      BY <1>3, <1>8, <3>1
    <3> QED BY <1>11, <3>1, <3>2 DEF EntriesPaired
  <2>2. CASE k = h
    BY <1>8, <1>9, <1>10, <2>2
  <2>3. CASE k = a /\ a # h
    BY <1>8, <1>9, <1>10, <2>3
  <2> QED BY <2>1, <2>2, <2>3
<1>12. ASSUME NEW e \in EntryIds, entries'[e] # NoEntry
       PROVE  Paired(e)'
  <2>1. CASE e = i
    BY <1>8, <1>9, <1>10, <2>1 DEF Paired
  <2>2. CASE e = j
    BY <1>3, <1>8, <1>9, <1>10, <2>2 DEF Paired
  <2>3. CASE e # i /\ e # j
    <3> DEFINE p == entries[e].peer
               k == entries[e].rx
    <3>1. entries'[e] = entries[e] /\ entries[e] # NoEntry
      BY <1>8, <1>12, <2>3
    <3>2. Paired(e) /\ p \in EntryIds /\ k \in Keys
      BY <3>1, EntryFacts DEF EntriesPaired
    <3>3. p # i /\ p # j /\ entries'[p] = entries[p]
      BY <1>3, <1>8, <3>2 DEF Paired
    <3>4. circuits[k] # 0
      BY <3>2 DEF Paired, EntryIds
    <3>5. circuits'[k] = circuits[k]
      BY <1>2, <1>9, <3>2, <3>4
    <3> QED BY <3>1, <3>2, <3>3, <3>5 DEF Paired
  <2> QED BY <2>1, <2>2, <2>3
<1>13. careful' => \A e \in EntryIds : entries'[e] # NoEntry => entries'[e].tx[1] \in exists'
  <2>1. ASSUME careful, NEW e \in EntryIds, entries'[e] # NoEntry
        PROVE  entries'[e].tx[1] \in exists
    <3>1. CASE e = i \/ e = j
      BY <1>2, <1>8, <1>10, <3>1
    <3>2. CASE e # i /\ e # j
      BY <1>8, <2>1, <3>2 DEF EntriesPaired
    <3> QED BY <3>1, <3>2
  <2> QED BY <1>2, <2>1
<1>14. EntriesPaired'
  BY <1>8, <1>11, <1>12, <1>13 DEF EntriesPaired
<1> QED BY <1>9, <1>14

\* A deletion by either side's key takes both directions and both keys.
LEMMA CircuitDelStep ==
  ASSUME L2gwTypeOK, EntriesPaired, NEW a \in Keys, CircuitDel(a)
  PROVE  EntriesPaired' /\ circuits' \in [Keys -> EntryIds \cup {0}]
<1> DEFINE e == circuits[a]
           p == entries[e].peer
           ke == entries[e].rx
           kp == entries[p].rx
<1>1. /\ e # 0 /\ UNCHANGED <<exists, careful>>
      /\ circuits' = [circuits EXCEPT ![ke] = 0, ![kp] = 0]
      /\ entries' = [entries EXCEPT ![e] = NoEntry, ![p] = NoEntry]
  BY DEF CircuitDel, ifVars
<1>2. e \in EntryIds /\ entries[e] # NoEntry /\ ke \in Keys /\ p \in EntryIds /\ p # e /\ Paired(e)
  BY <1>1, EntryFacts DEF EntriesPaired
<1>3. entries[p] # NoEntry /\ entries[p].peer = e /\ kp \in Keys /\ Paired(p)
  BY <1>2, EntryFacts DEF EntriesPaired, Paired
<1>4. entries \in [EntryIds -> EntryRecord] /\ circuits \in [Keys -> EntryIds \cup {0}]
  BY DEF EntriesPaired, L2gwTypeOK
<1>5. circuits[ke] \in {e, p} /\ circuits[kp] \in {e, p}
  BY <1>2, <1>3 DEF Paired
<1>6. \A f \in EntryIds : entries[f] # NoEntry /\ f # e /\ f # p =>
        entries[f].peer # e /\ entries[f].peer # p
  <2>1. \A f \in EntryIds : entries[f] # NoEntry => entries[entries[f].peer].peer = f
    BY DEF EntriesPaired, Paired
  <2>2. entries[e].peer = p /\ entries[p].peer = e
    BY <1>3
  <2> HIDE DEF e, p
  <2> QED BY <2>1, <2>2
<1> HIDE DEF e, p, ke, kp
<1>7. /\ entries' \in [EntryIds -> EntryRecord]
      /\ entries'[e] = NoEntry /\ entries'[p] = NoEntry
      /\ \A f \in EntryIds : f # e /\ f # p => entries'[f] = entries[f]
  <2>1. NoEntry \in EntryRecord
    BY DEF EntryRecord
  <2> QED BY <1>1, <1>2, <1>4, <2>1
<1>8. /\ circuits' \in [Keys -> EntryIds \cup {0}]
      /\ circuits'[ke] = 0 /\ circuits'[kp] = 0
      /\ \A k \in Keys : k # ke /\ k # kp => circuits'[k] = circuits[k]
  BY <1>1, <1>2, <1>3, <1>4
<1>9. ASSUME NEW k \in Keys, circuits'[k] # 0 PROVE entries'[circuits'[k]].rx = k
  <2>1. circuits'[k] = circuits[k] /\ k # ke /\ k # kp
    BY <1>8, <1>9
  <2>2. circuits[k] \in EntryIds /\ entries[circuits[k]].rx = k
    BY <1>9, <2>1, EntryFacts DEF EntriesPaired
  <2>3. circuits[k] # e /\ circuits[k] # p
    BY <2>1, <2>2 DEF ke, kp
  <2> QED BY <1>7, <2>1, <2>2, <2>3
<1>10. ASSUME NEW f \in EntryIds, entries'[f] # NoEntry
       PROVE  Paired(f)'
  <2> DEFINE q == entries[f].peer
             k == entries[f].rx
  <2>1. f # e /\ f # p /\ entries'[f] = entries[f] /\ entries[f] # NoEntry
    BY <1>7, <1>10
  <2>2. Paired(f) /\ q \in EntryIds /\ k \in Keys /\ q # e /\ q # p
    BY <1>6, <2>1, EntryFacts DEF EntriesPaired
  <2>3. entries'[q] = entries[q]
    BY <1>7, <2>2
  <2>4. circuits[k] \in {f, q}
    BY <2>2 DEF Paired
  <2>5. k # ke /\ k # kp
    BY <1>5, <2>1, <2>2, <2>4
  <2>6. circuits'[k] = circuits[k]
    BY <1>8, <2>2, <2>5
  <2> QED BY <2>1, <2>2, <2>3, <2>6 DEF Paired
<1>11. careful' => \A f \in EntryIds : entries'[f] # NoEntry => entries'[f].tx[1] \in exists'
  <2>1. ASSUME careful, NEW f \in EntryIds, entries'[f] # NoEntry
        PROVE  entries'[f].tx[1] \in exists
    <3>1. f # e /\ f # p
      BY <1>7, <2>1
    <3> QED BY <1>7, <2>1, <3>1 DEF EntriesPaired
  <2> QED BY <1>1, <2>1
<1>12. EntriesPaired'
  BY <1>7, <1>9, <1>10, <1>11 DEF EntriesPaired
<1> QED BY <1>8, <1>12

\* A step that changes only whether entries are enabled, the same for an
\* entry and its peer.
LEMMA EnabledStep ==
  ASSUME L2gwTypeOK, EntriesPaired, UNCHANGED <<circuits, exists, careful>>,
         NEW up \in [EntryIds -> BOOLEAN],
         \A e \in EntryIds : entries[e] # NoEntry => up[e] = up[entries[e].peer],
         entries' = [e \in EntryIds |-> IF entries[e] = NoEntry THEN NoEntry
                                        ELSE [entries[e] EXCEPT !.on = up[e]]]
  PROVE  EntriesPaired'
<1>1. ASSUME NEW e \in EntryIds, entries[e] # NoEntry
      PROVE  /\ entries'[e] \in EntryRecord /\ entries'[e] # NoEntry
             /\ entries'[e].rx = entries[e].rx /\ entries'[e].tx = entries[e].tx
             /\ entries'[e].peer = entries[e].peer /\ entries'[e].access = entries[e].access
             /\ entries'[e].circuit = entries[e].circuit /\ entries'[e].on = up[e]
  <2>1. entries'[e] = [entries[e] EXCEPT !.on = up[e]]
    BY <1>1
  <2>2. PICK r \in [rx : Keys, tx : Keys, on : BOOLEAN,
                    access : BOOLEAN, peer : EntryIds, circuit : EntryIds] : r = entries[e]
    BY <1>1, EntryFacts
  <2>3. entries'[e] = [r EXCEPT !.on = up[e]] /\ up[e] \in BOOLEAN
    BY <2>1, <2>2
  <2>4. PICK q : q = [r EXCEPT !.on = up[e]]
    OBVIOUS
  <2>5. /\ q \in [rx : Keys, tx : Keys, on : BOOLEAN,
                  access : BOOLEAN, peer : EntryIds, circuit : EntryIds]
        /\ q.rx = r.rx /\ q.tx = r.tx /\ q.peer = r.peer /\ q.access = r.access
        /\ q.circuit = r.circuit /\ q.on = up[e]
    BY <2>2, <2>3, <2>4
  <2>6. q # NoEntry
    BY <2>5 DEF NoEntry, EntryIds
  <2> QED BY <2>2, <2>3, <2>4, <2>5, <2>6 DEF EntryRecord
<1>2. \A e \in EntryIds : entries[e] = NoEntry => entries'[e] = NoEntry
  OBVIOUS
<1>3. entries' \in [EntryIds -> EntryRecord]
  <2>1. NoEntry \in EntryRecord
    BY DEF EntryRecord
  <2>2. \A e \in EntryIds : entries'[e] \in EntryRecord
    BY <1>1, <1>2, <2>1
  <2> QED BY <2>2
<1>4. ASSUME NEW k \in Keys, circuits'[k] # 0 PROVE entries'[circuits'[k]].rx = k
  BY <1>1, <1>4, EntryFacts DEF EntriesPaired
<1>5. ASSUME NEW e \in EntryIds, entries'[e] # NoEntry
      PROVE  Paired(e)'
  <2>1. entries[e] # NoEntry
    BY <1>2, <1>5
  <2>2. PICK p \in EntryIds : p = entries[e].peer /\ entries[p] # NoEntry /\ up[e] = up[p]
    BY <2>1, EntryFacts DEF EntriesPaired, Paired
  <2>3. Paired(e)
    BY <2>1 DEF EntriesPaired
  <2>4. /\ entries'[e].rx = entries[e].rx /\ entries'[e].tx = entries[e].tx
        /\ entries'[e].peer = p /\ entries'[e].access = entries[e].access
        /\ entries'[e].circuit = entries[e].circuit /\ entries'[e].on = up[e]
    BY <1>1, <2>1, <2>2
  <2>5. /\ entries'[p].rx = entries[p].rx /\ entries'[p].tx = entries[p].tx
        /\ entries'[p].peer = entries[p].peer /\ entries'[p].access = entries[p].access
        /\ entries'[p].circuit = entries[p].circuit /\ entries'[p].on = up[e]
        /\ entries'[p] # NoEntry
    BY <1>1, <2>2
  <2>6. /\ entries[p].peer = e /\ entries[p].rx = entries[e].tx /\ entries[p].tx = entries[e].rx
        /\ entries[p].access # entries[e].access /\ entries[p].circuit = entries[e].circuit
        /\ circuits[entries[e].rx] \in {e, p}
        /\ entries[e].tx # entries[e].rx => circuits[entries[e].rx] = e
    BY <2>2, <2>3 DEF Paired
  <2>7. circuits' = circuits
    OBVIOUS
  <2> HIDE <2>3
  <2> QED BY <2>4, <2>5, <2>6, <2>7 DEF Paired
<1>6. careful' => \A e \in EntryIds : entries'[e] # NoEntry => entries'[e].tx[1] \in exists'
  BY <1>1, <1>2 DEF EntriesPaired
<1> QED BY <1>3, <1>4, <1>5, <1>6 DEF EntriesPaired

\* vnet_l2gw_circuit_set_state, of one circuit and of all of them.
LEMMA SetStatesStep ==
  ASSUME L2gwTypeOK, EntriesPaired, NEW on \in BOOLEAN,
         CircuitSetAll(on) \/ \E c \in EntryIds : CircuitSetState(c, on)
  PROVE  EntriesPaired'
<1>1. CASE CircuitSetAll(on)
  <2> DEFINE up == [e \in EntryIds |-> on]
  <2>1. UNCHANGED <<circuits, exists, careful>>
    BY <1>1 DEF CircuitSetAll, ifVars
  <2>2. entries' = [e \in EntryIds |-> IF entries[e] = NoEntry THEN NoEntry
                                       ELSE [entries[e] EXCEPT !.on = up[e]]]
    BY <1>1 DEF CircuitSetAll
  <2>3. \A e \in EntryIds : entries[e] # NoEntry => up[e] = up[entries[e].peer]
    BY EntryFacts
  <2>4. up \in [EntryIds -> BOOLEAN]
    OBVIOUS
  <2> HIDE DEF up
  <2> QED BY <2>1, <2>2, <2>3, <2>4, EnabledStep
<1>2. ASSUME NEW c \in EntryIds, CircuitSetState(c, on)
      PROVE  EntriesPaired'
  <2>1. /\ entries[c].access /\ UNCHANGED <<circuits, exists, careful>>
        /\ entries' = [entries EXCEPT ![c].on = on, ![entries[c].peer].on = on]
    BY <1>2 DEF CircuitSetState, ifVars
  <2>2. entries[c] # NoEntry
    BY <2>1 DEF NoEntry
  <2>3. PICK p \in EntryIds : p = entries[c].peer /\ p # c /\ entries[p] # NoEntry /\ entries[p].peer = c
    BY <2>2, EntryFacts DEF EntriesPaired, Paired
  <2> DEFINE up == [e \in EntryIds |-> IF e = c \/ e = p THEN on ELSE entries[e].on]
  <2>4. \A e \in EntryIds : entries[e].on \in BOOLEAN
    <3>1. \A e \in EntryIds : entries[e] \in EntryRecord
      BY DEF EntriesPaired
    <3>2. \A r \in EntryRecord : r.on \in BOOLEAN
      <4>1. NoEntry.on = FALSE
        BY DEF NoEntry
      <4> QED BY <4>1 DEF EntryRecord
    <3> QED BY <3>1, <3>2
  <2>5. up \in [EntryIds -> BOOLEAN]
    BY <2>4
  <2>6. ASSUME NEW e \in EntryIds, entries[e] # NoEntry PROVE up[e] = up[entries[e].peer]
    <3>1. PICK q \in EntryIds : q = entries[e].peer /\ entries[q].peer = e /\ entries[q].on = entries[e].on
      BY <2>6, EntryFacts DEF EntriesPaired, Paired
    <3>2. e = c => q = p
      BY <2>3, <3>1
    <3>3. e = p => q = c
      BY <2>3, <3>1
    <3>4. q = c => e = p
      BY <2>3, <3>1
    <3>5. q = p => e = c
      BY <2>3, <3>1
    <3> QED BY <3>1, <3>2, <3>3, <3>4, <3>5
  <2>7. ASSUME NEW e \in EntryIds
        PROVE  entries'[e] = IF entries[e] = NoEntry THEN NoEntry
                             ELSE [entries[e] EXCEPT !.on = up[e]]
    <3>1. entries \in [EntryIds -> EntryRecord]
      BY DEF EntriesPaired
    <3>2. e = c \/ e = p => entries'[e] = [entries[e] EXCEPT !.on = on]
      BY <2>1, <2>3, <3>1
    <3>3. e # c /\ e # p => entries'[e] = entries[e]
      BY <2>1, <2>3, <3>1
    <3>4. entries[e] # NoEntry => [entries[e] EXCEPT !.on = entries[e].on] = entries[e]
      <4>1. \A r \in [rx : Keys, tx : Keys, on : BOOLEAN,
                      access : BOOLEAN, peer : EntryIds, circuit : EntryIds] :
              [r EXCEPT !.on = r.on] = r
        OBVIOUS
      <4> QED BY <4>1, EntryFacts
    <3> QED BY <2>2, <2>3, <3>2, <3>3, <3>4
  <2>8. entries' = [e \in EntryIds |-> IF entries[e] = NoEntry THEN NoEntry
                                       ELSE [entries[e] EXCEPT !.on = up[e]]]
    <3>1. entries' \in [EntryIds -> {entries'[e] : e \in EntryIds}]
      BY <2>1 DEF EntriesPaired
    <3> HIDE DEF up
    <3> QED BY <2>7, <3>1
  <2> HIDE DEF up
  <2> QED BY <2>1, <2>5, <2>6, <2>8, EnabledStep
<1> QED BY <1>1, <1>2

\* The gateway's tables keep their types.
LEMMA GatewayTypes ==
  ASSUME L2gwTypeOK, EntriesPaired, Next
  PROVE  /\ circuits' \in [Keys -> EntryIds \cup {0}]
         /\ l2gwOn' \subseteq Ifaces
         /\ trigger' \in [Ifaces -> SUBSET Svlans] /\ triggerAny' \in [Ifaces -> SUBSET Svlans]
         /\ lastPunt' \in [FrameKeys -> 0..Interval]
         /\ checking' \in [Workers -> FrameKeys \cup {NoKey}]
<1> DEFINE Goal == /\ circuits' \in [Keys -> EntryIds \cup {0}]
                   /\ l2gwOn' \subseteq Ifaces
                   /\ trigger' \in [Ifaces -> SUBSET Svlans]
                   /\ triggerAny' \in [Ifaces -> SUBSET Svlans]
                   /\ lastPunt' \in [FrameKeys -> 0..Interval]
                   /\ checking' \in [Workers -> FrameKeys \cup {NoKey}]
<1>1. ASSUME UNCHANGED l2gwVars PROVE Goal
  BY <1>1 DEF l2gwVars, L2gwTypeOK
<1>2. CASE Gateway
  <2>1. ASSUME NEW a \in Keys, CircuitDel(a) PROVE Goal
    BY <2>1, CircuitDelStep DEF CircuitDel, L2gwTypeOK
  <2>2. ASSUME NEW a \in Keys, NEW h \in Keys, NEW on \in BOOLEAN, CircuitAdd(a, h, on) PROVE Goal
    BY <2>2, CircuitAddStep DEF CircuitAdd, L2gwTypeOK
  <2>3. ASSUME NEW on \in BOOLEAN, CircuitSetAll(on) \/ \E c \in EntryIds : CircuitSetState(c, on)
        PROVE  Goal
    BY <2>3 DEF CircuitSetAll, CircuitSetState, L2gwTypeOK
  <2>4. ASSUME NEW i \in Ifaces, NEW on \in BOOLEAN, L2gwEnableDisable(i, on) PROVE Goal
    BY <2>4 DEF L2gwEnableDisable, L2gwTypeOK
  <2>5. ASSUME NEW i \in Ifaces, NEW lo \in Svlans, NEW hi \in Svlans,
               NEW any \in BOOLEAN, NEW add \in BOOLEAN, TriggerRange(i, lo, hi, any, add)
        PROVE  Goal
    BY <2>5 DEF TriggerRange, L2gwTypeOK
  <2>6. ASSUME NEW w \in Workers, NEW k \in FrameKeys, DampenSearch(w, k) PROVE Goal
    BY <2>6 DEF DampenSearch, tables, L2gwTypeOK
  <2>7. ASSUME NEW w \in Workers, DampenStore(w) PROVE Goal
    <3>1. 0 \in 0..Interval
      BY L2gwAssumption
    <3> QED BY <2>7, <3>1 DEF DampenStore, tables, L2gwTypeOK
  <2>8. ASSUME L2gwTick PROVE Goal
    <3>1. \A n \in 0..Interval : (IF n < Interval THEN n + 1 ELSE Interval) \in 0..Interval
      BY L2gwAssumption
    <3> QED BY <2>8, <3>1 DEF L2gwTick, tables, L2gwTypeOK
  <2> QED
    BY <1>2, <2>1, <2>2, <2>3, <2>4, <2>5, <2>6, <2>7, <2>8, GatewayCases DEF Gateway
<1>3. ASSUME NEW i \in Ifaces, DeleteInterface(i) PROVE Goal
  BY <1>3 DEF DeleteInterface, L2gwInterfaceDel, L2gwTypeOK
<1>4. ASSUME NEW i \in Ifaces, NEW h \in Ifaces, CreateInterface(i, h) PROVE Goal
  BY <1>1, <1>4 DEF CreateInterface
<1>5. ASSUME NEW i \in Ifaces, NEW f \in Fibs, MoveFib(i, f) PROVE Goal
  BY <1>1, <1>5 DEF MoveFib
<1> QED
  BY StepCases, <1>1, <1>2, <1>3, <1>4, <1>5 DEF Punt, Policer, Groups, Headends

\* A circuit stays whole through every step.
LEMMA CircuitsStep ==
  ASSUME IfTypeOK, L2gwTypeOK, EntriesPaired, Next
  PROVE  L2gwTypeOK' /\ EntriesPaired'
<1>1. ASSUME UNCHANGED <<entries, circuits, exists, careful>> PROVE EntriesPaired'
  BY <1>1 DEF EntriesPaired, Paired
<1>2. ASSUME Gateway PROVE EntriesPaired'
  <2>1. ASSUME \/ \E i \in Ifaces, on \in BOOLEAN : L2gwEnableDisable(i, on)
               \/ \E i \in Ifaces, lo, hi \in Svlans, any, add \in BOOLEAN :
                    TriggerRange(i, lo, hi, any, add)
        PROVE  UNCHANGED <<entries, circuits, exists, careful>>
    BY <2>1 DEF L2gwEnableDisable, TriggerRange, ifVars
  <2>2. ASSUME UNCHANGED <<tables, ifVars>>
        PROVE  UNCHANGED <<entries, circuits, exists, careful>>
    BY <2>2 DEF tables, ifVars
  <2>3. L2gwNext
    BY <1>2 DEF Gateway
  <2> QED
    BY <1>1, <2>1, <2>2, <2>3, CircuitAddStep, CircuitDelStep, SetStatesStep, GatewayCases, DampenFrame
<1>3. ASSUME Punt PROVE EntriesPaired'
  BY <1>1, <1>3, PuntFrame DEF Punt, ifVars, l2gwVars
<1>4. ASSUME Policer PROVE EntriesPaired'
  BY <1>1, <1>4 DEF Policer, ifVars, l2gwVars
<1>5. ASSUME Groups PROVE EntriesPaired'
  BY <1>1, <1>5, SrgFrame DEF Groups, l2gwVars
<1>6. ASSUME Headends PROVE EntriesPaired'
  BY <1>1, <1>6, PwFrame DEF Headends, l2gwVars
<1>7. ASSUME NEW i \in Ifaces, NEW h \in Ifaces, CreateInterface(i, h)
      PROVE  EntriesPaired'
  <2>1. UNCHANGED <<entries, circuits, careful>> /\ exists \subseteq exists'
    BY <1>7 DEF CreateInterface, IfCreate, l2gwVars
  <2> QED BY <2>1 DEF EntriesPaired, Paired
<1>8. ASSUME NEW i \in Ifaces, DeleteInterface(i)
      PROVE  EntriesPaired'
  <2>1. /\ UNCHANGED <<entries, circuits, careful>> /\ exists' = exists \ {i}
        /\ careful => L2gwUnused(i)
    BY <1>8 DEF DeleteInterface, IfDelete, L2gwInterfaceDel
  <2>2. ASSUME careful, NEW e \in EntryIds, entries[e] # NoEntry
        PROVE  entries[e].tx[1] \in exists'
    <3>1. PICK p \in EntryIds : entries[p] # NoEntry /\ entries[p].rx = entries[e].tx
      BY <2>2, EntryFacts DEF EntriesPaired, Paired
    <3>2. entries[p].rx[1] # i
      BY <2>1, <2>2, <3>1 DEF L2gwUnused
    <3>3. entries[e].tx[1] \in exists
      BY <2>2 DEF EntriesPaired
    <3> QED BY <2>1, <3>1, <3>2, <3>3
  <2> QED BY <2>1, <2>2 DEF EntriesPaired, Paired
<1>9. ASSUME NEW i \in Ifaces, NEW f \in Fibs, MoveFib(i, f)
      PROVE  EntriesPaired'
  BY <1>1, <1>9 DEF MoveFib, IfMoveFib, l2gwVars
<1>10. EntriesPaired'
  BY StepCases, <1>2, <1>3, <1>4, <1>5, <1>6, <1>7, <1>8, <1>9
<1>11. ASSUME NEW r \in EntryRecord
       PROVE  r.rx \in Keys \cup {NoKey} /\ r.peer \in EntryIds \cup {0}
  <2>1. NoEntry.rx = NoKey /\ NoEntry.peer = 0
    BY DEF NoEntry
  <2> QED BY <2>1 DEF EntryRecord
<1>12. \A e \in EntryIds : entries'[e].rx \in Keys \cup {NoKey} /\ entries'[e].peer \in EntryIds \cup {0}
  BY <1>10, <1>11 DEF EntriesPaired
<1> QED BY <1>10, <1>12, GatewayTypes DEF L2gwTypeOK
-----------------------------------------------------------------------------
(* The dampener.                                                           *)

LEMMA FrameKeyReal == \A k \in FrameKeys : k # NoKey
  BY DEF FrameKeys, Keys, NoKey

LEMMA CheckingFinite ==
  ASSUME NEW k
  PROVE  /\ IsFiniteSet(Checking(k)) /\ Cardinality(Checking(k)) \in Nat
         /\ Cardinality(Checking(k)) <= Cardinality(Workers) /\ Cardinality(Workers) \in Nat
<1>1. IsFiniteSet(Workers) /\ Checking(k) \subseteq Workers
  BY L2gwAssumption DEF Checking
<1> QED BY <1>1, FS_Subset, FS_CardinalityType

\* A tuple is searched for when it was punted an interval ago or earlier: none
\* of its punts is younger.
LEMMA SearchStep ==
  ASSUME L2gwTypeOK, AllDampened, NEW w \in Workers, NEW k \in FrameKeys, DampenSearch(w, k)
  PROVE  AllDampened'
<1> USE L2gwAssumption
<1>1. /\ checking[w] = NoKey /\ lastPunt[k] >= Interval
      /\ checking' = [checking EXCEPT ![w] = k] /\ UNCHANGED <<lastPunt, punts>>
  BY DEF DampenSearch
<1>2. lastPunt[k] = Interval
  BY <1>1 DEF L2gwTypeOK
<1>3. Dampened(k)'
  <2>1. punts[k] \in [0..(Interval - 1) -> Nat] /\ 0 \in 0..(Interval - 1)
    BY DEF AllDampened
  <2>2. ASSUME NEW a \in 0..(Interval - 1) PROVE punts[k][a] = 0
    <3>1. a # Interval
      OBVIOUS
    <3> QED BY <1>2, <3>1 DEF AllDampened, Dampened
  <2>3. /\ Cardinality(Checking(k)') \in Nat
        /\ Cardinality(Checking(k)') <= Cardinality(Workers)
    <3>1. IsFiniteSet(Workers) /\ Checking(k)' \subseteq Workers
      BY DEF Checking
    <3> QED BY <3>1, FS_Subset, FS_CardinalityType
  <2> QED BY <1>1, <1>2, <2>1, <2>2, <2>3 DEF Dampened
<1>4. ASSUME NEW j \in FrameKeys, j # k PROVE Dampened(j)'
  <2>1. j # NoKey
    BY FrameKeyReal
  <2>2. Checking(j)' = Checking(j)
    BY <1>1, <1>4, <2>1 DEF Checking, L2gwTypeOK
  <2> QED BY <1>1, <2>2 DEF AllDampened, Dampened
<1> QED BY <1>1, <1>3, <1>4 DEF AllDampened

\* A worker that writes is one less that still will.
LEMMA StoreStep ==
  ASSUME L2gwTypeOK, AllDampened, NEW w \in Workers, DampenStore(w)
  PROVE  AllDampened'
<1> USE L2gwAssumption
<1>1. PICK k \in FrameKeys : k = checking[w]
  BY DEF DampenStore, L2gwTypeOK
<1>2. /\ lastPunt' = [lastPunt EXCEPT ![k] = 0]
      /\ punts' = [punts EXCEPT ![k][0] = @ + 1]
      /\ checking' = [checking EXCEPT ![w] = NoKey]
  BY <1>1 DEF DampenStore
<1>3. /\ punts \in [FrameKeys -> [0..(Interval - 1) -> Nat]] /\ punts[k][0] \in Nat
      /\ 0 \in 0..(Interval - 1) /\ k # NoKey
  BY FrameKeyReal DEF AllDampened
<1>4. /\ punts'[k] \in [0..(Interval - 1) -> Nat] /\ punts'[k][0] = punts[k][0] + 1
      /\ \A a \in 0..(Interval - 1) : a # 0 => punts'[k][a] = punts[k][a]
      /\ \A j \in FrameKeys : j # k => punts'[j] = punts[j] /\ lastPunt'[j] = lastPunt[j]
      /\ lastPunt'[k] = 0
      /\ punts' \in [FrameKeys -> [0..(Interval - 1) -> Nat]]
  BY <1>2, <1>3 DEF L2gwTypeOK
<1>5. Checking(k)' = Checking(k) \ {w} /\ w \in Checking(k)
  BY <1>1, <1>2, <1>3 DEF Checking, L2gwTypeOK
<1>6. /\ Cardinality(Checking(k)') = Cardinality(Checking(k)) - 1
      /\ Cardinality(Checking(k)) \in Nat /\ Cardinality(Workers) \in Nat
      /\ Cardinality(Checking(k)) # 0
  <2>1. /\ IsFiniteSet(Checking(k)) /\ Cardinality(Checking(k)) \in Nat
        /\ Cardinality(Workers) \in Nat
    BY CheckingFinite
  <2>2. Cardinality(Checking(k)) # 0
    BY <1>5, <2>1, FS_EmptySet
  <2>3. Cardinality(Checking(k) \ {w}) = Cardinality(Checking(k)) - 1
    BY <1>5, <2>1, FS_RemoveElement
  <2> QED BY <1>5, <2>1, <2>2, <2>3
<1>7. /\ punts[k][0] + Cardinality(Checking(k)) <= Cardinality(Workers)
      /\ lastPunt[k] \in {0, Interval}
      /\ \A a \in 0..(Interval - 1) : punts[k][a] # 0 => a = lastPunt[k]
  BY <1>5 DEF AllDampened, Dampened
<1>8. Dampened(k)'
  <2>1. \A a \in 0..(Interval - 1) : a # 0 => punts'[k][a] = 0
    BY <1>4, <1>7
  <2>2. /\ punts'[k][0] <= Cardinality(Workers)
        /\ punts'[k][0] + Cardinality(Checking(k)') <= Cardinality(Workers)
    BY <1>3, <1>4, <1>6, <1>7
  <2> QED BY <1>4, <2>1, <2>2 DEF Dampened
<1>9. ASSUME NEW j \in FrameKeys, j # k PROVE Dampened(j)'
  <2>1. j # NoKey
    BY FrameKeyReal
  <2>2. Checking(j)' = Checking(j)
    BY <1>1, <1>2, <1>9, <2>1 DEF Checking, L2gwTypeOK
  <2>3. punts'[j] = punts[j] /\ lastPunt'[j] = lastPunt[j] /\ Dampened(j)
    BY <1>4, <1>9 DEF AllDampened
  <2> QED BY <2>2, <2>3 DEF Dampened
<1> QED BY <1>4, <1>8, <1>9 DEF AllDampened

\* The punts grow older together.
LEMMA TickStep ==
  ASSUME L2gwTypeOK, AllDampened, L2gwTick
  PROVE  AllDampened'
<1> USE L2gwAssumption
<1> DEFINE Older(k) == [a \in 0..(Interval - 1) |-> IF a = 0 THEN 0 ELSE punts[k][a - 1]]
<1>1. /\ \A k \in FrameKeys : lastPunt'[k] = IF lastPunt[k] < Interval
                                             THEN lastPunt[k] + 1 ELSE Interval
      /\ punts' = [k \in FrameKeys |-> Older(k)]
      /\ checking' = checking /\ \A w \in Workers : checking[w] = NoKey
  BY DEF L2gwTick, Barrier
<1>2. ASSUME NEW k \in FrameKeys
      PROVE  Older(k) \in [0..(Interval - 1) -> Nat] /\ Dampened(k)'
  <2>1. /\ punts[k] \in [0..(Interval - 1) -> Nat] /\ lastPunt[k] \in 0..Interval
        /\ \A a \in 0..(Interval - 1) : punts[k][a] # 0 =>
             a = lastPunt[k] /\ punts[k][a] <= Cardinality(Workers)
    BY DEF AllDampened, Dampened, L2gwTypeOK
  <2>2. ASSUME NEW a \in 0..(Interval - 1), a # 0 PROVE a - 1 \in 0..(Interval - 1)
    BY <2>2
  <2>3. Older(k) \in [0..(Interval - 1) -> Nat]
    BY <2>1, <2>2
  <2>4. punts'[k] = Older(k)
    BY <1>1
  <2>5. ASSUME NEW a \in 0..(Interval - 1), Older(k)[a] # 0
        PROVE  a = lastPunt'[k] /\ Older(k)[a] <= Cardinality(Workers)
    <3>1. a # 0 /\ Older(k)[a] = punts[k][a - 1]
      BY <2>5
    <3>2. a - 1 = lastPunt[k] /\ punts[k][a - 1] <= Cardinality(Workers)
      BY <2>1, <2>2, <2>5, <3>1
    <3>3. lastPunt'[k] = a
      BY <1>1, <2>1, <3>1, <3>2
    <3> QED BY <3>1, <3>2, <3>3
  <2>6. Checking(k)' = {}
    <3>1. k # NoKey
      BY FrameKeyReal
    <3> QED BY <1>1, <3>1 DEF Checking
  <2>7. Older(k)[0] = 0
    OBVIOUS
  <2>8. Cardinality(Workers) \in Nat /\ Cardinality(Checking(k)') = 0
    BY <2>6, FS_EmptySet, FS_CardinalityType
  <2> HIDE DEF Older
  <2> QED BY <2>3, <2>4, <2>5, <2>6, <2>7, <2>8 DEF Dampened
<1>3. punts' \in [FrameKeys -> [0..(Interval - 1) -> Nat]]
  BY <1>1, <1>2
<1> QED BY <1>2, <1>3 DEF AllDampened

LEMMA DampenerStep ==
  ASSUME L2gwTypeOK, AllDampened, Next
  PROVE  AllDampened'
<1>1. ASSUME UNCHANGED <<lastPunt, checking, punts>> PROVE AllDampened'
  BY <1>1 DEF AllDampened, Dampened, Checking
<1>2. CASE Gateway
  <2>1. ASSUME \/ \E a \in Keys : CircuitDel(a)
               \/ \E a \in Keys, h \in Keys, on \in BOOLEAN : CircuitAdd(a, h, on)
        PROVE  UNCHANGED <<lastPunt, checking, punts>>
    BY <2>1 DEF CircuitDel, CircuitAdd
  <2>2. ASSUME \/ \E on \in BOOLEAN : CircuitSetAll(on)
               \/ \E on \in BOOLEAN, c \in EntryIds : CircuitSetState(c, on)
               \/ \E i \in Ifaces, on \in BOOLEAN : L2gwEnableDisable(i, on)
        PROVE  UNCHANGED <<lastPunt, checking, punts>>
    BY <2>2 DEF CircuitSetAll, CircuitSetState, L2gwEnableDisable
  <2>3. ASSUME NEW i \in Ifaces, NEW lo \in Svlans, NEW hi \in Svlans,
               NEW any \in BOOLEAN, NEW add \in BOOLEAN, TriggerRange(i, lo, hi, any, add)
        PROVE  UNCHANGED <<lastPunt, checking, punts>>
    BY <2>3 DEF TriggerRange
  <2>4. L2gwNext
    BY <1>2 DEF Gateway
  <2> QED BY <1>1, <2>1, <2>2, <2>3, <2>4, SearchStep, StoreStep, TickStep, GatewayCases
<1>3. ASSUME NEW i \in Ifaces, DeleteInterface(i) PROVE AllDampened'
  BY <1>1, <1>3 DEF DeleteInterface, L2gwInterfaceDel
<1>4. ASSUME UNCHANGED l2gwVars PROVE AllDampened'
  BY <1>1, <1>4 DEF l2gwVars
<1>5. ASSUME NEW i \in Ifaces, NEW h \in Ifaces, CreateInterface(i, h) PROVE AllDampened'
  BY <1>4, <1>5 DEF CreateInterface
<1>6. ASSUME NEW i \in Ifaces, NEW f \in Fibs, MoveFib(i, f) PROVE AllDampened'
  BY <1>4, <1>6 DEF MoveFib
<1> QED
  BY StepCases, <1>2, <1>3, <1>4, <1>5, <1>6 DEF Punt, Policer, Groups, Headends
-----------------------------------------------------------------------------
(* The invariant, and the properties of the run that follow from it.       *)

LEMMA InitInv == Init => Inv
<1> SUFFICES ASSUME Init PROVE Inv
  OBVIOUS
<1> USE InterfacesAssumption, PuntAssumption, SrgAssumption, L2gwAssumption
<1>1. IfTypeOK
  BY DEF Init, IfInit, IfTypeOK
<1>2. PwTypeOK /\ Matching /\ HeadendNodes
  BY DEF Init, PwInit, IfInit, PwTypeOK, Matching, HeadendNodes, IsHw, Unbound
<1>3. Receivable
  <2>1. PuntTypeOK /\ route = {f \in Fibs : refs[f] > 0}
    BY DEF Init, PuntInit, PuntTypeOK
  <2>2. \A p \in Protos : enabled[p] = {}
    BY DEF Init, PuntInit
  <2>3. \A f \in Fibs : Counting(f) = {} /\ refs[f] = 0
    BY <2>2 DEF Init, PuntInit, Counting
  <2>4. \A p \in Hooked : enabled[p] = {}
    BY <2>2 DEF Hooked
  <2> QED BY <2>1, <2>2, <2>3, <2>4, FS_EmptySet DEF Receivable
<1>4. SrgTypeOK /\ SrgShape /\ MacsCounted
  <2>1. /\ srgs = <<>> /\ Slots = {} /\ Len(srgs) = 0
    BY DEF Init, SrgInit, Slots
  <2>2. SrgTypeOK
    BY <2>1 DEF Init, SrgInit, SrgTypeOK
  <2>3. SrgShape
    BY <2>1 DEF Init, SrgInit, SrgShape
  <2>4. MacsCounted
    BY DEF Init, SrgInit, IfInit, MacsCounted
  <2> QED BY <2>2, <2>3, <2>4
<1>5. MembersExist /\ RefsExact
  <2>1. /\ Slots = {}
        /\ macRefs = [k \in Ifaces \X Macs |-> 0]
    BY DEF Init, SrgInit, Slots
  <2>2. \A k \in Ifaces \X Macs : Holders(k) = {}
    BY <2>1 DEF Holders
  <2> QED BY <2>1, <2>2, FS_EmptySet DEF MembersExist, RefsExact
<1>6. AllDampened
  <2>1. /\ punts = [k \in FrameKeys |-> [a \in 0..(Interval - 1) |-> 0]]
        /\ checking = [w \in Workers |-> NoKey]
    BY DEF Init, L2gwInit
  <2>2. ASSUME NEW k \in FrameKeys PROVE Dampened(k)
    <3>1. Checking(k) = {}
      BY <2>1, FrameKeyReal DEF Checking
    <3>2. Cardinality(Checking(k)) = 0 /\ Cardinality(Workers) \in Nat
      BY <3>1, FS_EmptySet, FS_CardinalityType
    <3>3. punts[k] = [a \in 0..(Interval - 1) |-> 0] /\ 0 \in 0..(Interval - 1)
      BY <2>1
    <3> QED BY <3>1, <3>2, <3>3 DEF Dampened
  <2> QED BY <2>1, <2>2 DEF AllDampened
<1>7. PortStateFresh
  BY DEF Init, L2gwInit, IfInit, PortStateFresh
<1>8. EntriesPaired
  <2>1. entries = [e \in EntryIds |-> NoEntry] /\ circuits = [k \in Keys |-> 0]
    BY DEF Init, L2gwInit
  <2>2. NoEntry \in EntryRecord
    BY DEF EntryRecord
  <2> QED BY <2>1, <2>2 DEF EntriesPaired
<1>9. L2gwTypeOK
  <2>1. NoEntry.rx = NoKey /\ NoEntry.peer = 0
    BY DEF NoEntry
  <2> QED BY <2>1 DEF Init, L2gwInit, L2gwTypeOK
<1> QED BY <1>1, <1>2, <1>3, <1>4, <1>7, <1>8, <1>9, <1>5, <1>6 DEF Inv, Receivable

LEMMA NextInv == Inv /\ [Next]_vars => Inv'
<1> SUFFICES ASSUME Inv, [Next]_vars PROVE Inv'
  OBVIOUS
<1>1. CASE Next
  <2> USE <1>1
  <2>1. IfTypeOK' /\ PwTypeOK' /\ HeadendNodes' /\ Matching'
    BY InterfacesStep, HeadendsStep DEF Inv
  <2>2. PuntTypeOK' /\ Receivable'
    BY PuntStep DEF Inv, Receivable
  <2>3. SrgTypeOK' /\ SrgShape' /\ MacsCounted'
    BY GroupsStep DEF Inv
  <2>4. PortStateFresh'
    BY PortsStep DEF Inv
  <2>5. L2gwTypeOK' /\ EntriesPaired'
    BY CircuitsStep DEF Inv
  <2>6. MembersExist' /\ RefsExact'
    BY CountsStep DEF Inv
  <2>7. AllDampened'
    BY DampenerStep DEF Inv
  <2> QED BY <2>1, <2>2, <2>3, <2>4, <2>5, <2>6, <2>7 DEF Inv
<1>2. CASE UNCHANGED vars
  <2>1. IfTypeOK' /\ PwTypeOK' /\ HeadendNodes' /\ Matching'
    BY <1>2 DEF Inv, vars, ifVars, pwVars, IfTypeOK, PwTypeOK, HeadendNodes, Matching, IsHw
  <2>2. PuntTypeOK' /\ Receivable'
    BY <1>2 DEF Inv, vars, ifVars, puntVars, PuntTypeOK, Receivable, Counting
  <2>3. SrgTypeOK' /\ SrgShape' /\ MacsCounted'
    BY <1>2 DEF Inv, vars, ifVars, srgVars, SrgTypeOK, SrgShape, MacsCounted, Slots, LiveSrg
  <2>4. PortStateFresh'
    BY <1>2 DEF Inv, vars, ifVars, l2gwVars, PortStateFresh
  <2>5. L2gwTypeOK'
    BY <1>2 DEF Inv, vars, l2gwVars, L2gwTypeOK
  <2>6. EntriesPaired'
    BY <1>2 DEF Inv, vars, ifVars, l2gwVars, EntriesPaired, Paired
  <2>7. MembersExist' /\ RefsExact'
    BY <1>2 DEF Inv, vars, ifVars, srgVars, MembersExist, RefsExact, Holders, Positions, Slots
  <2>8. AllDampened'
    BY <1>2 DEF Inv, vars, l2gwVars, AllDampened, Dampened, Checking
  <2> QED BY <2>1, <2>2, <2>3, <2>4, <2>5, <2>6, <2>7, <2>8 DEF Inv
<1> QED BY <1>1, <1>2

\* The invariant holds in every behaviour of the access plugins: their tables
\* are well typed and agree with each other and with the interface table.
THEOREM InvAlways == Spec => []Inv
  BY InitInv, NextInv, PTL DEF Spec

\* A pseudowire's tunnel and headend name each other and exist, whichever side
\* is deleted first, and a careful client's headend sends into its tunnel
\* while it is bound and out of its own device when it is not
\* (osvbng_tunnel_pw_bind, osvbng_tunnel_sw_interface_add_del).
THEOREM PwBindingsAlways == Spec => []PwBindings
<1>1. ASSUME Inv PROVE PwBindings
  <2>1. IfTypeOK /\ PwTypeOK /\ HeadendNodes /\ Matching
    BY <1>1 DEF Inv
  <2>2. \A i \in Ifaces :
          /\ PwInputOf(i) # Unbound => tunnelOf[PwInputOf(i)] = i /\ i \in exists
          /\ tunnelOf[i] # Unbound => PwInputOf(tunnelOf[i]) = i /\ i \in exists
    BY <2>1 DEF PwInputOf, Matching
  <2>3. ASSUME careful, NEW h \in Ifaces, IsHw(h)
        PROVE  /\ PwOutputOf(h) = tunnelOf[h]
               /\ tunnelOf[h] = Unbound => outNode[h] = OwnNode
    <3>1. tunnelOf[h] # Unbound => outNode[h] = h
      BY <2>1, <2>3 DEF HeadendNodes
    <3>2. tunnelOf[h] = Unbound => outNode[h] = OwnNode
      BY <2>1, <2>3 DEF HeadendNodes
    <3>3. OwnNode \notin Ifaces
      BY InterfacesAssumption DEF OwnNode
    <3> QED BY <3>1, <3>2, <3>3 DEF PwOutputOf
  <2> QED BY <2>1, <2>2, <2>3 DEF PwBindings
<1> QED BY <1>1, InvAlways, PTL

\* The gateway's bit of a port and its input feature agree, and an index
\* without an interface has no DHCP trigger, so that the next interface of the
\* index starts afresh (vnet_l2gw_enable_disable, l2gw_sw_interface_add_del).
THEOREM PortStateFreshAlways == Spec => []PortStateFresh
<1>1. Inv => PortStateFresh
  BY DEF Inv
<1> QED BY <1>1, InvAlways, PTL

\* A careful client's interfaces that punt DHCPv4 are counted in their FIB,
\* and the broadcast route is there exactly while the count is not zero, for
\* any client; a protocol that is punted is hooked
\* (osvbng_punt_enable_disable, osvbng_punt_dhcp_bcast_route).
THEOREM ReceivableAlways == Spec => []Receivable
<1>1. Inv => Receivable
  BY DEF Inv
<1> QED BY <1>1, InvAlways, PTL

\* The MACs counted are those programmed, whatever the driver refuses and
\* whichever groups the lookups lead to; and while the pool stays where it is,
\* if_to_srg and the members of the groups, and srg_by_name and the groups' names,
\* agree for any client (osvbng_srg_add_del, osvbng_srg_set_state).
THEOREM SrgBooksAgreeAlways == Spec => []SrgBooksAgree
<1>1. Inv => SrgBooksAgree
  BY DEF Inv, SrgShape, MacsCounted, SrgBooksAgree
<1> QED BY <1>1, InvAlways, PTL

\* A circuit is whole in both directions, also when entries and keys are used
\* again after a deletion by either side's key
\* (vnet_l2gw_add_del_circuit, vnet_l2gw_circuit_set_state).
THEOREM CircuitsWholeAlways == Spec => []CircuitsWhole
<1>1. ASSUME Inv PROVE CircuitsWhole
  <2>1. L2gwTypeOK /\ EntriesPaired
    BY <1>1 DEF Inv
  <2>2. ASSUME NEW e \in EntryIds, entries[e] # NoEntry
        PROVE  LET p == entries[entries[e].peer] IN
               /\ p.peer = e /\ p.rx = entries[e].tx /\ p.on = entries[e].on
               /\ p.access # entries[e].access /\ p.circuit = entries[e].circuit
               /\ entries[circuits[entries[e].rx]] \in {entries[e], p}
               /\ p.rx # entries[e].rx => circuits[entries[e].rx] = e
    BY <2>1, <2>2 DEF EntriesPaired, Paired
  <2> QED BY <2>1, <2>2 DEF EntriesPaired, CircuitsWhole
<1> QED BY <1>1, InvAlways, PTL

\* For a careful client, a driver that obeys and a pool that does not move, a
\* virtual MAC is on a hardware interface exactly while some active group has
\* a member there, however many groups share the MAC and the interface
\* (osvbng_srg_set_state, osvbng_srg_add_del).
THEOREM VmacWhileActiveAlways == Spec => []VmacWhileActive
<1>1. ASSUME Inv PROVE VmacWhileActive
  <2>1. SUFFICES ASSUME careful, ~refusals, ~moves PROVE macs = Wanted
    BY DEF VmacWhileActive
  <2>2. SrgTypeOK /\ macs = {k \in Ifaces \X Macs : macRefs[k] > 0}
    BY <1>1, <2>1 DEF Inv, MacsCounted
  <2>3. ASSUME NEW k \in Ifaces \X Macs
        PROVE  macRefs[k] > 0 <=> \E s \in Slots : srgs[s].active /\ Positions(srgs[s], k) # {}
    <3>1. macRefs[k] = Cardinality(Holders(k))
      BY <1>1, <2>1 DEF Inv, RefsExact
    <3>2. macRefs[k] > 0 <=> Holders(k) # {}
      BY <2>2, <3>1, HoldersFinite, FS_EmptySet
    <3>3. ASSUME NEW x \in Holders(k)
          PROVE  \E s \in Slots : srgs[s].active /\ Positions(srgs[s], k) # {}
      BY DEF Holders
    <3>4. ASSUME NEW s \in Slots, srgs[s].active, NEW p \in Positions(srgs[s], k)
          PROVE  Holders(k) # {}
      <4>1. p \in 1..MaxMembers
        BY <2>2, PositionsFacts DEF SrgTypeOK, Slots
      <4>2. <<s, p>> \in Holders(k)
        BY <3>4, <4>1 DEF Holders
      <4> QED BY <4>2
    <3> QED BY <3>2, <3>3, <3>4
  <2> QED BY <2>2, <2>3 DEF Wanted
<1> QED BY <1>1, InvAlways, PTL

\* The punts of a line that are younger than the dampening interval come from
\* one tick and are at most one per worker, although the workers search and
\* write the dampener without a lock (l2gw_trigger_dampen_allow).
THEOREM DampenerBoundsAlways == Spec => []DampenerBounds
<1>1. ASSUME Inv PROVE DampenerBounds
  <2>1. \A k \in FrameKeys : Dampened(k)
    BY <1>1 DEF Inv, AllDampened
  <2>2. Cardinality(Workers) \in Nat
    BY L2gwAssumption, FS_CardinalityType
  <2> QED BY <2>1, <2>2 DEF Dampened, DampenerBounds
<1> QED BY <1>1, InvAlways, PTL
-----------------------------------------------------------------------------
(* The policer.                                                            *)

\* What the continuous bucket of thread t leaves of the window from s to u.
Window(t, s, u) == burst[t] + (u - s) * rate[t] - N * From(t, s)

\* The bucket of every thread was last filled to the tightest window since the
\* last configure, and nothing was admitted since.
Lazy(t) ==
  /\ rate[t] = cfgRate /\ burst[t] = N * cfgBurst
  /\ last[t] \in since..now /\ tokens[t] <= burst[t]
  /\ \A u \in Times : u > last[t] => admitted[t][u] = 0
  /\ \A s \in since..last[t] : tokens[t] <= Window(t, s, last[t])
  /\ \E s \in since..last[t] : tokens[t] = Window(t, s, last[t])

PolicerInv == PolicerTypeOK /\ since <= now /\ \A t \in Threads : Lazy(t)

LEMMA ThreadsCounted == N \in Nat \ {0}
  BY PolicerAssumption, FS_CardinalityType, FS_EmptySet DEF N

LEMMA ProductOver ==
  ASSUME NEW a \in Int, NEW b \in Int, NEW c \in Int, NEW r \in Nat
  PROVE  /\ (c - a) * r = (c - b) * r + (b - a) * r
         /\ (c - a) * r \in Int /\ (c - b) * r \in Int /\ (b - a) * r \in Int
         /\ c >= b => (c - b) * r \in Nat
<1>1. (c - a) * r \in Int /\ (c - b) * r \in Int /\ (b - a) * r \in Int
  OBVIOUS
<1>2. (c - a) * r = (c - b) * r + (b - a) * r
  OBVIOUS
<1>3. ASSUME c >= b PROVE (c - b) * r \in Nat
  <2>1. c - b \in Nat
    BY <1>3
  <2> QED BY <2>1
<1> QED BY <1>1, <1>2, <1>3

\* Moments are numbers.
LEMMA TimesNat ==
  ASSUME PolicerTypeOK
  PROVE  /\ Times \subseteq Nat /\ now \in Nat /\ since \in Nat
         /\ \A s \in Times : IsFiniteSet(s..now) /\ s..now \subseteq Times
<1>1. Times \subseteq Nat /\ now \in Times /\ since \in Times
  BY PolicerAssumption DEF Times, PolicerTypeOK
<1>2. ASSUME NEW s \in Times PROVE IsFiniteSet(s..now) /\ s..now \subseteq Times
  <2>1. s \in Int /\ now \in Int
    BY <1>1
  <2> QED BY <1>1, <2>1, FS_Interval, PolicerAssumption DEF Times
<1> QED BY <1>1, <1>2

LEMMA FromNat ==
  ASSUME PolicerTypeOK, NEW t \in Threads, NEW s \in Times
  PROVE  From(t, s) \in Nat
<1>1. IsFiniteSet(s..now) /\ \A u \in s..now : admitted[t][u] \in Nat
  BY TimesNat DEF PolicerTypeOK
<1> QED BY <1>1, SumNat DEF From

\* Nothing is counted after the last packet.
LEMMA FromLate ==
  ASSUME PolicerTypeOK, NEW t \in Threads, NEW s \in Times,
         \A u \in s..now : admitted[t][u] = 0
  PROVE  From(t, s) = 0
<1>1. IsFiniteSet(s..now) /\ \A u \in s..now : admitted[t][u] \in Int /\ admitted[t][u] <= 0
  BY TimesNat DEF PolicerTypeOK
<1>2. PICK f, W : f = admitted[t] /\ W = s..now
  OBVIOUS
<1>3. SumFunctionOnSet(f, W) <= Cardinality(W) * 0
  <2>1. IsFiniteSet(W) /\ \A u \in W : f[u] \in Int /\ f[u] <= 0
    BY <1>1, <1>2
  <2>2. 0 \in Int
    OBVIOUS
  <2> QED BY <2>1, <2>2, SumAtMost
<1>4. Cardinality(W) \in Nat /\ From(t, s) \in Nat /\ From(t, s) = SumFunctionOnSet(f, W)
  BY <1>1, <1>2, FS_CardinalityType, FromNat DEF From
<1> QED BY <1>3, <1>4

\* A packet counts in every window that is open.
LEMMA FromAllow ==
  ASSUME PolicerTypeOK, NEW t \in Threads, NEW s \in since..now, since <= now,
         admitted' = [admitted EXCEPT ![t][now] = @ + 1], now' = now
  PROVE  From(t, s)' = From(t, s) + 1
<1>1. /\ now \in Times /\ s \in Times /\ IsFiniteSet(s..now) /\ now \in s..now
      /\ s..now \subseteq Times /\ admitted \in [Threads -> [Times -> Nat]]
  <2>1. now \in Nat /\ since \in Nat /\ now \in Times
    BY TimesNat DEF PolicerTypeOK
  <2>2. s \in Times /\ now \in s..now
    BY <2>1, PolicerAssumption DEF Times
  <2> QED BY <2>1, <2>2, TimesNat DEF PolicerTypeOK
<1>2. admitted'[t] = [admitted[t] EXCEPT ![now] = @ + 1]
  BY <1>1
<1> DEFINE f == admitted[t]
           g == admitted'[t]
<1>3. /\ \A u \in s..now : f[u] \in Int /\ g[u] \in Int
      /\ \A u \in (s..now) \ {now} : f[u] = g[u]
      /\ g[now] = f[now] + 1 /\ f[now] \in Int
  BY <1>1, <1>2
<1>4. From(t, s)' = SumFunctionOnSet(g, s..now)
  BY DEF From
<1>5. From(t, s) = SumFunctionOnSet(f, s..now)
  BY DEF From
<1> HIDE DEF f, g
<1>6. /\ SumFunctionOnSet(g, s..now) = SumFunctionOnSet(f, s..now) + (g[now] - f[now])
      /\ SumFunctionOnSet(f, s..now) \in Int
  <2>1. PICK W, e : W = s..now /\ e = now
    OBVIOUS
  <2>2. /\ IsFiniteSet(W) /\ e \in W /\ \A u \in W : f[u] \in Int /\ g[u] \in Int
        /\ \A u \in W \ {e} : f[u] = g[u]
    BY <1>1, <1>3, <2>1
  <2>3. /\ SumFunctionOnSet(g, W) = SumFunctionOnSet(f, W) + (g[e] - f[e])
        /\ SumFunctionOnSet(f, W) \in Int
    BY <2>2, SumChange
  <2> QED BY <2>1, <2>3
<1> QED BY <1>3, <1>4, <1>5, <1>6

\* A tick adds nothing to a window.
LEMMA FromTick ==
  ASSUME PolicerTypeOK, NEW t \in Threads, NEW s \in since..now, since <= now,
         now < MaxTime, now' = now + 1, admitted' = admitted, admitted[t][now + 1] = 0
  PROVE  From(t, s)' = From(t, s)
<1>1. PICK W, n, f : W = s..(now + 1) /\ n = now + 1 /\ f = admitted[t]
  OBVIOUS
<1>2. now \in Nat /\ since \in Nat /\ now + 1 \in Times /\ s \in Times /\ s \in Nat
  BY PolicerAssumption, TimesNat DEF Times
<1>3. IsFiniteSet(W) /\ n \in W /\ W \ {n} = s..now /\ W \subseteq Times
  <2>1. IsFiniteSet(W)
    BY <1>1, <1>2, FS_Interval
  <2>2. W \subseteq Times
    BY <1>1, <1>2, PolicerAssumption DEF Times
  <2> QED BY <1>1, <1>2, <2>1, <2>2
<1>4. \A u \in W : f[u] \in Int
  BY <1>1, <1>3 DEF PolicerTypeOK
<1>5. SumFunctionOnSet(f, W) = f[n] + SumFunctionOnSet(f, W \ {n})
  BY <1>3, <1>4, SumPick
<1>6. SumFunctionOnSet(f, W \ {n}) \in Int
  BY <1>3, <1>4, FS_Subset, SumInt
<1>7. From(t, s)' = SumFunctionOnSet(f, W) /\ From(t, s) = SumFunctionOnSet(f, W \ {n})
  BY <1>1, <1>3 DEF From
<1> QED BY <1>1, <1>5, <1>6, <1>7

LEMMA ThreadTyped ==
  ASSUME PolicerInv, NEW t \in Threads
  PROVE  /\ now \in Nat /\ since \in Nat /\ last[t] \in Nat
         /\ since <= last[t] /\ last[t] <= now /\ now \in Times /\ since..now \subseteq Times
         /\ rate[t] \in Nat /\ burst[t] \in Nat /\ tokens[t] \in Nat
         /\ tokens[t] <= burst[t]
  BY TimesNat DEF PolicerInv, PolicerTypeOK, Lazy

\* What a window leaves grows with the rate.
LEMMA WindowGrows ==
  ASSUME PolicerInv, NEW t \in Threads, NEW s \in since..now
  PROVE  /\ Window(t, s, now) = Window(t, s, last[t]) + (now - last[t]) * rate[t]
         /\ Window(t, s, now) \in Int /\ Window(t, s, last[t]) \in Int
         /\ (now - last[t]) * rate[t] \in Nat
<1>1. /\ now \in Int /\ last[t] \in Int /\ last[t] <= now /\ s \in Int /\ s \in Times
      /\ rate[t] \in Nat /\ burst[t] \in Nat
  BY ThreadTyped
<1>2. PICK k \in Int : k = N * From(t, s)
  <2>1. From(t, s) \in Nat
    BY <1>1, FromNat DEF PolicerInv
  <2> QED BY <2>1, ThreadsCounted
<1>3. PICK a \in Int, b \in Int, c \in Nat :
        /\ a = (now - s) * rate[t] /\ b = (last[t] - s) * rate[t]
        /\ c = (now - last[t]) * rate[t] /\ a = c + b
  BY <1>1, ProductOver
<1>4. Window(t, s, now) = burst[t] + a - k /\ Window(t, s, last[t]) = burst[t] + b - k
  BY <1>2, <1>3 DEF Window
<1> QED BY <1>1, <1>3, <1>4

\* The lazy refill is the bucket that was filled all the time.
LEMMA RefilledIs ==
  ASSUME PolicerInv, NEW t \in Threads
  PROVE  /\ Refilled(t) \in Nat /\ Refilled(t) <= burst[t]
         /\ \A s \in since..now : Refilled(t) <= Window(t, s, now)
         /\ \E s \in since..now : Refilled(t) = Window(t, s, now)
<1> DEFINE l == last[t]
<1>1. /\ now \in Nat /\ since \in Nat /\ l \in Nat /\ since <= l /\ l <= now
      /\ rate[t] \in Nat /\ burst[t] \in Nat /\ tokens[t] \in Nat /\ tokens[t] <= burst[t]
      /\ since..now \subseteq Times
  BY ThreadTyped
<1>2. /\ \A s \in since..l : tokens[t] <= Window(t, s, l)
      /\ \E s \in since..l : tokens[t] = Window(t, s, l)
      /\ \A u \in Times : u > l => admitted[t][u] = 0
  BY DEF PolicerInv, Lazy
<1>3. PICK c \in Nat : c = (now - l) * rate[t]
  BY <1>1, ProductOver
<1>4. \A s \in since..now :
        /\ Window(t, s, now) = Window(t, s, l) + c
        /\ Window(t, s, now) \in Int /\ Window(t, s, l) \in Int
  BY <1>3, WindowGrows
<1>5. Refilled(t) = Smaller(tokens[t] + c, burst[t])
  BY <1>3 DEF Refilled
<1>6. ASSUME NEW s \in since..now, s > l
      PROVE  /\ burst[t] <= Window(t, s, now)
             /\ s = now => Window(t, s, now) = burst[t]
  <2>1. From(t, s) = 0
    BY <1>1, <1>2, <1>6, FromLate DEF PolicerInv
  <2>2. (now - s) * rate[t] \in Nat /\ (s = now => (now - s) * rate[t] = 0)
    BY <1>1, ProductOver
  <2>3. PICK d \in Nat : d = (now - s) * rate[t]
    BY <2>2
  <2>4. Window(t, s, now) = burst[t] + d - N * 0
    BY <2>1, <2>3 DEF Window
  <2> QED BY <1>1, <2>2, <2>3, <2>4, ThreadsCounted
<1> HIDE DEF l
<1>7. Refilled(t) \in Nat /\ Refilled(t) <= burst[t]
  BY <1>1, <1>5 DEF Smaller
<1>8. ASSUME NEW s \in since..now PROVE Refilled(t) <= Window(t, s, now)
  <2>1. CASE s > l
    BY <1>1, <1>6, <1>7, <1>4, <2>1
  <2>2. CASE s <= l
    <3>1. tokens[t] <= Window(t, s, l)
      BY <1>1, <1>2, <2>2
    <3>2. Refilled(t) <= tokens[t] + c
      BY <1>1, <1>5 DEF Smaller
    <3> QED BY <1>1, <1>4, <1>7, <3>1, <3>2
  <2> QED BY <1>1, <2>1, <2>2
<1>9. \E s \in since..now : Refilled(t) = Window(t, s, now)
  <2>1. CASE Refilled(t) = tokens[t] + c
    BY <1>1, <1>2, <1>4, <2>1
  <2>2. CASE Refilled(t) # tokens[t] + c
    <3>1. Refilled(t) = burst[t] /\ burst[t] < tokens[t] + c
      BY <1>1, <1>5, <2>2 DEF Smaller
    <3>2. now > l
      <4>1. SUFFICES ASSUME now = l PROVE FALSE
        BY <1>1
      <4>2. c = 0
        BY <1>1, <1>3, <4>1
      <4> QED BY <1>1, <3>1, <4>2
    <3>3. now \in since..now
      BY <1>1
    <3> QED BY <1>6, <3>1, <3>2, <3>3
  <2> QED BY <2>1, <2>2
<1> QED BY <1>7, <1>8, <1>9

\* A bucket that was just filled is full.
Filled(t) ==
  /\ PolicerTypeOK /\ since = now
  /\ rate[t] = cfgRate /\ burst[t] = N * cfgBurst
  /\ tokens[t] = burst[t] /\ last[t] = now /\ admitted[t] = [s \in Times |-> 0]

LEMMA FilledLazy ==
  ASSUME NEW t \in Threads, Filled(t)
  PROVE  Lazy(t)
<1>1. now \in Times /\ now \in Nat /\ burst[t] \in Nat /\ rate[t] \in Nat
  BY TimesNat DEF PolicerTypeOK, Filled
<1>2. since..now = {now} /\ since..last[t] = {now} /\ now..now = {now}
  BY <1>1 DEF Filled
<1>3. From(t, now) = 0
  BY <1>1, <1>2, FromLate DEF Filled
<1>4. Window(t, now, now) = burst[t]
  <2>1. (now - now) * rate[t] = 0 /\ N * 0 = 0
    BY <1>1, ThreadsCounted
  <2> QED BY <1>1, <1>3, <2>1 DEF Window
<1> QED BY <1>1, <1>2, <1>4 DEF Lazy, Filled

LEMMA FilledNext ==
  ASSUME NEW t \in Threads
  PROVE  Filled(t)' => Lazy(t)'
<1>1. Filled(t) => Lazy(t)
  BY FilledLazy
<1> QED BY <1>1, PTL

LEMMA InitPolicerInv == PolicerInit => PolicerInv
<1>1. SUFFICES ASSUME PolicerInit PROVE PolicerInv
  OBVIOUS
<1>2. N * Larger(Burst0, 1) = N * Burst0 /\ N * Burst0 \in Nat /\ Larger(Burst0, 1) \in Nat
  BY PolicerAssumption, ThreadsCounted DEF Larger
<1>3. PolicerTypeOK
  BY <1>1, <1>2, PolicerAssumption DEF PolicerInit, PolicerTypeOK, Times, Share
<1>4. ASSUME NEW t \in Threads PROVE Lazy(t)
  <2>1. /\ since = now /\ rate[t] = cfgRate /\ burst[t] = N * cfgBurst
        /\ tokens[t] = burst[t] /\ last[t] = now /\ admitted[t] = [s \in Times |-> 0]
    BY <1>1, <1>2 DEF PolicerInit, Share
  <2> QED BY <1>3, <2>1, FilledLazy DEF Filled
<1>5. since <= now
  BY <1>1 DEF PolicerInit
<1> QED BY <1>3, <1>4, <1>5 DEF PolicerInv

LEMMA ConfigureStep ==
  ASSUME PolicerInv, NEW r \in Nat, NEW b \in Nat, Configure(r, b)
  PROVE  PolicerInv'
<1>1. /\ cfgRate' = r /\ cfgBurst' \in Nat \ {0} /\ now' = now
      /\ now \in Times /\ now \in Nat /\ Apply(r, cfgBurst')
  <2>1. cfgBurst \in Nat \ {0} /\ now \in Times /\ now \in Nat
    BY TimesNat DEF PolicerInv, PolicerTypeOK
  <2> QED BY <2>1 DEF Configure
<1>2. Larger(cfgBurst', 1) = cfgBurst' /\ N * cfgBurst' \in Nat
  <2>1. PICK c \in Nat \ {0} : c = cfgBurst'
    BY <1>1
  <2>2. Larger(c, 1) = c /\ N * c \in Nat
    BY ThreadsCounted DEF Larger
  <2> QED BY <2>1, <2>2
<1>3. /\ rate' = [t \in Threads |-> r]
      /\ burst' = [t \in Threads |-> N * cfgBurst']
      /\ tokens' = burst' /\ last' = [t \in Threads |-> now] /\ since' = now
      /\ admitted' = [t \in Threads |-> [s \in Times |-> 0]]
  BY <1>1, <1>2 DEF Apply, Share
<1>4. PolicerTypeOK'
  BY <1>1, <1>2, <1>3 DEF PolicerTypeOK
<1>5. ASSUME NEW t \in Threads PROVE Lazy(t)'
  <2>1. Filled(t)'
    BY <1>1, <1>3, <1>4 DEF Filled
  <2> QED BY <2>1, FilledNext
<1>6. since' <= now'
  BY <1>1, <1>3
<1> QED BY <1>4, <1>5, <1>6 DEF PolicerInv

\* Threads a step leaves alone.
LEMMA OtherLazy ==
  ASSUME NEW t \in Threads, Lazy(t),
         UNCHANGED <<now, cfgRate, cfgBurst, rate, burst, since>>,
         tokens'[t] = tokens[t], last'[t] = last[t], admitted'[t] = admitted[t]
  PROVE  Lazy(t)'
<1>1. \A s : From(t, s)' = From(t, s)
  BY DEF From
<1>2. \A s, u : Window(t, s, u)' = Window(t, s, u)
  BY <1>1 DEF Window
<1> QED BY <1>2 DEF Lazy

LEMMA PolicerStill == PolicerInv /\ UNCHANGED policerVars => PolicerInv'
<1>1. SUFFICES ASSUME PolicerInv, UNCHANGED policerVars PROVE PolicerInv'
  OBVIOUS
<1>2. PolicerTypeOK' /\ since' <= now'
  BY <1>1 DEF PolicerInv, PolicerTypeOK, policerVars
<1>3. ASSUME NEW t \in Threads PROVE Lazy(t)'
  BY <1>1, OtherLazy DEF PolicerInv, policerVars
<1> QED BY <1>2, <1>3 DEF PolicerInv

LEMMA BucketTick == PolicerInv /\ PolicerTick => PolicerInv'
<1>1. SUFFICES ASSUME PolicerInv, PolicerTick PROVE PolicerInv'
  OBVIOUS
<1>2. /\ PolicerTypeOK /\ now < MaxTime /\ now' = now + 1
      /\ UNCHANGED <<cfgRate, cfgBurst, rate, burst, tokens, last, since, admitted>>
  BY <1>1 DEF PolicerInv, PolicerTick
<1>3. now \in Nat /\ since \in Nat /\ since <= now /\ now' \in Times /\ now' \in Nat
  BY <1>1, <1>2, TimesNat, PolicerAssumption DEF PolicerInv, Times
<1>4. PolicerTypeOK' /\ since' <= now'
  BY <1>2, <1>3 DEF PolicerTypeOK
<1>5. ASSUME NEW t \in Threads PROVE Lazy(t)'
  <2>1. Lazy(t) /\ last[t] \in Nat /\ last[t] <= now
    BY <1>1, ThreadTyped DEF PolicerInv
  <2>2. admitted[t][now + 1] = 0
    BY <1>2, <1>3, <2>1 DEF Lazy
  <2>3. \A s \in since..now : From(t, s)' = From(t, s)
    BY <1>2, <1>3, <2>2, FromTick
  <2>4. \A u : \A s \in since..now : Window(t, s, u)' = Window(t, s, u)
    BY <1>2, <2>3 DEF Window
  <2>5. since..last[t] \subseteq since..now /\ last[t] \in since'..now'
    <3>1. last[t] \in since..now
      BY <2>1 DEF Lazy
    <3> QED BY <1>2, <1>3, <2>1, <3>1
  <2> QED BY <1>2, <2>1, <2>4, <2>5 DEF Lazy
<1> QED BY <1>4, <1>5 DEF PolicerInv

\* A thread looks at its bucket and takes k of what it holds.
LEMMA BucketStep ==
  ASSUME PolicerInv, NEW t \in Threads, NEW k \in Nat, k <= Refilled(t),
         tokens' = [tokens EXCEPT ![t] = Refilled(t) - k],
         last' = [last EXCEPT ![t] = now],
         UNCHANGED <<now, cfgRate, cfgBurst, rate, burst, since>>,
         admitted' \in [Threads -> [Times -> Nat]],
         \A r \in Threads \ {t} : admitted'[r] = admitted[r],
         \A u \in Times : u > now => admitted'[t][u] = 0,
         \A s \in since..now : N * From(t, s)' = N * From(t, s) + k
  PROVE  PolicerInv'
<1>1. /\ Refilled(t) \in Nat /\ Refilled(t) <= burst[t]
      /\ \A s \in since..now : Refilled(t) <= Window(t, s, now)
      /\ \E s \in since..now : Refilled(t) = Window(t, s, now)
  BY RefilledIs
<1>2. now \in Nat /\ since \in Nat /\ since <= now /\ now \in Times
  BY ThreadTyped
<1>3. PolicerTypeOK' /\ since' <= now'
  <2>1. Refilled(t) - k \in Nat
    BY <1>1
  <2> QED BY <1>2, <2>1 DEF PolicerInv, PolicerTypeOK
<1>4. ASSUME NEW r \in Threads \ {t} PROVE Lazy(r)'
  <2>1. Lazy(r) /\ tokens'[r] = tokens[r] /\ last'[r] = last[r] /\ admitted'[r] = admitted[r]
    BY DEF PolicerInv, PolicerTypeOK
  <2> QED BY <2>1, OtherLazy
<1>5. Lazy(t)'
  <2>1. tokens'[t] = Refilled(t) - k /\ last'[t] = now
    BY DEF PolicerInv, PolicerTypeOK
  <2>2. ASSUME NEW s \in since..now
        PROVE  Window(t, s, now)' = Window(t, s, now) - k /\ Window(t, s, now) \in Int
    <3>1. Window(t, s, now) \in Int
      BY WindowGrows
    <3>2. /\ now \in Int /\ s \in Int /\ rate[t] \in Nat /\ burst[t] \in Nat
          /\ From(t, s) \in Nat
      BY <1>2, ThreadTyped, FromNat DEF PolicerInv
    <3>3. PICK c \in Int, d \in Int : c = (now - s) * rate[t] /\ d = N * From(t, s)
      BY <3>2, ProductOver, ThreadsCounted
    <3>4. Window(t, s, now) = burst[t] + c - d
      BY <3>3 DEF Window
    <3>5. Window(t, s, now)' = burst[t] + c - (d + k)
      BY <3>3 DEF Window
    <3> QED BY <3>1, <3>2, <3>3, <3>4, <3>5
  <2>3. \A s \in since..now : tokens'[t] <= Window(t, s, now)'
    BY <1>1, <2>1, <2>2
  <2>4. \E s \in since..now : tokens'[t] = Window(t, s, now)'
    BY <1>1, <2>1, <2>2
  <2>5. /\ rate'[t] = cfgRate' /\ burst'[t] = N * cfgBurst' /\ last'[t] \in since'..now'
        /\ tokens'[t] <= burst'[t]
    <3>1. rate[t] = cfgRate /\ burst[t] = N * cfgBurst /\ burst[t] \in Nat
      BY ThreadTyped DEF PolicerInv, Lazy
    <3> QED BY <1>1, <1>2, <2>1, <3>1
  <2>6. \A u \in Times : u > last'[t] => admitted'[t][u] = 0
    BY <2>1
  <2>7. /\ \A s \in since'..last'[t] : tokens'[t] <= Window(t, s, last[t])'
        /\ \E s \in since'..last'[t] : tokens'[t] = Window(t, s, last[t])'
    <3>1. \A s : Window(t, s, last[t])' = Window(t, s, now)'
      BY <2>1 DEF Window
    <3> QED BY <2>1, <2>3, <2>4, <3>1
  <2> QED BY <2>5, <2>6, <2>7 DEF Lazy
<1> QED BY <1>3, <1>4, <1>5 DEF PolicerInv

LEMMA RefuseStep ==
  ASSUME PolicerInv, NEW t \in Threads, Refuse(t)
  PROVE  PolicerInv'
<1>1. /\ tokens' = [tokens EXCEPT ![t] = Refilled(t)]
      /\ last' = [last EXCEPT ![t] = now]
      /\ UNCHANGED <<now, cfgRate, cfgBurst, rate, burst, since, admitted>>
  BY DEF Refuse
<1>2. Refilled(t) \in Nat /\ Refilled(t) - 0 = Refilled(t) /\ 0 <= Refilled(t)
  BY RefilledIs
<1> DEFINE k == 0
<1>3. \A s \in since..now : N * From(t, s)' = N * From(t, s) + k
  <2>1. ASSUME NEW s \in since..now PROVE N * From(t, s)' = N * From(t, s) + 0
    <3>1. From(t, s)' = From(t, s)
      BY <1>1 DEF From
    <3>2. N * From(t, s) \in Int
      BY ThreadTyped, FromNat, ThreadsCounted DEF PolicerInv
    <3> QED BY <3>1, <3>2
  <2> QED BY <2>1
<1>4. /\ admitted' \in [Threads -> [Times -> Nat]]
      /\ \A u \in Times : u > now => admitted'[t][u] = 0
  <2>1. \A u \in Times : u > last[t] => admitted[t][u] = 0
    BY DEF PolicerInv, Lazy
  <2>2. last[t] <= now /\ last[t] \in Nat /\ now \in Nat /\ Times \subseteq Nat
    BY ThreadTyped, TimesNat DEF PolicerInv
  <2> QED BY <1>1, <2>1, <2>2 DEF PolicerInv, PolicerTypeOK
<1>5. /\ k \in Nat /\ k <= Refilled(t)
      /\ tokens' = [tokens EXCEPT ![t] = Refilled(t) - k]
  BY <1>1, <1>2
<1> HIDE DEF k
<1> QED BY <1>1, <1>3, <1>4, <1>5, BucketStep

LEMMA AllowStep ==
  ASSUME PolicerInv, NEW t \in Threads, Allow(t)
  PROVE  PolicerInv'
<1>1. /\ tokens' = [tokens EXCEPT ![t] = Refilled(t) - N]
      /\ last' = [last EXCEPT ![t] = now] /\ N <= Refilled(t)
      /\ admitted' = [admitted EXCEPT ![t][now] = @ + 1]
      /\ UNCHANGED <<now, cfgRate, cfgBurst, rate, burst, since>>
  BY RefilledIs, ThreadsCounted DEF Allow
<1>2. PolicerTypeOK /\ now \in Times /\ since <= now /\ N \in Nat
  BY ThreadTyped, ThreadsCounted DEF PolicerInv
<1>3. \A s \in since..now : N * From(t, s)' = N * From(t, s) + N
  <2>1. ASSUME NEW s \in since..now PROVE N * From(t, s)' = N * From(t, s) + N
    <3>1. From(t, s)' = From(t, s) + 1
      BY <1>1, <1>2, FromAllow
    <3>2. PICK v \in Nat : v = From(t, s)
      BY ThreadTyped, FromNat DEF PolicerInv
    <3>3. N * (v + 1) = N * v + N
      BY <1>2
    <3> QED BY <3>1, <3>2, <3>3
  <2> QED BY <2>1
<1>4. /\ admitted' \in [Threads -> [Times -> Nat]]
      /\ \A u \in Times : u > now => admitted'[t][u] = 0
      /\ \A r \in Threads \ {t} : admitted'[r] = admitted[r]
  <2>1. \A u \in Times : u > last[t] => admitted[t][u] = 0
    BY DEF PolicerInv, Lazy
  <2>2. last[t] <= now /\ last[t] \in Nat /\ now \in Nat /\ Times \subseteq Nat
    BY ThreadTyped, TimesNat DEF PolicerInv
  <2>3. admitted \in [Threads -> [Times -> Nat]] /\ admitted[t] \in [Times -> Nat]
    BY <1>2 DEF PolicerTypeOK
  <2>4. /\ admitted'[t] = [admitted[t] EXCEPT ![now] = @ + 1]
        /\ admitted' \in [Threads -> [Times -> Nat]]
    BY <1>1, <1>2, <2>3
  <2>5. ASSUME NEW u \in Times, u > now PROVE admitted'[t][u] = 0
    <3>1. u # now /\ u > last[t]
      BY <2>2, <2>5
    <3> QED BY <2>1, <2>3, <2>4, <3>1
  <2> QED BY <1>1, <2>3, <2>4, <2>5
<1> QED BY <1>1, <1>2, <1>3, <1>4, BucketStep

LEMMA PolicerInvNext == PolicerInv /\ [Next]_vars => PolicerInv'
<1>1. SUFFICES ASSUME PolicerInv, [Next]_vars PROVE PolicerInv'
  OBVIOUS
<1>2. ASSUME Policer PROVE PolicerInv'
  <2>1. ASSUME NEW r \in Rates, NEW b \in Bursts, Configure(r, b) PROVE PolicerInv'
    BY <1>1, <2>1, PolicerAssumption, ConfigureStep
  <2>2. ASSUME NEW r \in Rates, NEW b \in Bursts, CliConfigure(r, b) PROVE PolicerInv'
    <3>1. cfgRate \in Nat /\ r \in Nat /\ b \in Nat
      BY <1>1, PolicerAssumption DEF PolicerInv, PolicerTypeOK
    <3>2. PICK n \in Nat : Configure(n, b)
      BY <2>2, <3>1 DEF CliConfigure
    <3> QED BY <1>1, <3>1, <3>2, ConfigureStep
  <2> QED BY <1>1, <1>2, <2>1, <2>2, BucketTick, AllowStep, RefuseStep DEF Policer, PolicerNext
<1>3. ASSUME ~Policer PROVE UNCHANGED policerVars
  <2>1. CASE Next
    BY <1>3, <2>1, StepCases
       DEF Punt, Groups, Gateway, Headends, CreateInterface, DeleteInterface, MoveFib
  <2>2. CASE UNCHANGED vars
    BY <2>2 DEF vars
  <2> QED BY <1>1, <2>1, <2>2
<1> QED BY <1>1, <1>2, <1>3, PolicerStill

\* A set's least number, when one is known to be in it and below the rest.
LEMMA MinIs ==
  ASSUME NEW S \in SUBSET Int, NEW m \in S, \A x \in S : m <= x
  PROVE  Min(S) = m
<1>1. \E x \in S : \A y \in S : x <= y
  OBVIOUS
<1>2. Min(S) \in S /\ \A y \in S : Min(S) <= y
  BY <1>1 DEF Min
<1>3. PICK n \in Int : n = Min(S) /\ n <= m /\ m <= n
  BY <1>2
<1> QED BY <1>3

\* Both parts of PolicerExact follow from what the buckets hold.
LEMMA PolicerInvExact == PolicerInv => PolicerExact
<1>1. SUFFICES ASSUME PolicerInv PROVE PolicerExact
  OBVIOUS
<1>2. ASSUME NEW t \in Threads PROVE Refilled(t) = Level(t)
  <2> DEFINE Windows == {Window(t, s, now) : s \in since..now}
  <2>1. Level(t) = Min(Windows)
    BY DEF Level, Window
  <2>2. /\ Refilled(t) \in Nat
        /\ \A s \in since..now : Refilled(t) <= Window(t, s, now)
        /\ \E s \in since..now : Refilled(t) = Window(t, s, now)
    BY <1>1, RefilledIs
  <2>3. Windows \in SUBSET Int
    BY <1>1, WindowGrows
  <2>4. Refilled(t) \in Windows /\ \A x \in Windows : Refilled(t) <= x
    BY <2>2
  <2> HIDE DEF Windows
  <2> QED BY <2>1, <2>3, <2>4, MinIs
<1>3. ASSUME NEW s \in since..now
      PROVE  SumFunctionOnSet([t \in Threads |-> From(t, s)], Threads)
               <= cfgRate * (now - s) + N * cfgBurst
  <2>1. /\ now \in Nat /\ s \in Nat /\ s <= now /\ s \in Times
        /\ cfgRate \in Nat /\ cfgBurst \in Nat /\ since <= now
    BY <1>1, TimesNat DEF PolicerInv, PolicerTypeOK, Times
  <2>2. PICK c \in Nat : c = cfgRate * (now - s)
    <3>1. (now - s) * cfgRate \in Nat /\ cfgRate * (now - s) = (now - s) * cfgRate
      BY <2>1, ProductOver
    <3> QED BY <3>1
  <2>3. PICK X \in Nat : X = c + N * cfgBurst
    BY <2>1, ThreadsCounted
  <2> DEFINE f == [t \in Threads |-> From(t, s)]
             q == X \div N
  <2>4. N \in Nat \ {0} /\ q \in Nat /\ N * q <= X
    BY <2>3, ThreadsCounted
  <2>5. ASSUME NEW t \in Threads PROVE From(t, s) \in Nat /\ From(t, s) <= q
    <3>1. From(t, s) \in Nat
      BY <1>1, <2>1, FromNat DEF PolicerInv
    <3>2. 0 <= Window(t, s, now)
      BY <1>1, RefilledIs, WindowGrows
    <3>3. burst[t] = N * cfgBurst /\ (now - s) * rate[t] = c
      <4>1. rate[t] = cfgRate /\ burst[t] = N * cfgBurst
        BY <1>1 DEF PolicerInv, Lazy
      <4> QED BY <2>1, <2>2, <4>1
    <3>4. PICK v \in Nat : v = From(t, s)
      BY <3>1
    <3>5. N * v <= X
      <4>1. N * v \in Int /\ N * cfgBurst \in Int
        BY <2>1, ThreadsCounted
      <4>2. 0 <= N * cfgBurst + c - N * v
        BY <3>2, <3>3, <3>4 DEF Window
      <4> QED BY <2>3, <4>1, <4>2
    <3>6. v <= X \div N
      BY <2>3, <2>4, <3>5
    <3> QED BY <3>4, <3>6
  <2>6. SumFunctionOnSet(f, Threads) <= Cardinality(Threads) * q
    <3>1. \A t \in Threads : f[t] \in Int /\ f[t] <= q
      BY <2>5
    <3>2. q \in Int /\ IsFiniteSet(Threads)
      BY <2>4, PolicerAssumption
    <3> HIDE DEF f, q
    <3> QED BY <3>1, <3>2, SumAtMost
  <2>7. SumFunctionOnSet(f, Threads) \in Int
    <3>1. \A t \in Threads : f[t] \in Int
      BY <2>5
    <3> HIDE DEF f
    <3> QED BY <3>1, PolicerAssumption, SumInt
  <2>8. Cardinality(Threads) * q = N * q
    BY DEF N
  <2>9. N * q \in Int
    BY <2>4
  <2> HIDE DEF f, q
  <2>10. SumFunctionOnSet(f, Threads) <= X
    BY <2>3, <2>4, <2>6, <2>7, <2>8, <2>9
  <2> QED BY <2>2, <2>3, <2>10 DEF f
<1> QED BY <1>1, <1>2, <1>3 DEF PolicerExact, PolicerInv

\* The lazy refill of a thread's bucket is exact, and over every window since
\* the last configure all threads together admit no more than the rate and a
\* burst each, for any rates, bursts and number of threads
\* (osvbng_punt_policer_allow, osvbng_punt_policer_apply).
THEOREM PolicerExactAlways == Spec => []PolicerExact
<1>1. Init => PolicerInv
  BY InitPolicerInv DEF Init
<1>2. Spec => []PolicerInv
  BY <1>1, PolicerInvNext, PTL DEF Spec
<1> QED BY <1>2, PolicerInvExact, PTL
=============================================================================
