------------------------- MODULE CgnatSessionProofs -------------------------
(***************************************************************************)
(* Theorems about CgnatSession, for any number of workers, subscribers,    *)
(* pools and slots.  Inv strengthens the invariants the runs check with    *)
(* what ties a worker in the slow path to the mapping it looked up.        *)
(***************************************************************************)
EXTENDS CgnatSession, FiniteSetTheorems, TLAPS

\* A worker past the lookup carries a packet, and the pool of the packet's
\* mapping still has the outside FIB that the lookup saw.
HasJob ==
  \A w \in Workers : pc[w] # "idle" =>
    /\ job[w] # NULL
    /\ pools[mp[job[w].pkt.sub].pool].fib # NULL

\* A mapping is what the control plane sent, and next_port is in its block.
Planned ==
  \A s \in Subs : mp[s] # NULL =>
    /\ mp[s].pool = Plan[s].pool
    /\ mp[s].out = Plan[s].out
    /\ mp[s].start = Plan[s].start
    /\ mp[s].end = Plan[s].end
    /\ mp[s].next \in mp[s].start..mp[s].end

\* A port that a worker carries or a session holds is from the block.
JobPortInBlock ==
  \A w \in Workers :
    /\ pc[w] \in {"reserve", "create", "unreserve", "free"}
    /\ NeedsPort(job[w].pkt.proto)
    => job[w].port \in mp[job[w].pkt.sub].start..mp[job[w].pkt.sub].end

SessionPortInBlock ==
  \A i \in Live : NeedsPort(sessions[i].proto) =>
    sessions[i].oport \in mp[sessions[i].sub].start..mp[sessions[i].sub].end

\* Fragment records: exact, held by some session, and under the keys of the
\* sessions that hold them.
FragInv ==
  /\ FragExact
  /\ \A f \in FragIdx : frags[f] # NULL => FragHolders(f) # {}
  /\ \A k \in FragIKeys : fragI[k] # NULL =>
       \A i \in FragHolders(fragI[k]) : FragIKey(sessions[i]) = k
  /\ \A k \in FragOKeys : fragO[k] # NULL =>
       \A i \in FragHolders(fragO[k]) : FragOKey(sessions[i]) = k

Inv ==
  /\ TypeOK
  /\ OwnersExist
  /\ HasJob
  /\ Planned
  /\ OutFibCurrent
  /\ TablesResolve
  /\ JobPortInBlock
  /\ SessionPortInBlock
  /\ FragInv
-----------------------------------------------------------------------------
\* cgnat_port_alloc's scan stays in the block, whatever its size.
LEMMA ScanInBlock ==
  ASSUME NEW m \in Mapping, NEW k \in Nat, m.next \in m.start..m.end
  PROVE  Scan(m, k) \in m.start..m.end
<1> DEFINE n == m.end - m.start + 1
           x == m.next - m.start + k
<1>1. m.start \in Nat /\ m.end \in Nat /\ m.next \in Nat
  BY SessionAssumption DEF Mapping, Ports
<1>2. n \in Nat /\ n > 0 /\ x \in Nat
  BY <1>1
<1>3. x % n \in 0..(n - 1)
  <2> HIDE DEF n, x
  <2> QED BY <1>2
<1> QED BY <1>1, <1>3 DEF Scan

LEMMA CardType ==
  ASSUME NEW D \in SUBSET SessionIdx
  PROVE  Cardinality(D) \in Nat
BY SessionAssumption, FS_Subset, FS_CardinalityType

LEMMA Records ==
  ASSUME TypeOK
  PROVE  /\ \A i \in Live : sessions[i] \in Session
         /\ \A s \in Subs : mp[s] # NULL => mp[s] \in Mapping
         /\ \A p \in PoolIds : pools[p] # NULL => pools[p] \in Pool
         /\ \A f \in FragIdx : frags[f] # NULL => frags[f] \in FragRecord
         /\ \A w \in Workers : job[w] # NULL => job[w] \in Job
BY DEF TypeOK, Live

\* NULL is no record: an absent entry is told from a present one.
LEMMA NullIsNoRecord ==
  NULL \notin Mapping /\ NULL \notin Job /\ NULL \notin Session
<1>1. NULL \notin Mapping
  BY SessionAssumption, Zenon DEF Mapping
<1>2. NULL \notin Job
  BY SessionAssumption, Zenon DEF Job
<1>3. NULL \notin Session
  BY SessionAssumption, Zenon DEF Session
<1> QED BY <1>1, <1>2, <1>3

\* A mapping with another session count is a mapping with the same block.
LEMMA Recounted ==
  ASSUME NEW m \in Mapping, NEW n \in Nat
  PROVE  LET m2 == [m EXCEPT !.count = n] IN
         /\ m2 \in Mapping /\ m2.pool = m.pool /\ m2.out = m.out
         /\ m2.start = m.start /\ m2.end = m.end /\ m2.next = m.next
         /\ m2.count = n
BY DEF Mapping

LEMMA KeyTypes ==
  ASSUME NEW s \in Session
  PROVE  /\ I2oKey(s) \in I2oKeys
         /\ O2iKey(s) \in O2iKeys
         /\ FragIKey(s) \in FragIKeys
         /\ FragOKey(s) \in FragOKeys
BY DEF Session, I2oKey, O2iKey, FragIKey, FragOKey, I2oKeys, O2iKeys,
       FragIKeys, FragOKeys

LEMMA InitInv == Init => Inv
BY SessionAssumption
   DEF Init, Inv, TypeOK, OwnersExist, HasJob, Planned, OutFibCurrent,
       TablesResolve, JobPortInBlock, SessionPortInBlock, Live, Steps,
       FragInv, FragExact, FragHolders
-----------------------------------------------------------------------------
(* Deleting sessions.                                                       *)

LEMMA DeleteLive ==
  ASSUME TypeOK, NEW D \in SUBSET Live, DeleteSessions(D)
  PROVE  /\ Live' = Live \ D
         /\ \A i \in Live' : sessions'[i] = sessions[i]
BY SessionAssumption DEF TypeOK, DeleteSessions, SessionsWithout, Live

LEMMA DeleteTypes ==
  ASSUME TypeOK, NEW D \in SUBSET Live, DeleteSessions(D)
  PROVE  /\ sessions' \in [SessionIdx -> Session \cup {NULL}]
         /\ i2o' \in [I2oKeys -> SessionIdx \cup {NULL}]
         /\ o2i' \in [O2iKeys -> SessionIdx \cup {NULL}]
         /\ frags' \in [FragIdx -> FragRecord \cup {NULL}]
         /\ fragI' \in [FragIKeys -> FragIdx \cup {NULL}]
         /\ fragO' \in [FragOKeys -> FragIdx \cup {NULL}]
<1>1. frags' \in [FragIdx -> FragRecord \cup {NULL}]
  <2> SUFFICES ASSUME NEW f \in FragIdx
               PROVE  FragsWithout(D)[f] \in FragRecord \cup {NULL}
    BY DEF DeleteSessions, FragsWithout
  <2> DEFINE c == Cardinality(FragHolders(f) \cap D)
  <2>1. c \in Nat
    BY CardType DEF FragHolders, Live
  <2>2. frags[f] \in FragRecord \cup {NULL}
    BY DEF TypeOK
  <2>3. CASE \/ frags[f] = NULL \/ FragHolders(f) \cap D = {}
             \/ f \in LastFrags(D)
    BY <2>2, <2>3 DEF FragsWithout
  <2>4. CASE ~(\/ frags[f] = NULL \/ FragHolders(f) \cap D = {}
               \/ f \in LastFrags(D))
    <3>1. frags[f] \in FragRecord /\ ~(frags[f].refs <= c)
      BY <2>2, <2>4 DEF LastFrags
    <3>2. frags[f].refs - c \in Nat
      BY <2>1, <3>1 DEF FragRecord
    <3>3. FragsWithout(D)[f] = [frags[f] EXCEPT !.refs = @ - c]
      BY <2>4 DEF FragsWithout
    <3> HIDE DEF c
    <3> QED BY <3>1, <3>2, <3>3 DEF FragRecord
  <2> QED BY <2>3, <2>4
<1>2. sessions' \in [SessionIdx -> Session \cup {NULL}]
  BY DEF TypeOK, DeleteSessions, SessionsWithout
<1>3. /\ i2o' \in [I2oKeys -> SessionIdx \cup {NULL}]
      /\ o2i' \in [O2iKeys -> SessionIdx \cup {NULL}]
      /\ fragI' \in [FragIKeys -> FragIdx \cup {NULL}]
      /\ fragO' \in [FragOKeys -> FragIdx \cup {NULL}]
  BY DEF TypeOK, DeleteSessions, Without
<1> QED BY <1>1, <1>2, <1>3

\* A deleted session takes along the entries that could name it.
LEMMA DeleteResolves ==
  ASSUME TypeOK, TablesResolve, NEW D \in SUBSET Live, DeleteSessions(D)
  PROVE  TablesResolve'
<1>1. \A i \in SessionIdx \ D : sessions'[i] = sessions[i]
  BY DEF TypeOK, DeleteSessions, SessionsWithout
<1>2. ASSUME NEW k \in I2oKeys, i2o'[k] # NULL
      PROVE  sessions'[i2o'[k]] # NULL /\ I2oKey(sessions'[i2o'[k]]) = k
  <2>1. k \notin {I2oKey(sessions[i]) : i \in D} /\ i2o'[k] = i2o[k]
    BY <1>2 DEF DeleteSessions, Without, TypeOK
  <2>2. sessions[i2o[k]] # NULL /\ I2oKey(sessions[i2o[k]]) = k
    BY <1>2, <2>1 DEF TablesResolve
  <2>3. i2o[k] \in SessionIdx \ D
    BY <1>2, <2>1, <2>2 DEF TypeOK
  <2> QED BY <1>1, <2>1, <2>2, <2>3
<1>3. ASSUME NEW k \in O2iKeys, o2i'[k] # NULL
      PROVE  sessions'[o2i'[k]] # NULL /\ O2iKey(sessions'[o2i'[k]]) = k
  <2>1. k \notin {O2iKey(sessions[i]) : i \in D} /\ o2i'[k] = o2i[k]
    BY <1>3 DEF DeleteSessions, Without, TypeOK
  <2>2. sessions[o2i[k]] # NULL /\ O2iKey(sessions[o2i[k]]) = k
    BY <1>3, <2>1 DEF TablesResolve
  <2>3. o2i[k] \in SessionIdx \ D
    BY <1>3, <2>1, <2>2 DEF TypeOK
  <2> QED BY <1>1, <2>1, <2>2, <2>3
<1> QED BY <1>2, <1>3 DEF TablesResolve

LEMMA HoldersFinite ==
  ASSUME NEW f
  PROVE  /\ IsFiniteSet(FragHolders(f)) /\ Cardinality(FragHolders(f)) \in Nat
         /\ FragHolders(f) \subseteq SessionIdx
BY SessionAssumption, FS_Subset, FS_CardinalityType DEF FragHolders, Live

\* A record is evicted exactly when every session that holds it goes.
LEMMA LastFragsAll ==
  ASSUME FragInv, NEW D \in SUBSET Live, NEW f \in FragIdx, frags[f] # NULL
  PROVE  f \in LastFrags(D) <=> FragHolders(f) \subseteq D
<1> DEFINE H == FragHolders(f)
<1>1. /\ IsFiniteSet(H) /\ Cardinality(H) \in Nat /\ H # {}
      /\ frags[f].refs = Cardinality(H)
  BY HoldersFinite DEF FragInv, FragExact
<1>2. /\ Cardinality(H \cap D) \in Nat
      /\ Cardinality(H) = Cardinality(H \cap D) => H = H \cap D
      /\ Cardinality(H \cap D) <= Cardinality(H)
  BY <1>1, FS_Subset, FS_CardinalityType
<1>3. f \in LastFrags(D) <=> H \cap D # {} /\ frags[f].refs <= Cardinality(H \cap D)
  BY DEF LastFrags
<1>4. CASE H \subseteq D
  <2>1. H \cap D = H
    BY <1>4
  <2> QED BY <1>1, <1>3, <1>4, <2>1
<1>5. CASE ~(H \subseteq D)
  <2>1. H # H \cap D
    BY <1>5
  <2>2. ~(frags[f].refs <= Cardinality(H \cap D))
    BY <1>1, <1>2, <2>1
  <2> QED BY <1>3, <1>5, <2>2
<1> QED BY <1>4, <1>5

LEMMA DeleteFrags ==
  ASSUME TypeOK, FragInv, NEW D \in SUBSET Live, DeleteSessions(D)
  PROVE  FragInv'
<1>1. /\ Live' = Live \ D
      /\ \A i \in Live' : sessions'[i] = sessions[i] /\ sessions[i] \in Session
  BY DeleteLive, Records
<1>2. \A f : FragHolders(f)' = FragHolders(f) \ D
  BY <1>1 DEF FragHolders
<1>3. /\ frags' = FragsWithout(D)
      /\ fragI' = Without(fragI, {FragIKey(sessions[i]) : i \in LastHolders(D)})
      /\ fragO' = Without(fragO, {FragOKey(sessions[i]) : i \in LastHolders(D)})
  BY DEF DeleteSessions
<1>4. ASSUME NEW f \in FragIdx
      PROVE  frags'[f] # NULL <=> frags[f] # NULL /\ f \notin LastFrags(D)
  <2>1. NULL \notin FragRecord
    BY SessionAssumption DEF FragRecord
  <2>2. CASE frags[f] = NULL \/ FragHolders(f) \cap D = {}
    BY <1>3, <2>2 DEF FragsWithout, LastFrags
  <2>3. CASE frags[f] # NULL /\ FragHolders(f) \cap D # {} /\ f \in LastFrags(D)
    BY <1>3, <2>3 DEF FragsWithout
  <2>4. CASE frags[f] # NULL /\ FragHolders(f) \cap D # {} /\ f \notin LastFrags(D)
    <3> DEFINE n == frags[f].refs - Cardinality(FragHolders(f) \cap D)
    <3>1. frags'[f] = [frags[f] EXCEPT !.refs = n]
      BY <1>3, <2>4 DEF FragsWithout
    <3>2. frags'[f] \in FragRecord \cup {NULL}
      BY DeleteTypes
    <3>3. frags[f] \in FragRecord
      BY <2>4, Records
    <3>4. n \in Int
      BY <3>3, HoldersFinite, FS_Subset, FS_CardinalityType DEF FragRecord
    <3>5. frags'[f] # NULL
      <4>1. n \in Nat
        <5>1. Cardinality(FragHolders(f) \cap D) \in Nat
          BY HoldersFinite, FS_Subset, FS_CardinalityType
        <5>2. ~(frags[f].refs <= Cardinality(FragHolders(f) \cap D))
          BY <2>4 DEF LastFrags
        <5> QED BY <3>3, <5>1, <5>2 DEF FragRecord
      <4>2. [frags[f] EXCEPT !.refs = n] \in FragRecord
        <5> HIDE DEF n
        <5> QED BY <3>3, <4>1 DEF FragRecord
      <4> QED BY <2>1, <3>1, <4>2
    <3> QED BY <2>4, <3>5
  <2> QED BY <2>2, <2>3, <2>4
<1>5. ASSUME NEW f \in FragIdx, frags'[f] # NULL
      PROVE  /\ frags'[f].refs = Cardinality(FragHolders(f) \ D)
             /\ FragHolders(f) \ D # {}
  <2> DEFINE H == FragHolders(f)
  <2>1. frags[f] # NULL /\ f \notin LastFrags(D) /\ frags[f] \in FragRecord
    BY <1>4, <1>5, Records
  <2>2. ~(H \subseteq D)
    BY <2>1, LastFragsAll
  <2>3. Cardinality(H \ D) = Cardinality(H) - Cardinality(H \cap D)
    BY HoldersFinite, FS_Difference
  <2>4. frags[f].refs = Cardinality(H)
    BY <2>1 DEF FragInv, FragExact
  <2>5. CASE H \cap D = {}
    <3>1. H \ D = H /\ frags'[f] = frags[f]
      BY <1>3, <2>1, <2>5 DEF FragsWithout
    <3> QED BY <2>2, <2>4, <3>1
  <2>6. CASE H \cap D # {}
    <3>1. frags'[f] = [frags[f] EXCEPT !.refs = @ - Cardinality(H \cap D)]
      BY <1>3, <2>1, <2>6 DEF FragsWithout
    <3>2. frags'[f].refs = frags[f].refs - Cardinality(H \cap D)
      BY <2>1, <3>1 DEF FragRecord
    <3> QED BY <2>2, <2>3, <2>4, <3>2
  <2> QED BY <2>5, <2>6
<1>6. ASSUME NEW i \in Live'
      PROVE  /\ sessions[i].frag \in FragIdx
             /\ FragIKey(sessions[i]) \in FragIKeys
             /\ frags'[sessions[i].frag] # NULL
             /\ fragI'[FragIKey(sessions[i])] = sessions[i].frag
  <2> DEFINE f == sessions[i].frag
             k == FragIKey(sessions[i])
  <2>1. f \in FragIdx /\ k \in FragIKeys /\ i \in Live /\ i \notin D
    BY <1>1, <1>6, KeyTypes DEF Session
  <2>2. frags[f] # NULL /\ fragI[k] = f
    BY <2>1 DEF FragInv, FragExact
  <2>3. f \notin LastFrags(D)
    BY <2>1, <2>2, LastFragsAll DEF FragHolders
  <2>4. \A j \in LastHolders(D) : FragIKey(sessions[j]) # k
    <3> SUFFICES ASSUME NEW j \in LastHolders(D), FragIKey(sessions[j]) = k
                 PROVE  FALSE
      OBVIOUS
    <3>1. j \in Live /\ sessions[j].frag \in LastFrags(D)
      BY DEF LastHolders
    <3>2. fragI[FragIKey(sessions[j])] = sessions[j].frag
      BY <3>1 DEF FragInv, FragExact
    <3> QED BY <2>2, <2>3, <3>1, <3>2
  <2>5. fragI'[k] = fragI[k]
    BY <1>3, <2>1, <2>4 DEF Without, TypeOK
  <2> QED BY <1>4, <2>1, <2>2, <2>3, <2>5
<1>7. ASSUME NEW k \in FragIKeys, fragI'[k] # NULL
      PROVE  frags'[fragI'[k]] # NULL /\ fragI'[k] = fragI[k]
  <2>1. /\ fragI'[k] = fragI[k] /\ fragI[k] \in FragIdx
        /\ k \notin {FragIKey(sessions[i]) : i \in LastHolders(D)}
    BY <1>3, <1>7 DEF Without, TypeOK
  <2>2. frags[fragI[k]] # NULL
    BY <1>7, <2>1 DEF FragInv, FragExact
  <2>3. ASSUME fragI[k] \in LastFrags(D) PROVE FALSE
    <3>1. PICK i \in FragHolders(fragI[k]) : i \in D
      BY <2>3 DEF LastFrags
    <3>2. FragIKey(sessions[i]) = k
      BY <1>7, <2>1 DEF FragInv
    <3>3. i \in LastHolders(D)
      BY <2>3, <3>1 DEF LastHolders, FragHolders
    <3> QED BY <2>1, <3>2, <3>3
  <2> QED BY <1>4, <2>1, <2>2, <2>3
<1>8. ASSUME NEW k \in FragOKeys, fragO'[k] # NULL
      PROVE  frags'[fragO'[k]] # NULL /\ fragO'[k] = fragO[k]
  <2>1. /\ fragO'[k] = fragO[k] /\ fragO[k] \in FragIdx
        /\ k \notin {FragOKey(sessions[i]) : i \in LastHolders(D)}
    BY <1>3, <1>8 DEF Without, TypeOK
  <2>2. frags[fragO[k]] # NULL
    BY <1>8, <2>1 DEF FragInv, FragExact
  <2>3. ASSUME fragO[k] \in LastFrags(D) PROVE FALSE
    <3>1. PICK i \in FragHolders(fragO[k]) : i \in D
      BY <2>3 DEF LastFrags
    <3>2. FragOKey(sessions[i]) = k
      BY <1>8, <2>1 DEF FragInv
    <3>3. i \in LastHolders(D)
      BY <2>3, <3>1 DEF LastHolders, FragHolders
    <3> QED BY <2>1, <3>2, <3>3
  <2> QED BY <1>4, <2>1, <2>2, <2>3
<1>9. FragExact'
  BY <1>1, <1>2, <1>5, <1>6, <1>7, <1>8 DEF FragExact
<1>10. /\ \A f \in FragIdx : frags'[f] # NULL => FragHolders(f)' # {}
       /\ \A k \in FragIKeys : fragI'[k] # NULL =>
            \A i \in FragHolders(fragI[k])' : FragIKey(sessions[i])' = k
       /\ \A k \in FragOKeys : fragO'[k] # NULL =>
            \A i \in FragHolders(fragO[k])' : FragOKey(sessions[i])' = k
  <2>1. \A f \in FragIdx : frags'[f] # NULL => FragHolders(f)' # {}
    BY <1>2, <1>5
  <2>2. \A f : \A i \in FragHolders(f)' :
          i \in FragHolders(f) /\ sessions'[i] = sessions[i]
    BY <1>1, <1>2 DEF FragHolders
  <2>3. ASSUME NEW k \in FragIKeys, fragI'[k] # NULL,
               NEW i \in FragHolders(fragI[k])'
        PROVE  FragIKey(sessions[i])' = k
    <3>1. fragI'[k] = fragI[k]
      BY <1>7, <2>3
    <3>2. i \in FragHolders(fragI[k]) /\ sessions'[i] = sessions[i]
      BY <2>2, <2>3, <3>1 DEF FragHolders
    <3>3. FragIKey(sessions[i]) = k
      BY <2>3, <3>1, <3>2 DEF FragInv
    <3> QED BY <3>2, <3>3 DEF FragIKey
  <2>4. ASSUME NEW k \in FragOKeys, fragO'[k] # NULL,
               NEW i \in FragHolders(fragO[k])'
        PROVE  FragOKey(sessions[i])' = k
    <3>1. fragO'[k] = fragO[k]
      BY <1>8, <2>4
    <3>2. i \in FragHolders(fragO[k]) /\ sessions'[i] = sessions[i]
      BY <2>2, <2>4, <3>1 DEF FragHolders
    <3>3. FragOKey(sessions[i]) = k
      BY <2>4, <3>1, <3>2 DEF FragInv
    <3> QED BY <3>2, <3>3 DEF FragOKey
  <2> QED BY <2>1, <2>3, <2>4
<1> QED BY <1>9, <1>10 DEF FragInv

\* Releasing sessions keeps the mappings: only counts and cooldowns move.
SameMapping(m, n) ==
  /\ n \in Mapping
  /\ n.pool = m.pool /\ n.out = m.out
  /\ n.start = m.start /\ n.end = m.end /\ n.next = m.next

LEMMA ReleasedSame ==
  ASSUME NEW m \in Mapping, NEW D \in SUBSET SessionIdx
  PROVE  SameMapping(m, Released(m, D))
<1> DEFINE c == Cardinality(D)
           n == IF m.count > c THEN m.count - c ELSE 0
           q == [p \in Ports |->
                   IF \E i \in D : /\ NeedsPort(sessions[i].proto)
                                   /\ sessions[i].oport = p
                                   /\ p \in m.start..m.end
                   THEN Cooldown ELSE m.cool[p]]
<1>1. c \in Nat
  BY CardType
<1>2. n \in Nat
  BY <1>1 DEF Mapping
<1>3. q \in [Ports -> 0..Cooldown]
  BY SessionAssumption DEF Mapping
<1>4. Released(m, D) = [m EXCEPT !.count = n, !.cool = q]
  BY DEF Released
<1> HIDE DEF n, q
<1> QED BY <1>2, <1>3, <1>4 DEF SameMapping, Mapping

LEMMA MappingsSame ==
  ASSUME TypeOK, NEW D \in SUBSET Live
  PROVE  /\ MappingsWithout(D) \in [Subs -> Mapping \cup {NULL}]
         /\ \A s \in Subs :
              /\ mp[s] = NULL => MappingsWithout(D)[s] = NULL
              /\ mp[s] # NULL => SameMapping(mp[s], MappingsWithout(D)[s])
<1> SUFFICES ASSUME NEW s \in Subs
             PROVE  /\ MappingsWithout(D)[s] \in Mapping \cup {NULL}
                    /\ mp[s] = NULL => MappingsWithout(D)[s] = NULL
                    /\ mp[s] # NULL =>
                         SameMapping(mp[s], MappingsWithout(D)[s])
  BY DEF MappingsWithout
<1>1. CASE mp[s] = NULL
  BY <1>1 DEF MappingsWithout
<1>2. CASE mp[s] # NULL
  <2>1. mp[s] \in Mapping
    BY <1>2 DEF TypeOK
  <2>2. SameMapping(mp[s], mp[s])
    BY <2>1 DEF SameMapping
  <2>3. SameMapping(mp[s], Released(mp[s], D \cap LiveOf(s)))
    BY <2>1, ReleasedSame DEF LiveOf, Live
  <2>4. MappingsWithout(D)[s] \in {mp[s], Released(mp[s], D \cap LiveOf(s))}
    BY <1>2 DEF MappingsWithout
  <2> QED BY <1>2, <2>2, <2>3, <2>4 DEF SameMapping
<1> QED BY <1>1, <1>2

\* What the three operations that delete sessions have in common: sessions D
\* go, mappings go or keep their identity, pools go or stay as they are, and
\* nothing that stays needs what went.
LEMMA DeleteInv ==
  ASSUME Inv, Barrier, NEW D \in SUBSET Live, DeleteSessions(D),
         UNCHANGED <<idle, pc, job>>,
         mp' \in [Subs -> Mapping \cup {NULL}],
         \A s \in Subs : mp'[s] # NULL =>
           mp[s] # NULL /\ SameMapping(mp[s], mp'[s]),
         \A i \in Live \ D : mp'[sessions[i].sub] # NULL,
         pools' \in [PoolIds -> Pool \cup {NULL}],
         \A s \in Subs : mp'[s] # NULL => pools'[mp[s].pool] = pools[mp[s].pool]
  PROVE  Inv'
<1> USE DEF Inv
<1>1. /\ Live' = Live \ D
      /\ \A i \in Live' : sessions'[i] = sessions[i] /\ sessions[i] \in Session
  BY DeleteLive, Records
<1>2. TypeOK'
  BY DeleteTypes DEF TypeOK
<1>3. OwnersExist'
  <2>1. ASSUME NEW i \in Live' PROVE OwnedBy(sessions[i])'
    <3>1. sessions[i] \in Session /\ sessions'[i] = sessions[i] /\ i \in Live \ D
      BY <1>1, <2>1
    <3>2. mp'[sessions[i].sub] # NULL /\ OwnedBy(sessions[i])
      BY <3>1 DEF OwnersExist
    <3>3. sessions[i].sub \in Subs
      BY <3>1 DEF Session
    <3>4. SameMapping(mp[sessions[i].sub], mp'[sessions[i].sub])
      BY <3>2, <3>3
    <3> QED BY <3>1, <3>2, <3>4 DEF OwnedBy, SameMapping
  <2>2. ASSUME NEW s \in Subs, mp'[s] # NULL PROVE pools'[mp'[s].pool] # NULL
    BY <2>2 DEF OwnersExist, SameMapping
  <2>3. \A w \in Workers : pc'[w] = "idle"
    BY DEF Barrier
  <2> QED BY <2>1, <2>2, <2>3 DEF OwnersExist
<1>4. HasJob' /\ JobPortInBlock'
  BY DEF Barrier, HasJob, JobPortInBlock
<1>5. Planned'
  <2> SUFFICES ASSUME NEW s \in Subs, mp'[s] # NULL
               PROVE  /\ mp'[s].pool = Plan[s].pool
                      /\ mp'[s].out = Plan[s].out
                      /\ mp'[s].start = Plan[s].start
                      /\ mp'[s].end = Plan[s].end
                      /\ mp'[s].next \in mp'[s].start..mp'[s].end
    BY DEF Planned
  <2> QED BY DEF Planned, SameMapping
<1>6. OutFibCurrent'
  <2> SUFFICES ASSUME NEW i \in Live'
               PROVE  sessions'[i].ofib = pools'[sessions'[i].pool].fib
    BY DEF OutFibCurrent
  <2>1. i \in Live /\ i \in Live \ D /\ sessions'[i] = sessions[i]
    BY <1>1
  <2>2. sessions[i].sub \in Subs /\ sessions[i].pool = mp[sessions[i].sub].pool
    BY <1>1, <2>1 DEF OwnersExist, OwnedBy, Session
  <2>3. mp'[sessions[i].sub] # NULL
    BY <2>1
  <2>4. pools'[sessions[i].pool] = pools[sessions[i].pool]
    BY <2>2, <2>3
  <2> QED BY <2>1, <2>4 DEF OutFibCurrent
<1>7. TablesResolve'
  BY DeleteResolves
<1>8. SessionPortInBlock'
  <2> SUFFICES ASSUME NEW i \in Live', NeedsPort(sessions'[i].proto)
               PROVE  sessions'[i].oport \in mp'[sessions'[i].sub].start ..
                                             mp'[sessions'[i].sub].end
    BY DEF SessionPortInBlock, NeedsPort
  <2>1. i \in Live \ D /\ sessions'[i] = sessions[i] /\ sessions[i] \in Session
    BY <1>1
  <2>2. SameMapping(mp[sessions[i].sub], mp'[sessions[i].sub])
    BY <2>1 DEF Session
  <2> QED BY <2>1, <2>2 DEF SessionPortInBlock, SameMapping
<1>9. FragInv'
  BY DeleteFrags
<1> QED BY <1>2, <1>3, <1>4, <1>5, <1>6, <1>7, <1>8, <1>9

LEMMA ExpireWalkInv ==
  ASSUME Inv, ExpireWalk
  PROVE  Inv'
<1>1. Expired \in SUBSET Live
  BY DEF Expired
<1>2. /\ MappingsWithout(Expired) \in [Subs -> Mapping \cup {NULL}]
      /\ \A s \in Subs :
           /\ mp[s] = NULL => MappingsWithout(Expired)[s] = NULL
           /\ mp[s] # NULL => SameMapping(mp[s], MappingsWithout(Expired)[s])
  BY <1>1, MappingsSame DEF Inv
<1>3. \A i \in Live : sessions[i].sub \in Subs /\ mp[sessions[i].sub] # NULL
  BY Records DEF Inv, OwnersExist, OwnedBy, Session
<1>4. NULL \notin Mapping
  BY SessionAssumption DEF Mapping
<1> QED
  BY <1>1, <1>2, <1>3, <1>4, DeleteInv DEF ExpireWalk, Inv, TypeOK, SameMapping

LEMMA MappingDelInv ==
  ASSUME Inv, NEW s \in Subs, MappingDel(s)
  PROVE  Inv'
<1>1. LiveOf(s) \in SUBSET Live
  BY DEF LiveOf
<1>2. /\ mp' \in [Subs -> Mapping \cup {NULL}]
      /\ \A t \in Subs : mp'[t] = IF t = s THEN NULL ELSE mp[t]
  BY DEF MappingDel, Inv, TypeOK
<1>3. \A t \in Subs : mp[t] # NULL => SameMapping(mp[t], mp[t])
  BY Records DEF Inv, SameMapping
<1>4. \A i \in Live : sessions[i].sub \in Subs /\ mp[sessions[i].sub] # NULL
  BY Records DEF Inv, OwnersExist, OwnedBy, Session
<1>5. \A i \in Live \ LiveOf(s) : mp'[sessions[i].sub] # NULL
  BY <1>2, <1>4 DEF LiveOf
<1> QED
  BY <1>1, <1>2, <1>3, <1>5, DeleteInv DEF MappingDel, Inv, TypeOK

LEMMA PoolDelInv ==
  ASSUME Inv, NEW p \in PoolIds, PoolDel(p)
  PROVE  Inv'
<1> DEFINE D == {i \in Live : sessions[i].pool = p}
           M == {s \in Subs : mp[s] # NULL /\ mp[s].pool = p}
<1>1. D \in SUBSET Live
  OBVIOUS
<1>2. /\ MappingsWithout(D) \in [Subs -> Mapping \cup {NULL}]
      /\ \A s \in Subs :
           /\ mp[s] = NULL => MappingsWithout(D)[s] = NULL
           /\ mp[s] # NULL => SameMapping(mp[s], MappingsWithout(D)[s])
  BY <1>1, MappingsSame DEF Inv
<1>3. mp' = [s \in Subs |-> IF s \in M THEN NULL ELSE MappingsWithout(D)[s]]
  BY DEF PoolDel
<1>4. /\ mp' \in [Subs -> Mapping \cup {NULL}]
      /\ \A s \in Subs : mp'[s] # NULL =>
           s \notin M /\ mp[s] # NULL /\ SameMapping(mp[s], mp'[s])
  <2> HIDE DEF D, M
  <2> QED BY <1>2, <1>3
<1>5. pools' = [pools EXCEPT ![p] = NULL]
  BY DEF PoolDel
<1>6. pools' \in [PoolIds -> Pool \cup {NULL}]
  BY <1>5 DEF Inv, TypeOK
<1>7. \A s \in Subs : mp'[s] # NULL => pools'[mp[s].pool] = pools[mp[s].pool]
  <2> SUFFICES ASSUME NEW s \in Subs, mp'[s] # NULL
               PROVE  pools'[mp[s].pool] = pools[mp[s].pool]
    OBVIOUS
  <2>1. mp[s] # NULL /\ mp[s].pool # p /\ mp[s].pool \in PoolIds
    BY <1>4, Records DEF Inv, Mapping
  <2> QED BY <1>5, <2>1 DEF Inv, TypeOK
<1>8. \A i \in Live \ D : mp'[sessions[i].sub] # NULL
  <2> SUFFICES ASSUME NEW i \in Live \ D PROVE mp'[sessions[i].sub] # NULL
    OBVIOUS
  <2>1. /\ sessions[i].sub \in Subs /\ mp[sessions[i].sub] # NULL
        /\ sessions[i].pool = mp[sessions[i].sub].pool
    BY Records DEF Inv, OwnersExist, OwnedBy, Session
  <2>2. sessions[i].sub \notin M
    BY <2>1
  <2>3. SameMapping(mp[sessions[i].sub], MappingsWithout(D)[sessions[i].sub])
    BY <1>2, <2>1
  <2>4. NULL \notin Mapping
    BY SessionAssumption DEF Mapping
  <2> HIDE DEF D, M
  <2> QED BY <1>3, <2>1, <2>2, <2>3, <2>4 DEF SameMapping
<1> HIDE DEF D, M
<1> QED
  <2>1. DeleteSessions(D) /\ Barrier /\ UNCHANGED <<idle, pc, job>>
    BY DEF PoolDel, D
  <2> QED BY <1>1, <1>4, <1>6, <1>7, <1>8, <2>1, DeleteInv
-----------------------------------------------------------------------------
(* The rest of the control plane.                                           *)

LEMMA FragsUnchanged ==
  ASSUME FragInv, UNCHANGED <<sessions, frags, fragI, fragO>>
  PROVE  FragInv'
<1>1. Live' = Live /\ \A f : FragHolders(f)' = FragHolders(f)
  BY DEF Live, FragHolders
<1>2. FragExact'
  BY <1>1 DEF FragInv, FragExact
<1>3. /\ \A f \in FragIdx : frags'[f] # NULL => FragHolders(f)' # {}
      /\ \A k \in FragIKeys : fragI'[k] # NULL =>
           \A i \in FragHolders(fragI[k])' : FragIKey(sessions[i])' = k
      /\ \A k \in FragOKeys : fragO'[k] # NULL =>
           \A i \in FragHolders(fragO[k])' : FragOKey(sessions[i])' = k
  BY <1>1 DEF FragInv, FragIKey, FragOKey, FragHolders
<1> QED BY <1>2, <1>3 DEF FragInv

\* Pools change under the barrier; a pool with mappings stays, and one with
\* sessions keeps its FIB.
LEMMA PoolChangeInv ==
  ASSUME Inv, Barrier, NEW p \in PoolIds, NEW q \in Pool,
         pools' = [pools EXCEPT ![p] = q],
         \A i \in Live : sessions[i].pool = p => q.fib = pools[p].fib,
         UNCHANGED <<mp, sessions, idle, tables, frags, pc, job>>
  PROVE  Inv'
<1> USE DEF Inv, tables
<1>1. NULL \notin Pool
  BY SessionAssumption DEF Pool
<1>2. TypeOK'
  BY DEF TypeOK
<1>3. Live' = Live
  BY DEF Live
<1>4. OwnersExist'
  <2>1. \A i \in Live' : OwnedBy(sessions[i])'
    BY <1>3 DEF OwnersExist, OwnedBy
  <2>2. \A s \in Subs : mp'[s] # NULL => pools'[mp'[s].pool] # NULL
    BY <1>1, Records DEF OwnersExist, Mapping, TypeOK
  <2> QED BY <2>1, <2>2 DEF OwnersExist
<1>5. HasJob' /\ JobPortInBlock'
  BY DEF Barrier, HasJob, JobPortInBlock
<1>6. Planned' /\ SessionPortInBlock' /\ TablesResolve'
  BY <1>3 DEF Planned, SessionPortInBlock, TablesResolve
<1>7. OutFibCurrent'
  BY <1>3, Records DEF OutFibCurrent, TypeOK, Session
<1>8. FragInv'
  BY FragsUnchanged
<1> QED BY <1>2, <1>4, <1>5, <1>6, <1>7, <1>8

LEMMA PoolAddInv ==
  ASSUME Inv, NEW p \in PoolIds, NEW c \in Caps, PoolAdd(p, c)
  PROVE  Inv'
<1>1. [fib |-> NULL, max |-> c] \in Pool
  BY SessionAssumption DEF Pool
<1>2. \A i \in Live : sessions[i].pool # p
  BY Records DEF Inv, OwnersExist, OwnedBy, PoolAdd, Session
<1> QED BY <1>1, <1>2, PoolChangeInv DEF PoolAdd

LEMMA PoolUpdateInv ==
  ASSUME Inv, NEW p \in PoolIds, NEW c \in Caps, PoolUpdate(p, c)
  PROVE  Inv'
<1> DEFINE q == [pools[p] EXCEPT !.max = c]
<1>1. pools[p] \in Pool
  BY Records DEF Inv, PoolUpdate
<1>2. q \in Pool /\ q.fib = pools[p].fib
  BY <1>1, SessionAssumption DEF Pool
<1>3. pools' = [pools EXCEPT ![p] = q]
  BY DEF PoolUpdate
<1> HIDE DEF q
<1> QED BY <1>2, <1>3, PoolChangeInv DEF PoolUpdate

LEMMA SetOutsideFibInv ==
  ASSUME Inv, NEW p \in PoolIds, NEW f \in Fibs, SetOutsideFib(p, f)
  PROVE  Inv'
<1> DEFINE q == [pools[p] EXCEPT !.fib = f]
<1>1. pools[p] \in Pool
  BY Records DEF Inv, SetOutsideFib
<1>2. q \in Pool
  BY <1>1 DEF Pool
<1>3. pools' = [pools EXCEPT ![p] = q]
  BY DEF SetOutsideFib
<1>4. \A i \in Live : sessions[i].pool # p
  <2>1. CASE Live = {}
    BY <2>1
  <2>2. CASE pools[p].fib = NULL
    <3>1. \A i \in Live : sessions[i].ofib # NULL
      BY Records, SessionAssumption DEF Inv, Session
    <3> QED BY <2>2, <3>1 DEF Inv, OutFibCurrent
  <2> QED BY <2>1, <2>2 DEF SetOutsideFib
<1> HIDE DEF q
<1> QED BY <1>2, <1>3, <1>4, PoolChangeInv DEF SetOutsideFib

LEMMA MappingAddInv ==
  ASSUME Inv, NEW s \in Subs, MappingAdd(s)
  PROVE  Inv'
<1> USE DEF Inv, tables
<1> DEFINE m == [pool |-> Plan[s].pool, out |-> Plan[s].out,
                 start |-> Plan[s].start, end |-> Plan[s].end,
                 next |-> Plan[s].start, count |-> 0,
                 cool |-> [p \in Ports |-> 0]]
<1>1. Plan[s] \in Inputs
  BY SessionAssumption
<1>2. m \in Mapping
  BY <1>1, SessionAssumption DEF Mapping, Inputs
<1>3. m.next \in m.start..m.end
  BY <1>1, BlocksDisjoint DEF Inputs, Ports
<1>4. mp' = [mp EXCEPT ![s] = m]
  BY DEF MappingAdd
<1>5. /\ m.pool = Plan[s].pool /\ m.out = Plan[s].out
      /\ m.start = Plan[s].start /\ m.end = Plan[s].end
  OBVIOUS
<1> HIDE DEF m
<1>6. TypeOK'
  BY <1>2, <1>4 DEF MappingAdd, TypeOK
<1>7. Live' = Live /\ \A i \in Live : sessions[i].sub \in Subs \ {s}
  BY Records DEF MappingAdd, Live, OwnersExist, OwnedBy, Session
<1>8. \A t \in Subs \ {s} : mp'[t] = mp[t]
  BY <1>4 DEF TypeOK
<1>9. mp'[s] = m
  BY <1>4 DEF TypeOK
<1>10. OwnersExist'
  <2>1. \A i \in Live' : OwnedBy(sessions[i])'
    BY <1>7, <1>8 DEF MappingAdd, OwnersExist, OwnedBy
  <2>2. \A t \in Subs : mp'[t] # NULL => pools'[mp'[t].pool] # NULL
    BY <1>5, <1>8, <1>9 DEF MappingAdd, OwnersExist
  <2> QED BY <2>1, <2>2 DEF OwnersExist, MappingAdd, Barrier
<1>11. HasJob' /\ JobPortInBlock'
  BY DEF MappingAdd, Barrier, HasJob, JobPortInBlock
<1>12. Planned'
  BY <1>3, <1>5, <1>8, <1>9 DEF Planned
<1>13. OutFibCurrent' /\ TablesResolve'
  BY <1>7 DEF MappingAdd, OutFibCurrent, TablesResolve
<1>14. SessionPortInBlock'
  BY <1>7, <1>8 DEF MappingAdd, SessionPortInBlock
<1>15. FragInv'
  BY FragsUnchanged DEF MappingAdd
<1> QED BY <1>6, <1>10, <1>11, <1>12, <1>13, <1>14, <1>15
-----------------------------------------------------------------------------
(* Workers and time.                                                        *)

\* Steps that leave sessions and tables alone and keep every mapping's
\* identity; the worker's own place is what each of them has to account for.
LEMMA LocalInv ==
  ASSUME Inv, UNCHANGED <<pools, sessions, tables, frags>>,
         idle' \in [SessionIdx -> 0..(Timeout + 1)],
         mp' \in [Subs -> Mapping \cup {NULL}],
         \A s \in Subs :
           /\ mp'[s] = NULL <=> mp[s] = NULL
           /\ mp[s] # NULL =>
                /\ mp'[s].pool = mp[s].pool /\ mp'[s].out = mp[s].out
                /\ mp'[s].start = mp[s].start /\ mp'[s].end = mp[s].end
                /\ mp'[s].next \in mp[s].start..mp[s].end,
         pc' \in [Workers -> Steps], job' \in [Workers -> Job \cup {NULL}],
         \A w \in Workers : pc'[w] # "idle" =>
           /\ job'[w] # NULL
           /\ mp[job'[w].pkt.sub] # NULL
           /\ pools[mp[job'[w].pkt.sub].pool].fib # NULL,
         \A w \in Workers :
           /\ pc'[w] \in {"reserve", "create", "unreserve", "free"}
           /\ NeedsPort(job'[w].pkt.proto)
           => job'[w].port \in mp[job'[w].pkt.sub].start ..
                               mp[job'[w].pkt.sub].end
  PROVE  Inv'
<1> USE DEF Inv, tables
<1>1. TypeOK'
  BY DEF TypeOK
<1>2. Live' = Live /\ \A i \in Live : sessions[i].sub \in Subs
  BY Records DEF Live, Session
<1>3. \A w \in Workers : pc'[w] # "idle" => job'[w].pkt.sub \in Subs
  BY DEF Job, Packet
<1>4. OwnersExist'
  <2>1. \A i \in Live' : OwnedBy(sessions[i])'
    BY <1>2 DEF OwnersExist, OwnedBy
  <2>2. \A s \in Subs : mp'[s] # NULL => pools'[mp'[s].pool] # NULL
    BY DEF OwnersExist
  <2>3. \A w \in Workers : pc'[w] # "idle" => mp'[job'[w].pkt.sub] # NULL
    BY <1>3
  <2> QED BY <2>1, <2>2, <2>3 DEF OwnersExist
<1>5. HasJob'
  BY <1>3 DEF HasJob
<1>6. JobPortInBlock'
  <2> SUFFICES ASSUME NEW w \in Workers,
                      pc'[w] \in {"reserve", "create", "unreserve", "free"},
                      NeedsPort(job'[w].pkt.proto)
               PROVE  job'[w].port \in mp'[job'[w].pkt.sub].start ..
                                       mp'[job'[w].pkt.sub].end
    BY DEF JobPortInBlock, NeedsPort
  <2>1. mp[job'[w].pkt.sub] # NULL /\ job'[w].pkt.sub \in Subs
    BY <1>3
  <2> QED BY <2>1
<1>7. Planned'
  BY DEF Planned
<1>8. OutFibCurrent' /\ TablesResolve'
  BY <1>2 DEF OutFibCurrent, TablesResolve
<1>9. SessionPortInBlock'
  BY <1>2 DEF SessionPortInBlock, OwnersExist, OwnedBy
<1>10. FragInv'
  BY FragsUnchanged
<1> QED BY <1>1, <1>4, <1>5, <1>6, <1>7, <1>8, <1>9, <1>10

\* What Inv says of a worker in the slow path.
LEMMA WorkerFacts ==
  ASSUME Inv, NEW w \in Workers, pc[w] # "idle"
  PROVE  /\ job[w] \in Job
         /\ job[w].pkt \in Packet /\ job[w].pkt.sub \in Subs
         /\ job[w].port \in Ports
         /\ mp[job[w].pkt.sub] \in Mapping
         /\ mp[job[w].pkt.sub].pool \in PoolIds
         /\ pools[mp[job[w].pkt.sub].pool] \in Pool
         /\ pools[mp[job[w].pkt.sub].pool].fib \in Fibs
<1>1. job[w] \in Job
  BY Records DEF Inv, HasJob
<1>2. job[w].pkt \in Packet /\ job[w].pkt.sub \in Subs /\ job[w].port \in Ports
  BY <1>1 DEF Job, Packet
<1>3. mp[job[w].pkt.sub] \in Mapping
  BY <1>2, Records DEF Inv, OwnersExist
<1>4. mp[job[w].pkt.sub].pool \in PoolIds
  BY <1>3 DEF Mapping
<1>5. pools[mp[job[w].pkt.sub].pool] \in Pool
  BY <1>2, <1>4, Records DEF Inv, OwnersExist
<1>6. pools[mp[job[w].pkt.sub].pool].fib \in Fibs
  BY <1>5 DEF Inv, HasJob, Pool
<1> QED BY <1>1, <1>2, <1>3, <1>4, <1>5, <1>6

\* next_port of an unchanged mapping is in its block.
LEMMA NextInBlock ==
  ASSUME Inv, NEW s \in Subs, mp[s] # NULL
  PROVE  mp[s].next \in mp[s].start..mp[s].end
BY DEF Inv, Planned

LEMMA RefreshInv ==
  ASSUME Inv, NEW i \in SessionIdx, idle' = [idle EXCEPT ![i] = 0],
         UNCHANGED <<pools, mp, sessions, tables, frags, pc, job>>
  PROVE  Inv'
<1>1. idle' \in [SessionIdx -> 0..(Timeout + 1)]
  BY SessionAssumption DEF Inv, TypeOK
<1> QED
  BY <1>1, LocalInv, NextInBlock
     DEF Inv, TypeOK, OwnersExist, HasJob, JobPortInBlock

LEMMA TickInv ==
  ASSUME Inv, Tick
  PROVE  Inv'
<1>1. idle' \in [SessionIdx -> 0..(Timeout + 1)]
  BY SessionAssumption DEF Inv, TypeOK, Tick, Older
<1>2. ASSUME NEW s \in Subs, mp[s] # NULL
      PROVE  SameMapping(mp[s], mp'[s])
  <2> DEFINE c == [p \in Ports |-> IF mp[s].cool[p] = 0 THEN 0
                                  ELSE mp[s].cool[p] - 1]
  <2>1. mp[s] \in Mapping
    BY <1>2, Records DEF Inv
  <2>2. c \in [Ports -> 0..Cooldown]
    BY <2>1, SessionAssumption DEF Mapping
  <2>3. mp'[s] = [mp[s] EXCEPT !.cool = c]
    BY <1>2 DEF Tick
  <2> HIDE DEF c
  <2> QED BY <2>1, <2>2, <2>3 DEF SameMapping, Mapping
<1>3. \A s \in Subs : mp[s] = NULL => mp'[s] = NULL
  BY DEF Tick
<1>4. mp' \in [Subs -> Mapping \cup {NULL}]
  <2>1. mp' = [s \in Subs |-> mp'[s]]
    BY DEF Tick
  <2>2. \A s \in Subs : mp'[s] \in Mapping \cup {NULL}
    BY <1>2, <1>3 DEF SameMapping
  <2> QED BY <2>1, <2>2
<1>5. NULL \notin Mapping
  BY SessionAssumption DEF Mapping
<1>6. \A s \in Subs :
        /\ mp'[s] = NULL <=> mp[s] = NULL
        /\ mp[s] # NULL =>
             /\ mp'[s].pool = mp[s].pool /\ mp'[s].out = mp[s].out
             /\ mp'[s].start = mp[s].start /\ mp'[s].end = mp[s].end
             /\ mp'[s].next \in mp[s].start..mp[s].end
  BY <1>2, <1>3, <1>5, NextInBlock DEF SameMapping
<1> QED
  BY <1>1, <1>4, <1>6, LocalInv
     DEF Tick, Inv, TypeOK, OwnersExist, HasJob, JobPortInBlock

LEMMA In2outMissInv ==
  ASSUME Inv, NEW w \in Workers, NEW p \in Packets, In2outMiss(w, p)
  PROVE  Inv'
<1>1. p \in Packet /\ p.sub \in Subs /\ 0 \in Ports
  BY SessionAssumption DEF Packet, Ports
<1>2. pc' \in [Workers -> Steps]
  BY DEF In2outMiss, Inv, TypeOK, Steps
<1>3. job' \in [Workers -> Job \cup {NULL}]
  BY <1>1 DEF In2outMiss, Inv, TypeOK, Job
<1>4. /\ pc'[w] \in {"alloc", "reserve"}
      /\ pc'[w] = "reserve" => ~NeedsPort(p.proto)
      /\ job'[w] = [pkt |-> p, port |-> 0] /\ job'[w] # NULL
      /\ \A v \in Workers \ {w} : pc'[v] = pc[v] /\ job'[v] = job[v]
  <2>1. NULL \notin Job
    BY SessionAssumption DEF Job
  <2>2. [pkt |-> p, port |-> 0] \in Job
    BY <1>1 DEF Job
  <2> QED BY <2>1, <2>2 DEF In2outMiss, Inv, TypeOK
<1>5. mp[p.sub] # NULL /\ pools[mp[p.sub].pool].fib # NULL
  BY DEF In2outMiss, Translatable
<1>6. \A v \in Workers : pc'[v] # "idle" =>
        /\ job'[v] # NULL
        /\ mp[job'[v].pkt.sub] # NULL
        /\ pools[mp[job'[v].pkt.sub].pool].fib # NULL
  BY <1>4, <1>5 DEF Inv, HasJob, OwnersExist
<1>7. \A v \in Workers :
        /\ pc'[v] \in {"reserve", "create", "unreserve", "free"}
        /\ NeedsPort(job'[v].pkt.proto)
        => job'[v].port \in mp[job'[v].pkt.sub].start ..
                            mp[job'[v].pkt.sub].end
  BY <1>4 DEF Inv, JobPortInBlock
<1> QED
  BY <1>2, <1>3, <1>6, <1>7, LocalInv, NextInBlock DEF In2outMiss, Inv, TypeOK

\* A step of worker w that keeps pools, sessions and tables, may count or
\* move next_port within the block, and either finishes the packet or goes on
\* with the same one and a port from the block.
LEMMA WorkerStepInv ==
  ASSUME Inv, NEW w \in Workers, pc[w] # "idle",
         UNCHANGED <<pools, sessions, idle, tables, frags>>,
         NEW m \in Mapping,
         mp' = [mp EXCEPT ![job[w].pkt.sub] = m],
         m.pool = mp[job[w].pkt.sub].pool, m.out = mp[job[w].pkt.sub].out,
         m.start = mp[job[w].pkt.sub].start, m.end = mp[job[w].pkt.sub].end,
         m.next \in m.start..m.end,
         NEW next \in Steps, pc' = [pc EXCEPT ![w] = next],
         NEW j \in Job \cup {NULL}, job' = [job EXCEPT ![w] = j],
         next # "idle" => j \in Job /\ j.pkt = job[w].pkt,
         /\ next \in {"reserve", "create", "unreserve", "free"}
         /\ NeedsPort(job[w].pkt.proto)
         => j.port \in mp[job[w].pkt.sub].start .. mp[job[w].pkt.sub].end
  PROVE  Inv'
<1> DEFINE s == job[w].pkt.sub
<1>a. s \in Subs
  BY WorkerFacts
<1>b. mp[s] \in Mapping
  BY WorkerFacts
<1>c. NULL \notin Mapping /\ NULL \notin Job
  BY NullIsNoRecord
<1>1. s \in Subs /\ mp[s] # NULL /\ m # NULL
  BY <1>a, <1>b, <1>c
<1>2. mp'[s] = m /\ \A t \in Subs \ {s} : mp'[t] = mp[t]
  BY <1>1 DEF Inv, TypeOK
<1>3. mp' \in [Subs -> Mapping \cup {NULL}]
  BY DEF Inv, TypeOK
<1>4. \A t \in Subs :
        /\ mp'[t] = NULL <=> mp[t] = NULL
        /\ mp[t] # NULL =>
             /\ mp'[t].pool = mp[t].pool /\ mp'[t].out = mp[t].out
             /\ mp'[t].start = mp[t].start /\ mp'[t].end = mp[t].end
             /\ mp'[t].next \in mp[t].start..mp[t].end
  BY <1>1, <1>2, NextInBlock
<1>5. pc' \in [Workers -> Steps] /\ job' \in [Workers -> Job \cup {NULL}]
  BY DEF Inv, TypeOK
<1>6. /\ pc'[w] = next /\ job'[w] = j
      /\ \A v \in Workers \ {w} : pc'[v] = pc[v] /\ job'[v] = job[v]
  BY DEF Inv, TypeOK
<1>7. \A v \in Workers : pc'[v] # "idle" =>
        /\ job'[v] # NULL
        /\ mp[job'[v].pkt.sub] # NULL
        /\ pools[mp[job'[v].pkt.sub].pool].fib # NULL
  <2>1. \A v \in Workers : pc[v] # "idle" =>
          /\ job[v] # NULL
          /\ mp[job[v].pkt.sub] # NULL
          /\ pools[mp[job[v].pkt.sub].pool].fib # NULL
    BY DEF Inv, HasJob, OwnersExist
  <2>2. next # "idle" => j # NULL /\ j.pkt = job[w].pkt
    BY <1>c
  <2>3. ASSUME NEW v \in Workers, pc'[v] # "idle", v # w
        PROVE  /\ job'[v] # NULL
               /\ mp[job'[v].pkt.sub] # NULL
               /\ pools[mp[job'[v].pkt.sub].pool].fib # NULL
    BY <1>6, <2>1, <2>3, Zenon
  <2>4. ASSUME pc'[w] # "idle"
        PROVE  /\ job'[w] # NULL
               /\ mp[job'[w].pkt.sub] # NULL
               /\ pools[mp[job'[w].pkt.sub].pool].fib # NULL
    <3>1. job'[w] = j /\ j # NULL /\ j.pkt = job[w].pkt
      BY <1>6, <2>2, <2>4, Zenon
    <3>2. /\ mp[job[w].pkt.sub] # NULL
          /\ pools[mp[job[w].pkt.sub].pool].fib # NULL
      BY <2>1, Zenon
    <3> QED BY <3>1, <3>2
  <2> QED BY <2>3, <2>4, Zenon
<1>8. \A v \in Workers :
        /\ pc'[v] \in {"reserve", "create", "unreserve", "free"}
        /\ NeedsPort(job'[v].pkt.proto)
        => job'[v].port \in mp[job'[v].pkt.sub].start ..
                            mp[job'[v].pkt.sub].end
  BY <1>6 DEF Inv, JobPortInBlock
<1>9. idle' \in [SessionIdx -> 0..(Timeout + 1)]
  BY DEF Inv, TypeOK
<1> QED BY <1>3, <1>4, <1>5, <1>7, <1>8, <1>9, LocalInv

LEMMA PortAllocInv ==
  ASSUME Inv, NEW w \in Workers, PortAlloc(w)
  PROVE  Inv'
<1> DEFINE s == job[w].pkt.sub
           m == mp[s]
           n == m.end - m.start + 1
<1>1. /\ job[w] \in Job /\ s \in Subs /\ m \in Mapping /\ pc[w] # "idle"
      /\ m # NULL /\ m.next \in m.start..m.end
      /\ job[w].pkt \in Packet
  BY WorkerFacts, NextInBlock, SessionAssumption DEF PortAlloc, Mapping
<1>2. mp = [mp EXCEPT ![s] = m]
  BY <1>1 DEF Inv, TypeOK
<1>3. CASE Finish(w) /\ mp' = mp
  BY <1>1, <1>2, <1>3, WorkerStepInv DEF Finish, PortAlloc, Steps
<1>4. ASSUME NEW k \in 0..(n - 1), mp' = [mp EXCEPT ![s].next = Scan(m, k + 1)],
             \/ Finish(w)
             \/ /\ job' = [job EXCEPT ![w].port = Scan(m, k)]
                /\ pc' = [pc EXCEPT ![w] = "reserve"]
      PROVE  Inv'
  <2>1. k \in Nat /\ k + 1 \in Nat
    BY <1>1, <1>4 DEF Mapping, Ports
  <2>2. Scan(m, k) \in m.start..m.end /\ Scan(m, k + 1) \in m.start..m.end
    BY <1>1, <2>1, ScanInBlock
  <2>3. m.start..m.end \subseteq Ports
    <3>1. m.start \in 0..MaxPort /\ m.end \in 0..MaxPort
      BY <1>1 DEF Mapping, Ports
    <3>2. MaxPort \in Nat
      BY SessionAssumption
    <3> HIDE DEF m
    <3> QED BY <3>1, <3>2 DEF Ports
  <2> DEFINE m2 == [m EXCEPT !.next = Scan(m, k + 1)]
             j2 == [job[w] EXCEPT !.port = Scan(m, k)]
  <2>4. /\ m2 \in Mapping /\ m2.pool = m.pool /\ m2.out = m.out
        /\ m2.start = m.start /\ m2.end = m.end
        /\ m2.next \in m2.start..m2.end
    BY <1>1, <2>2, <2>3 DEF Mapping
  <2>5. j2 \in Job /\ j2.pkt = job[w].pkt /\ j2.port = Scan(m, k)
    BY <1>1, <2>2, <2>3 DEF Job
  <2>6. mp' = [mp EXCEPT ![s] = m2]
    BY <1>4
  <2>7. UNCHANGED <<pools, sessions, idle, tables, frags>>
    BY DEF PortAlloc
  <2>8. CASE Finish(w)
    <3>1. pc' = [pc EXCEPT ![w] = "idle"] /\ job' = [job EXCEPT ![w] = NULL]
      BY <2>8 DEF Finish
    <3>2. "idle" \in Steps /\ NULL \in Job \cup {NULL}
      BY DEF Steps
    <3> HIDE DEF m2
    <3> QED BY <1>1, <2>4, <2>6, <2>7, <3>1, <3>2, WorkerStepInv
  <2>9. CASE /\ job' = [job EXCEPT ![w].port = Scan(m, k)]
             /\ pc' = [pc EXCEPT ![w] = "reserve"]
    <3>1. job' = [job EXCEPT ![w] = j2]
      BY <2>9
    <3>2. "reserve" \in Steps
      BY DEF Steps
    <3>3. j2 \in Job \cup {NULL} /\ j2.port \in mp[s].start .. mp[s].end
      BY <2>2, <2>5
    <3>4. pc' = [pc EXCEPT ![w] = "reserve"]
      BY <2>9
    <3> HIDE DEF m2, j2
    <3> QED BY <1>1, <2>4, <2>5, <2>6, <2>7, <3>1, <3>2, <3>3, <3>4, WorkerStepInv
  <2> QED BY <1>4, <2>8, <2>9
<1> QED BY <1>3, <1>4 DEF PortAlloc

LEMMA ReserveInv ==
  ASSUME Inv, NEW w \in Workers, Reserve(w)
  PROVE  Inv'
<1> DEFINE s == job[w].pkt.sub
           m == mp[s]
           m2 == [m EXCEPT !.count = @ + 1]
<1>1. /\ job[w] \in Job /\ s \in Subs /\ m \in Mapping /\ pc[w] = "reserve"
      /\ m.next \in m.start..m.end
      /\ NeedsPort(job[w].pkt.proto) => job[w].port \in m.start..m.end
  BY WorkerFacts, NextInBlock, SessionAssumption
     DEF Reserve, Mapping, Inv, JobPortInBlock
<1>2. mp = [mp EXCEPT ![s] = m] /\ job = [job EXCEPT ![w] = job[w]]
  BY <1>1 DEF Inv, TypeOK
<1>3. /\ m2 \in Mapping /\ m2.pool = m.pool /\ m2.out = m.out
      /\ m2.start = m.start /\ m2.end = m.end /\ m2.next \in m2.start..m2.end
  <2>1. m.count + 1 \in Nat
    BY <1>1 DEF Mapping
  <2> HIDE DEF m
  <2> QED BY <1>1, <2>1, Recounted
<1>4. UNCHANGED <<pools, sessions, idle, tables, frags>> /\ job' = job
  BY DEF Reserve
<1>5. CASE /\ mp' = [mp EXCEPT ![s].count = @ + 1]
           /\ pc' = [pc EXCEPT ![w] = "create"]
  <2>1. mp' = [mp EXCEPT ![s] = m2]
    BY <1>5
  <2>2. "create" \in Steps
    BY DEF Steps
  <2> HIDE DEF m2
  <2> QED BY <1>1, <1>2, <1>3, <1>4, <1>5, <2>1, <2>2, WorkerStepInv
<1>6. CASE mp' = mp /\ pc' = [pc EXCEPT ![w] = "free"]
  <2>1. "free" \in Steps
    BY DEF Steps
  <2> QED BY <1>1, <1>2, <1>4, <1>6, <2>1, WorkerStepInv
<1> QED BY <1>5, <1>6 DEF Reserve

LEMMA UnreserveInv ==
  ASSUME Inv, NEW w \in Workers, Unreserve(w)
  PROVE  Inv'
<1> DEFINE s == job[w].pkt.sub
           m == mp[s]
           c == IF m.count > 0 THEN m.count - 1 ELSE 0
           m2 == [m EXCEPT !.count = c]
<1>1. /\ job[w] \in Job /\ s \in Subs /\ m \in Mapping /\ pc[w] = "unreserve"
      /\ m.next \in m.start..m.end
      /\ NeedsPort(job[w].pkt.proto) => job[w].port \in m.start..m.end
  BY WorkerFacts, NextInBlock, SessionAssumption
     DEF Unreserve, Mapping, Inv, JobPortInBlock
<1>2. job = [job EXCEPT ![w] = job[w]]
  BY <1>1 DEF Inv, TypeOK
<1>3. c \in Nat
  BY <1>1 DEF Mapping
<1>4. mp' = [mp EXCEPT ![s] = m2]
  BY DEF Unreserve
<1>5. /\ m2 \in Mapping /\ m2.pool = m.pool /\ m2.out = m.out
      /\ m2.start = m.start /\ m2.end = m.end /\ m2.next \in m2.start..m2.end
  <2> HIDE DEF c, m
  <2> QED BY <1>1, <1>3, Recounted
<1>6. /\ UNCHANGED <<pools, sessions, idle, tables, frags>> /\ job' = job
      /\ pc' = [pc EXCEPT ![w] = "free"] /\ "free" \in Steps
  BY DEF Unreserve, Steps
<1> HIDE DEF m2
<1> QED BY <1>1, <1>2, <1>4, <1>5, <1>6, WorkerStepInv

LEMMA PortFreeInv ==
  ASSUME Inv, NEW w \in Workers, PortFree(w)
  PROVE  Inv'
<1> DEFINE s == job[w].pkt.sub
           m == mp[s]
           m2 == [m EXCEPT !.cool = [m.cool EXCEPT ![job[w].port] = Cooldown]]
<1>1. /\ job[w] \in Job /\ s \in Subs /\ m \in Mapping /\ pc[w] # "idle"
      /\ m.next \in m.start..m.end /\ job[w].port \in Ports
  BY WorkerFacts, NextInBlock, SessionAssumption DEF PortFree, Mapping
<1>2. mp = [mp EXCEPT ![s] = m]
  BY <1>1 DEF Inv, TypeOK
<1>3. [m.cool EXCEPT ![job[w].port] = Cooldown] \in [Ports -> 0..Cooldown]
  BY <1>1, SessionAssumption DEF Mapping
<1>4. /\ m2 \in Mapping /\ m2.pool = m.pool /\ m2.out = m.out
      /\ m2.start = m.start /\ m2.end = m.end /\ m2.next \in m2.start..m2.end
  BY <1>1, <1>3 DEF Mapping
<1>5. mp' = [mp EXCEPT ![s] = m2] \/ mp' = mp
  BY DEF PortFree
<1>6. /\ UNCHANGED <<pools, sessions, idle, tables, frags>> /\ Finish(w)
      /\ "idle" \in Steps
  BY DEF PortFree, Steps
<1> HIDE DEF m2
<1>7. CASE mp' = [mp EXCEPT ![s] = m2]
  BY <1>1, <1>4, <1>6, <1>7, WorkerStepInv DEF Finish
<1>8. CASE mp' = mp
  BY <1>1, <1>2, <1>6, <1>8, WorkerStepInv DEF Finish
<1> QED BY <1>5, <1>7, <1>8

LEMMA CreateFullInv ==
  ASSUME Inv, NEW w \in Workers, CreateFull(w) \/ CreatePanic(w)
  PROVE  Inv'
<1> DEFINE s == job[w].pkt.sub
           m == mp[s]
<1>1. /\ job[w] \in Job /\ s \in Subs /\ m \in Mapping /\ pc[w] = "create"
      /\ m.next \in m.start..m.end
      /\ NeedsPort(job[w].pkt.proto) => job[w].port \in m.start..m.end
  BY WorkerFacts, NextInBlock, SessionAssumption
     DEF CreateFull, CreatePanic, Mapping, Inv, JobPortInBlock
<1>2. mp = [mp EXCEPT ![s] = m] /\ job = [job EXCEPT ![w] = job[w]]
  BY <1>1 DEF Inv, TypeOK
<1>3. /\ UNCHANGED <<pools, sessions, idle, tables, frags>>
      /\ mp' = mp /\ job' = job
      /\ {"unreserve", "panic"} \subseteq Steps
  BY DEF CreateFull, CreatePanic, Steps
<1>4. CASE pc' = [pc EXCEPT ![w] = "unreserve"]
  BY <1>1, <1>2, <1>3, <1>4, WorkerStepInv
<1>5. CASE pc' = [pc EXCEPT ![w] = "panic"]
  BY <1>1, <1>2, <1>3, <1>5, WorkerStepInv
<1> QED BY <1>4, <1>5 DEF CreateFull, CreatePanic

LEMMA NewSessionFacts ==
  ASSUME Inv, NEW w \in Workers, pc[w] = "create", NEW f \in FragIdx
  PROVE  /\ NewSession(w, f) \in Session
         /\ NewSession(w, f).sub = job[w].pkt.sub
         /\ NewSession(w, f).pool = mp[job[w].pkt.sub].pool
         /\ NewSession(w, f).out = mp[job[w].pkt.sub].out
         /\ NewSession(w, f).ofib = pools[mp[job[w].pkt.sub].pool].fib
         /\ NewSession(w, f).proto = job[w].pkt.proto
         /\ NewSession(w, f).oport = job[w].port
<1>1. /\ job[w].pkt \in Packet /\ job[w].port \in Ports
      /\ mp[job[w].pkt.sub] \in Mapping
      /\ pools[mp[job[w].pkt.sub].pool].fib \in Fibs
  BY WorkerFacts
<1>2. 0 \in Ports
  BY SessionAssumption DEF Ports
<1>3. KeyPorts(job[w].pkt)[1] \in Ports /\ KeyPorts(job[w].pkt)[2] \in Ports
  BY <1>1, <1>2 DEF KeyPorts, Packet
<1> QED BY <1>1, <1>3 DEF NewSession, Session, Packet, Mapping

\* The new session's slot is free, so no entry of another session names it,
\* and its own two entries are written with it.
LEMMA InstallInv ==
  ASSUME Inv, NEW w \in Workers, pc[w] = "create",
         NEW i \in SessionIdx \ Live, NEW f \in FragIdx, Install(w, i, f),
         UNCHANGED <<pools, mp>>,
         frags' \in [FragIdx -> FragRecord \cup {NULL}],
         fragI' \in [FragIKeys -> FragIdx \cup {NULL}],
         fragO' \in [FragOKeys -> FragIdx \cup {NULL}],
         FragInv'
  PROVE  Inv'
<1> DEFINE s == NewSession(w, f)
<1>1. /\ s \in Session /\ s # NULL
      /\ s.sub = job[w].pkt.sub /\ s.sub \in Subs /\ mp[s.sub] # NULL
      /\ s.pool = mp[s.sub].pool /\ s.out = mp[s.sub].out
      /\ s.ofib = pools[mp[s.sub].pool].fib
      /\ s.proto = job[w].pkt.proto /\ s.oport = job[w].port
      /\ I2oKey(s) \in I2oKeys /\ O2iKey(s) \in O2iKeys
  <2>1. /\ s \in Session /\ s.sub = job[w].pkt.sub
        /\ s.pool = mp[s.sub].pool /\ s.out = mp[s.sub].out
        /\ s.ofib = pools[mp[s.sub].pool].fib
        /\ s.proto = job[w].pkt.proto /\ s.oport = job[w].port
    BY NewSessionFacts
  <2>2. s.sub \in Subs /\ mp[s.sub] \in Mapping
    BY <2>1, WorkerFacts
  <2>3. I2oKey(s) \in I2oKeys /\ O2iKey(s) \in O2iKeys
    BY <2>1, KeyTypes
  <2> HIDE DEF s
  <2> QED BY <2>1, <2>2, <2>3, NullIsNoRecord
<1>2. /\ sessions' = [sessions EXCEPT ![i] = s]
      /\ idle' = [idle EXCEPT ![i] = 0]
      /\ i2o' = [i2o EXCEPT ![I2oKey(s)] = i]
      /\ o2i' = [o2i EXCEPT ![O2iKey(s)] = i]
      /\ pc' = [pc EXCEPT ![w] = "idle"]
      /\ job' = [job EXCEPT ![w] = NULL]
  BY DEF Install, Finish
<1> HIDE DEF s
<1>3. TypeOK'
  BY <1>1, <1>2, SessionAssumption DEF Inv, TypeOK, Steps
<1>4. /\ sessions'[i] = s /\ \A j \in SessionIdx \ {i} : sessions'[j] = sessions[j]
      /\ Live' = Live \cup {i} /\ sessions[i] = NULL
      /\ pc'[w] = "idle"
      /\ \A v \in Workers \ {w} : pc'[v] = pc[v] /\ job'[v] = job[v]
  BY <1>1, <1>2 DEF Inv, TypeOK, Live
<1>5. OwnersExist'
  <2>1. ASSUME NEW j \in Live' PROVE OwnedBy(sessions[j])'
    <3>1. CASE j = i
      BY <1>1, <1>4, <3>1 DEF OwnedBy
    <3>2. CASE j # i
      <4>1. j \in Live /\ sessions'[j] = sessions[j]
        BY <1>4, <2>1, <3>2 DEF Live
      <4> QED BY <4>1 DEF Inv, OwnersExist, OwnedBy
    <3> QED BY <3>1, <3>2
  <2> QED BY <1>4, <2>1 DEF Inv, OwnersExist
<1>6. HasJob' /\ JobPortInBlock'
  BY <1>4 DEF Inv, HasJob, JobPortInBlock
<1>7. Planned'
  BY DEF Inv, Planned
<1>8. OutFibCurrent'
  BY <1>1, <1>4 DEF Inv, OutFibCurrent, Live
<1>9. SessionPortInBlock'
  <2>1. NeedsPort(s.proto) => s.oport \in mp[s.sub].start..mp[s.sub].end
    BY <1>1 DEF Inv, JobPortInBlock
  <2> QED BY <1>4, <2>1 DEF Inv, SessionPortInBlock, Live
<1>10. TablesResolve'
  <2>1. ASSUME NEW k \in I2oKeys, i2o'[k] # NULL
        PROVE  sessions'[i2o'[k]] # NULL /\ I2oKey(sessions'[i2o'[k]]) = k
    <3>1. CASE k = I2oKey(s)
      BY <1>1, <1>2, <1>4, <3>1 DEF Inv, TypeOK
    <3>2. CASE k # I2oKey(s)
      <4>1. i2o'[k] = i2o[k]
        BY <1>2, <3>2 DEF Inv, TypeOK
      <4>2. sessions[i2o[k]] # NULL /\ I2oKey(sessions[i2o[k]]) = k
        BY <2>1, <4>1 DEF Inv, TablesResolve
      <4>3. i2o[k] \in SessionIdx \ {i}
        BY <1>4, <2>1, <4>1, <4>2 DEF Inv, TypeOK
      <4> QED BY <1>4, <4>1, <4>2, <4>3
    <3> QED BY <3>1, <3>2
  <2>2. ASSUME NEW k \in O2iKeys, o2i'[k] # NULL
        PROVE  sessions'[o2i'[k]] # NULL /\ O2iKey(sessions'[o2i'[k]]) = k
    <3>1. CASE k = O2iKey(s)
      BY <1>1, <1>2, <1>4, <3>1 DEF Inv, TypeOK
    <3>2. CASE k # O2iKey(s)
      <4>1. o2i'[k] = o2i[k]
        BY <1>2, <3>2 DEF Inv, TypeOK
      <4>2. sessions[o2i[k]] # NULL /\ O2iKey(sessions[o2i[k]]) = k
        BY <2>2, <4>1 DEF Inv, TablesResolve
      <4>3. o2i[k] \in SessionIdx \ {i}
        BY <1>4, <2>2, <4>1, <4>2 DEF Inv, TypeOK
      <4> QED BY <1>4, <4>1, <4>2, <4>3
    <3> QED BY <3>1, <3>2
  <2> QED BY <2>1, <2>2 DEF TablesResolve
<1> QED BY <1>3, <1>5, <1>6, <1>7, <1>8, <1>9, <1>10 DEF Inv

\* What a new session does to the holders of fragment records.
LEMMA InstallHolders ==
  ASSUME Inv, NEW w \in Workers, pc[w] = "create",
         NEW i \in SessionIdx \ Live, NEW f \in FragIdx, Install(w, i, f)
  PROVE  /\ NewSession(w, f) # NULL
         /\ sessions'[i] = NewSession(w, f) /\ Live' = Live \cup {i}
         /\ \A j \in Live : sessions'[j] = sessions[j]
         /\ FragHolders(f)' = FragHolders(f) \cup {i} /\ i \notin FragHolders(f)
         /\ \A g : g # f => FragHolders(g)' = FragHolders(g)
<1> DEFINE s == NewSession(w, f)
<1>1. s # NULL /\ s.frag = f
  <2>1. s \in Session
    BY NewSessionFacts
  <2>2. s.frag = f
    BY DEF NewSession
  <2> QED BY <2>1, <2>2, NullIsNoRecord
<1>2. sessions' = [sessions EXCEPT ![i] = s]
  BY DEF Install
<1> HIDE DEF s
<1>3. /\ sessions'[i] = s /\ Live' = Live \cup {i}
      /\ \A j \in Live : sessions'[j] = sessions[j] /\ j # i
  BY <1>1, <1>2 DEF Inv, TypeOK, Live
<1>4. /\ FragHolders(f)' = FragHolders(f) \cup {i} /\ i \notin FragHolders(f)
      /\ \A g : g # f => FragHolders(g)' = FragHolders(g)
  BY <1>1, <1>3 DEF FragHolders
<1> QED BY <1>1, <1>3, <1>4 DEF s

LEMMA CreateSharedInv ==
  ASSUME Inv, NEW w \in Workers, CreateShared(w)
  PROVE  Inv'
<1> DEFINE k == FragIKeyOf(w)
<1>1. /\ pc[w] = "create" /\ k \in FragIKeys /\ fragI[k] # NULL
      /\ UNCHANGED <<pools, mp, fragI, fragO>>
  BY WorkerFacts DEF CreateShared, FragIKeyOf, FragIKeys, Packet
<1>2. PICK f \in FragIdx :
        f = fragI[k] /\ frags[f] # NULL /\ frags[f] \in FragRecord
  BY <1>1, Records DEF Inv, TypeOK, FragInv, FragExact
<1>3. PICK i \in SessionIdx \ Live : Install(w, i, f)
  BY <1>2 DEF CreateShared
<1>4. frags' = [frags EXCEPT ![f].refs = @ + 1]
  BY <1>2 DEF CreateShared
<1> DEFINE s == NewSession(w, f)
<1>5. /\ [frags[f] EXCEPT !.refs = @ + 1] \in FragRecord
      /\ [frags[f] EXCEPT !.refs = @ + 1].refs = frags[f].refs + 1
  BY <1>2 DEF FragRecord
<1>6. /\ frags'[f] # NULL /\ frags'[f].refs = frags[f].refs + 1
      /\ \A g \in FragIdx \ {f} : frags'[g] = frags[g]
      /\ frags' \in [FragIdx -> FragRecord \cup {NULL}]
  <2>1. NULL \notin FragRecord
    BY SessionAssumption DEF FragRecord
  <2>2. frags' = [frags EXCEPT ![f] = [frags[f] EXCEPT !.refs = @ + 1]]
    BY <1>4
  <2> QED BY <1>2, <1>5, <2>1, <2>2 DEF Inv, TypeOK
<1>7. /\ s # NULL /\ sessions'[i] = s /\ Live' = Live \cup {i}
      /\ \A j \in Live : sessions'[j] = sessions[j]
      /\ FragHolders(f)' = FragHolders(f) \cup {i} /\ i \notin FragHolders(f)
      /\ \A g : g # f => FragHolders(g)' = FragHolders(g)
  BY <1>1, <1>2, <1>3, InstallHolders
<1>8. FragIKey(s) = k /\ s.frag = f
  BY DEF FragIKey, FragIKeyOf, NewSession
<1>9. \A j \in FragHolders(f) : FragOKey(sessions[j]) = FragOKey(s)
  <2> SUFFICES ASSUME NEW j \in FragHolders(f)
               PROVE  FragOKey(sessions[j]) = FragOKey(s)
    OBVIOUS
  <2>1. j \in Live /\ sessions[j] \in Session
    BY Records DEF FragHolders, Inv
  <2>2. FragIKey(sessions[j]) = k
    BY <1>1, <1>2 DEF Inv, FragInv
  <2>3. /\ sessions[j].sub = job[w].pkt.sub /\ sessions[j].rip = job[w].pkt.rip
        /\ sessions[j].proto = job[w].pkt.proto
    BY <2>2 DEF FragIKey, FragIKeyOf
  <2>4. /\ sessions[j].out = mp[job[w].pkt.sub].out
        /\ sessions[j].pool = mp[job[w].pkt.sub].pool
    BY <2>1, <2>3 DEF Inv, OwnersExist, OwnedBy
  <2>5. sessions[j].ofib = pools[mp[job[w].pkt.sub].pool].fib
    BY <2>1, <2>4 DEF Inv, OutFibCurrent
  <2> QED BY <2>3, <2>4, <2>5 DEF FragOKey, NewSession
<1> HIDE DEF s, k
<1>10. FragExact'
  <2>1. ASSUME NEW g \in FragIdx, frags'[g] # NULL
        PROVE  frags'[g].refs = Cardinality(FragHolders(g)')
    <3>1. CASE g = f
      <4>1. Cardinality(FragHolders(f) \cup {i}) = Cardinality(FragHolders(f)) + 1
        BY <1>7, HoldersFinite, FS_AddElement
      <4>2. frags[f].refs = Cardinality(FragHolders(f))
        BY <1>2 DEF Inv, FragInv, FragExact
      <4> QED BY <1>6, <1>7, <3>1, <4>1, <4>2
    <3>2. CASE g # f
      BY <1>6, <1>7, <2>1, <3>2 DEF Inv, FragInv, FragExact
    <3> QED BY <3>1, <3>2
  <2>2. ASSUME NEW j \in Live'
        PROVE  /\ frags'[sessions'[j].frag] # NULL
               /\ fragI'[FragIKey(sessions[j])'] = sessions'[j].frag
    <3>1. CASE j = i
      <4>1. FragIKey(sessions[j])' = k /\ sessions'[j].frag = f
        BY <1>7, <1>8, <3>1 DEF FragIKey
      <4> QED BY <1>1, <1>2, <1>6, <4>1
    <3>2. CASE j # i
      <4>1. j \in Live /\ sessions'[j] = sessions[j]
        BY <1>7, <2>2, <3>2
      <4>2. /\ frags[sessions[j].frag] # NULL /\ sessions[j].frag \in FragIdx
            /\ fragI[FragIKey(sessions[j])] = sessions[j].frag
        BY <4>1, Records DEF Inv, FragInv, FragExact, Session
      <4> QED BY <1>1, <1>6, <4>1, <4>2 DEF FragIKey
    <3> QED BY <3>1, <3>2
  <2>3. /\ \A q \in FragIKeys : fragI'[q] # NULL => frags'[fragI'[q]] # NULL
        /\ \A q \in FragOKeys : fragO'[q] # NULL => frags'[fragO'[q]] # NULL
    BY <1>1, <1>6 DEF Inv, TypeOK, FragInv, FragExact
  <2> QED BY <2>1, <2>2, <2>3 DEF FragExact
<1>11. \A g \in FragIdx : frags'[g] # NULL => FragHolders(g)' # {}
  BY <1>6, <1>7 DEF Inv, FragInv
<1>12. ASSUME NEW q \in FragIKeys, fragI'[q] # NULL,
              NEW j \in FragHolders(fragI[q])'
       PROVE  FragIKey(sessions[j])' = q
  <2>1. j \in Live' /\ sessions'[j].frag = fragI'[q]
    BY <1>12 DEF FragHolders
  <2>2. CASE j = i
    <3>1. fragI[q] = f
      BY <1>1, <1>7, <1>8, <2>1, <2>2
    <3>2. PICK h : h \in FragHolders(f)
      BY <1>2 DEF Inv, FragInv
    <3>3. FragIKey(sessions[h]) = q /\ FragIKey(sessions[h]) = k
      BY <1>1, <1>2, <1>12, <3>1, <3>2 DEF Inv, FragInv
    <3> QED BY <1>7, <1>8, <2>2, <3>3 DEF FragIKey
  <2>3. CASE j # i
    <3>1. j \in Live /\ sessions'[j] = sessions[j]
      BY <1>7, <2>1, <2>3
    <3>2. j \in FragHolders(fragI[q])
      BY <1>1, <2>1, <3>1 DEF FragHolders
    <3>3. FragIKey(sessions[j]) = q
      BY <1>1, <1>12, <3>2 DEF Inv, FragInv
    <3> QED BY <3>1, <3>3 DEF FragIKey
  <2> QED BY <2>2, <2>3
<1>13. ASSUME NEW q \in FragOKeys, fragO'[q] # NULL,
              NEW j \in FragHolders(fragO[q])'
       PROVE  FragOKey(sessions[j])' = q
  <2>1. j \in Live' /\ sessions'[j].frag = fragO'[q]
    BY <1>13 DEF FragHolders
  <2>2. CASE j = i
    <3>1. fragO[q] = f
      BY <1>1, <1>7, <1>8, <2>1, <2>2
    <3>2. PICK h : h \in FragHolders(f)
      BY <1>2 DEF Inv, FragInv
    <3>3. FragOKey(sessions[h]) = q /\ FragOKey(sessions[h]) = FragOKey(s)
      BY <1>1, <1>9, <1>13, <3>1, <3>2 DEF Inv, FragInv
    <3> QED BY <1>7, <2>2, <3>3 DEF FragOKey
  <2>3. CASE j # i
    <3>1. j \in Live /\ sessions'[j] = sessions[j]
      BY <1>7, <2>1, <2>3
    <3>2. j \in FragHolders(fragO[q])
      BY <1>1, <2>1, <3>1 DEF FragHolders
    <3>3. FragOKey(sessions[j]) = q
      BY <1>1, <1>13, <3>2 DEF Inv, FragInv
    <3> QED BY <3>1, <3>3 DEF FragOKey
  <2> QED BY <2>2, <2>3
<1>14. FragInv'
  BY <1>10, <1>11, <1>12, <1>13 DEF FragInv
<1> QED BY <1>1, <1>2, <1>3, <1>6, <1>14, InstallInv DEF Inv, TypeOK

LEMMA CreateFreshInv ==
  ASSUME Inv, NEW w \in Workers, CreateFresh(w)
  PROVE  Inv'
<1>1. PICK i \in SessionIdx \ Live, f \in {g \in FragIdx : frags[g] = NULL} :
        LET s == NewSession(w, f) IN
        /\ Install(w, i, f)
        /\ frags' = [frags EXCEPT ![f] = [sub |-> s.sub, out |-> s.out,
                                          ofib |-> s.ofib, refs |-> 1]]
        /\ fragI' = [fragI EXCEPT ![FragIKey(s)] = f]
        /\ fragO' = [fragO EXCEPT ![FragOKey(s)] = f]
  BY DEF CreateFresh
<1> DEFINE s == NewSession(w, f)
           r == [sub |-> s.sub, out |-> s.out, ofib |-> s.ofib, refs |-> 1]
<1>2. /\ pc[w] = "create" /\ UNCHANGED <<pools, mp>>
      /\ fragI[FragIKey(s)] = NULL /\ f \in FragIdx /\ frags[f] = NULL
  BY <1>1 DEF CreateFresh, FragIKey, FragIKeyOf, NewSession
<1>3. /\ s \in Session /\ s.frag = f
      /\ FragIKey(s) \in FragIKeys /\ FragOKey(s) \in FragOKeys
  BY <1>2, NewSessionFacts, KeyTypes DEF NewSession
<1>4. r \in FragRecord /\ r # NULL /\ r.refs = 1
  BY <1>3, SessionAssumption DEF FragRecord, Session
<1>5. /\ s # NULL /\ sessions'[i] = s /\ Live' = Live \cup {i}
      /\ \A j \in Live : sessions'[j] = sessions[j]
      /\ FragHolders(f)' = FragHolders(f) \cup {i} /\ i \notin FragHolders(f)
      /\ \A g : g # f => FragHolders(g)' = FragHolders(g)
  BY <1>1, <1>2, InstallHolders
<1>6. FragHolders(f) = {}
  BY <1>2 DEF FragHolders, Inv, FragInv, FragExact
<1>7. /\ frags' = [frags EXCEPT ![f] = r]
      /\ fragI' = [fragI EXCEPT ![FragIKey(s)] = f]
      /\ fragO' = [fragO EXCEPT ![FragOKey(s)] = f]
  BY <1>1
<1> HIDE DEF s, r
<1>8. /\ frags' \in [FragIdx -> FragRecord \cup {NULL}]
      /\ fragI' \in [FragIKeys -> FragIdx \cup {NULL}]
      /\ fragO' \in [FragOKeys -> FragIdx \cup {NULL}]
      /\ frags'[f] = r /\ \A g \in FragIdx \ {f} : frags'[g] = frags[g]
      /\ fragI'[FragIKey(s)] = f
      /\ \A q \in FragIKeys : q # FragIKey(s) => fragI'[q] = fragI[q]
      /\ fragO'[FragOKey(s)] = f
      /\ \A q \in FragOKeys : q # FragOKey(s) => fragO'[q] = fragO[q]
  BY <1>2, <1>3, <1>4, <1>7 DEF Inv, TypeOK
<1>9. /\ \A q \in FragIKeys : fragI[q] # f
      /\ \A q \in FragOKeys : fragO[q] # f
  <2>1. f # NULL
    BY <1>2, SessionAssumption
  <2> QED BY <1>2, <2>1 DEF Inv, FragInv, FragExact
<1>10. FragExact'
  <2>1. ASSUME NEW g \in FragIdx, frags'[g] # NULL
        PROVE  frags'[g].refs = Cardinality(FragHolders(g)')
    <3>1. CASE g = f
      <4>1. FragHolders(f)' = {i}
        BY <1>5, <1>6
      <4>2. Cardinality({i}) = 1
        BY FS_Singleton
      <4> QED BY <1>4, <1>8, <3>1, <4>1, <4>2
    <3>2. CASE g # f
      BY <1>5, <1>8, <2>1, <3>2 DEF Inv, FragInv, FragExact
    <3> QED BY <3>1, <3>2
  <2>2. ASSUME NEW j \in Live'
        PROVE  /\ frags'[sessions'[j].frag] # NULL
               /\ fragI'[FragIKey(sessions[j])'] = sessions'[j].frag
    <3>1. CASE j = i
      <4>1. FragIKey(sessions[j])' = FragIKey(s) /\ sessions'[j].frag = f
        BY <1>3, <1>5, <3>1 DEF FragIKey
      <4> QED BY <1>4, <1>8, <4>1
    <3>2. CASE j # i
      <4>1. j \in Live /\ sessions'[j] = sessions[j]
        BY <1>5, <2>2, <3>2
      <4>2. /\ frags[sessions[j].frag] # NULL /\ sessions[j].frag \in FragIdx
            /\ sessions[j].frag # NULL
            /\ FragIKey(sessions[j]) \in FragIKeys
            /\ fragI[FragIKey(sessions[j])] = sessions[j].frag
        BY <4>1, Records, KeyTypes, SessionAssumption
           DEF Inv, FragInv, FragExact, Session
      <4>3. sessions[j].frag # f /\ FragIKey(sessions[j]) # FragIKey(s)
        BY <1>2, <4>2
      <4>4. FragIKey(sessions[j])' = FragIKey(sessions[j])
        BY <4>1 DEF FragIKey
      <4> QED BY <1>8, <4>1, <4>2, <4>3, <4>4
    <3> QED BY <3>1, <3>2
  <2>3. ASSUME NEW q \in FragIKeys, fragI'[q] # NULL
        PROVE  frags'[fragI'[q]] # NULL
    <3>1. CASE q = FragIKey(s)
      BY <1>4, <1>8, <3>1
    <3>2. CASE q # FragIKey(s)
      <4>1. fragI'[q] = fragI[q] /\ fragI[q] # f /\ fragI[q] \in FragIdx
        BY <1>8, <1>9, <2>3, <3>2 DEF Inv, TypeOK
      <4> QED BY <1>8, <2>3, <4>1 DEF Inv, FragInv, FragExact
    <3> QED BY <3>1, <3>2
  <2>4. ASSUME NEW q \in FragOKeys, fragO'[q] # NULL
        PROVE  frags'[fragO'[q]] # NULL
    <3>1. CASE q = FragOKey(s)
      BY <1>4, <1>8, <3>1
    <3>2. CASE q # FragOKey(s)
      <4>1. fragO'[q] = fragO[q] /\ fragO[q] # f /\ fragO[q] \in FragIdx
        BY <1>8, <1>9, <2>4, <3>2 DEF Inv, TypeOK
      <4> QED BY <1>8, <2>4, <4>1 DEF Inv, FragInv, FragExact
    <3> QED BY <3>1, <3>2
  <2> QED BY <2>1, <2>2, <2>3, <2>4 DEF FragExact
<1>11. \A g \in FragIdx : frags'[g] # NULL => FragHolders(g)' # {}
  BY <1>5, <1>8 DEF Inv, FragInv
<1>12. ASSUME NEW q \in FragIKeys, fragI'[q] # NULL,
              NEW j \in FragHolders(fragI[q])'
       PROVE  FragIKey(sessions[j])' = q
  <2>1. j \in Live' /\ sessions'[j].frag = fragI'[q]
    BY <1>12 DEF FragHolders
  <2>2. CASE q = FragIKey(s)
    <3>1. j = i
      BY <1>5, <1>6, <1>8, <2>1, <2>2 DEF FragHolders
    <3> QED BY <1>5, <2>2, <3>1 DEF FragIKey
  <2>3. CASE q # FragIKey(s)
    <3>1. fragI'[q] = fragI[q] /\ fragI[q] # f
      BY <1>8, <1>9, <2>3
    <3>2. j # i
      BY <1>3, <1>5, <2>1, <3>1
    <3>3. j \in Live /\ sessions'[j] = sessions[j]
      BY <1>5, <2>1, <3>2
    <3>4. j \in FragHolders(fragI[q])
      BY <2>1, <3>1, <3>3 DEF FragHolders
    <3>5. FragIKey(sessions[j]) = q
      BY <1>12, <3>1, <3>4 DEF Inv, FragInv
    <3> QED BY <3>3, <3>5 DEF FragIKey
  <2> QED BY <2>2, <2>3
<1>13. ASSUME NEW q \in FragOKeys, fragO'[q] # NULL,
              NEW j \in FragHolders(fragO[q])'
       PROVE  FragOKey(sessions[j])' = q
  <2>1. j \in Live' /\ sessions'[j].frag = fragO'[q]
    BY <1>13 DEF FragHolders
  <2>2. CASE q = FragOKey(s)
    <3>1. j = i
      BY <1>5, <1>6, <1>8, <2>1, <2>2 DEF FragHolders
    <3> QED BY <1>5, <2>2, <3>1 DEF FragOKey
  <2>3. CASE q # FragOKey(s)
    <3>1. fragO'[q] = fragO[q] /\ fragO[q] # f
      BY <1>8, <1>9, <2>3
    <3>2. j # i
      BY <1>3, <1>5, <2>1, <3>1
    <3>3. j \in Live /\ sessions'[j] = sessions[j]
      BY <1>5, <2>1, <3>2
    <3>4. j \in FragHolders(fragO[q])
      BY <2>1, <3>1, <3>3 DEF FragHolders
    <3>5. FragOKey(sessions[j]) = q
      BY <1>13, <3>1, <3>4 DEF Inv, FragInv
    <3> QED BY <3>3, <3>5 DEF FragOKey
  <2> QED BY <2>2, <2>3
<1>14. FragInv'
  BY <1>10, <1>11, <1>12, <1>13 DEF FragInv
<1> QED BY <1>1, <1>2, <1>8, <1>14, InstallInv
-----------------------------------------------------------------------------
LEMMA WorkerInv ==
  ASSUME Inv, NEW w \in Workers, Worker(w)
  PROVE  Inv'
<1>1. ASSUME NEW p \in Packets, In2outHit(w, p)
      PROVE  Inv'
  <2>1. p \in Packet
    BY SessionAssumption
  <2>2. KeyPorts(p)[1] \in Ports /\ KeyPorts(p)[2] \in Ports
    BY <2>1, SessionAssumption DEF KeyPorts, Packet, Ports
  <2>3. PacketKey(p) \in I2oKeys
    BY <2>1, <2>2 DEF PacketKey, I2oKeys, Packet
  <2>4. i2o[PacketKey(p)] \in SessionIdx
    BY <1>1, <2>3 DEF In2outHit, Inv, TypeOK
  <2> QED BY <1>1, <2>4, RefreshInv DEF In2outHit
<1>2. ASSUME NEW k \in O2iKeys, Out2inHit(w, k)
      PROVE  Inv'
  <2>1. o2i[k] \in SessionIdx
    BY <1>2 DEF Out2inHit, Inv, TypeOK
  <2> QED BY <1>2, <2>1, RefreshInv DEF Out2inHit
<1>3. ASSUME CreateStep(w) PROVE Inv'
  BY <1>3, ReserveInv, CreateSharedInv, CreateFreshInv, CreateFullInv,
     UnreserveInv, PortFreeInv DEF CreateStep
<1> QED BY <1>1, <1>2, <1>3, In2outMissInv, PortAllocInv DEF Worker

LEMMA StutterInv ==
  ASSUME Inv, UNCHANGED vars
  PROVE  Inv'
<1>1. UNCHANGED <<pools, mp, sessions, idle, tables, frags, pc, job>>
  BY DEF vars, tables
<1>2. \A s \in Subs : mp[s] # NULL => mp[s].next \in mp[s].start..mp[s].end
  BY NextInBlock
<1> QED
  BY <1>1, <1>2, LocalInv
     DEF Inv, TypeOK, OwnersExist, HasJob, JobPortInBlock

LEMMA NextInv == Inv /\ [Next]_vars => Inv'
<1> SUFFICES ASSUME Inv, [Next]_vars PROVE Inv'
  OBVIOUS
<1>1. CASE Control
  BY <1>1, PoolAddInv, PoolUpdateInv, PoolDelInv, SetOutsideFibInv,
     MappingAddInv, MappingDelInv DEF Control
<1>2. CASE \E w \in Workers : Worker(w)
  BY <1>2, WorkerInv
<1>3. CASE Tick
  BY <1>3, TickInv
<1>4. CASE ExpireWalk
  BY <1>4, ExpireWalkInv
<1>5. CASE UNCHANGED vars
  BY <1>5, StutterInv
<1> QED BY <1>1, <1>2, <1>3, <1>4, <1>5 DEF Next

\* Inv is an invariant of the session table, whatever the interleaving of
\* workers, API calls and the expire process.
THEOREM SessionInvariant == Spec => []Inv
BY InitInv, NextInv, PTL DEF Spec

\* Every variable keeps its type.
THEOREM TypeCorrect == Spec => []TypeOK
<1>1. Inv => TypeOK
  BY DEF Inv
<1> QED BY <1>1, SessionInvariant, PTL

\* cgnat_session_create and cgnat_session_delete keep both lookup tables
\* consistent with the session pool, also when two workers create one flow.
THEOREM LookupsResolve == Spec => []TablesResolve
<1>1. Inv => TablesResolve
  BY DEF Inv
<1> QED BY <1>1, SessionInvariant, PTL

\* No session outlives its mapping and no mapping its pool.
THEOREM NoOrphanOwner == Spec => []OwnersExist
<1>1. Inv => OwnersExist
  BY DEF Inv
<1> QED BY <1>1, SessionInvariant, PTL

\* What a lookup finds is a live session of that tuple, with its owners.
THEOREM LookupsLinked == Spec => []SessionsLinked
<1>1. Inv => SessionsLinked
  BY DEF Inv, SessionsLinked
<1> QED BY <1>1, SessionInvariant, PTL

\* The outside FIB cached in a session is that of its pool.
THEOREM FibsCurrent == Spec => []OutFibCurrent
<1>1. Inv => OutFibCurrent
  BY DEF Inv
<1> QED BY <1>1, SessionInvariant, PTL

\* The reference counts of the fragment records are exact, and the inside key
\* of a live session always finds its record.
THEOREM FragmentsExact == Spec => []FragExact
<1>1. Inv => FragExact
  BY DEF Inv, FragInv
<1> QED BY <1>1, SessionInvariant, PTL

\* An outside tuple belongs to one subscriber: blocks on one address are
\* disjoint and cgnat_port_alloc never leaves the block.
LEMMA BlocksSeparate ==
  ASSUME Inv
  PROVE  ReplyReachesOwner
<1>1. SessionPortInBlock
  BY DEF Inv
<1>2. ASSUME NEW i \in Live, NEW j \in Live, NeedsPort(sessions[i].proto),
             O2iKey(sessions[i]) = O2iKey(sessions[j])
      PROVE  sessions[i].sub = sessions[j].sub
  <2> DEFINE s == sessions[i].sub
             t == sessions[j].sub
             p == sessions[i].oport
  <2>1. /\ sessions[i] \in Session /\ sessions[j] \in Session
        /\ s \in Subs /\ t \in Subs /\ p \in Ports
        /\ mp[s] # NULL /\ mp[t] # NULL
    BY Records DEF Inv, Session, OwnersExist, OwnedBy
  <2>2. /\ sessions[j].oport = p /\ sessions[j].proto = sessions[i].proto
        /\ sessions[j].out = sessions[i].out
    BY <1>2 DEF O2iKey
  <2>3. mp[s].out = mp[t].out
    BY <2>2 DEF Inv, OwnersExist, OwnedBy
  <2>4. p \in mp[s].start..mp[s].end /\ p \in mp[t].start..mp[t].end
    BY <1>1, <1>2, <2>2 DEF SessionPortInBlock
  <2>5. /\ Plan[s].out = Plan[t].out
        /\ p \in Plan[s].start..Plan[s].end /\ p \in Plan[t].start..Plan[t].end
    BY <2>1, <2>3, <2>4 DEF Inv, Planned
  <2> HIDE DEF s, t, p
  <2>6. s = t
    BY <2>1, <2>5, BlocksDisjoint
  <2> QED BY <2>6 DEF s, t
<1> QED BY <1>1, <1>2 DEF ReplyReachesOwner, SessionPortInBlock

\* Traffic that comes back on a port reaches the subscriber whose block it is.
THEOREM OneOwnerPerTuple == Spec => []ReplyReachesOwner
<1>1. Inv => ReplyReachesOwner
  BY BlocksSeparate
<1> QED BY <1>1, SessionInvariant, PTL
-----------------------------------------------------------------------------
(* The session count of a subscriber, and its cap.                          *)

\* A slot is only reserved below the cap, and the cap moves at a barrier.
CapHeld ==
  \A s \in Subs : Reserved(s) # {} => mp[s].count <= pools[mp[s].pool].max

CountInv == Inv /\ CountExact /\ CapHeld

LEMMA HeldFinite ==
  ASSUME NEW s
  PROVE  /\ IsFiniteSet(LiveOf(s)) /\ Cardinality(LiveOf(s)) \in Nat
         /\ IsFiniteSet(Reserved(s)) /\ Cardinality(Reserved(s)) \in Nat
<1>1. LiveOf(s) \subseteq SessionIdx /\ Reserved(s) \subseteq Workers
  BY DEF LiveOf, Live, Reserved
<1> QED BY <1>1, SessionAssumption, FS_Subset, FS_CardinalityType

\* One element more or less.
LEMMA OneMore ==
  ASSUME NEW S, IsFiniteSet(S), NEW x, x \notin S
  PROVE  Cardinality(S \cup {x}) = Cardinality(S) + 1
BY FS_AddElement

LEMMA OneLess ==
  ASSUME NEW S, IsFiniteSet(S), NEW x \in S
  PROVE  Cardinality(S \ {x}) = Cardinality(S) - 1
BY FS_RemoveElement

LEMMA OneBelow ==
  ASSUME NEW a \in Nat, NEW b \in Nat, a <= b
  PROVE  a - 1 <= b
OBVIOUS

\* Sessions and reservations belong to subscribers that have a mapping.
LEMMA NoneUnmapped ==
  ASSUME Inv, NEW s \in Subs, mp[s] = NULL
  PROVE  LiveOf(s) = {} /\ Reserved(s) = {}
<1>1. \A i \in Live : sessions[i].sub # s
  BY DEF Inv, OwnersExist, OwnedBy
<1>2. \A w \in Workers : pc[w] # "idle" => job[w].pkt.sub # s
  BY DEF Inv, OwnersExist
<1> QED BY <1>1, <1>2 DEF LiveOf, Reserved

LEMMA NoneReserved ==
  ASSUME Barrier, NEW s
  PROVE  Reserved(s) = {}
BY DEF Barrier, Reserved

\* Steps that move no session and no reservation, and no count.
LEMMA CountsStay ==
  ASSUME CountInv, Inv', UNCHANGED sessions,
         \A s \in Subs : Reserved(s)' = Reserved(s),
         \A s \in Subs : mp'[s] # NULL =>
           mp[s] # NULL /\ mp'[s].count = mp[s].count /\ mp'[s].pool = mp[s].pool,
         \A s \in Subs : Reserved(s) = {} \/ pools'[mp[s].pool] = pools[mp[s].pool]
  PROVE  CountInv'
<1>1. \A s \in Subs : LiveOf(s)' = LiveOf(s)
  BY DEF LiveOf, Live
<1>2. CountExact'
  BY <1>1 DEF CountInv, CountExact
<1>3. ASSUME NEW s \in Subs, Reserved(s)' # {}
      PROVE  mp'[s].count <= pools'[mp'[s].pool].max
  <2>1. Reserved(s) # {} /\ mp'[s] # NULL
    BY <1>3, NoneUnmapped DEF CountInv, Inv, OwnersExist, Reserved
  <2> QED BY <2>1 DEF CountInv, CapHeld
<1> QED BY <1>2, <1>3 DEF CountInv, CapHeld

\* What a worker's own step makes of the reservations.
LEMMA OneWorker ==
  ASSUME Inv, NEW w \in Workers, NEW next, NEW j,
         pc' = [pc EXCEPT ![w] = next], job' = [job EXCEPT ![w] = j],
         NEW s
  PROVE  Reserved(s)' =
           IF next \in {"create", "unreserve", "panic"} /\ j.pkt.sub = s
           THEN Reserved(s) \cup {w} ELSE Reserved(s) \ {w}
BY DEF Reserved, Inv, TypeOK

\* A worker's step that takes and gives back no slot.
LEMMA WorkerCountsStay ==
  ASSUME CountInv, Inv', NEW w \in Workers, NEW next, NEW j,
         pc' = [pc EXCEPT ![w] = next], job' = [job EXCEPT ![w] = j],
         pc[w] \notin {"create", "unreserve", "panic"},
         next \notin {"create", "unreserve", "panic"},
         UNCHANGED <<pools, sessions>>,
         \A s \in Subs : mp'[s] # NULL =>
           mp[s] # NULL /\ mp'[s].count = mp[s].count /\ mp'[s].pool = mp[s].pool
  PROVE  CountInv'
<1>1. ASSUME NEW s \in Subs PROVE Reserved(s)' = Reserved(s)
  <2>1. Reserved(s)' = Reserved(s) \ {w}
    BY OneWorker DEF CountInv
  <2>2. w \notin Reserved(s)
    BY DEF Reserved
  <2> QED BY <2>1, <2>2
<1> QED BY <1>1, CountsStay

LEMMA MissCount ==
  ASSUME CountInv, Inv', NEW w \in Workers, NEW p \in Packets, In2outMiss(w, p)
  PROVE  CountInv'
<1>1. PICK next \in {"alloc", "reserve"} : pc' = [pc EXCEPT ![w] = next]
  BY DEF In2outMiss
<1> QED BY <1>1, WorkerCountsStay DEF In2outMiss

LEMMA AllocCount ==
  ASSUME CountInv, Inv', NEW w \in Workers, PortAlloc(w)
  PROVE  CountInv'
<1> DEFINE s == job[w].pkt.sub
           m == mp[s]
           n == m.end - m.start + 1
<1>1. pc[w] = "alloc" /\ UNCHANGED <<pools, sessions>>
  BY Zenon DEF PortAlloc
<1>2. s \in Subs /\ mp[s] \in Mapping /\ mp[s] # NULL
  BY <1>1, WorkerFacts, NullIsNoRecord DEF CountInv
<1>3. ASSUME \A t \in Subs : mp'[t] # NULL =>
               mp[t] # NULL /\ mp'[t].count = mp[t].count /\ mp'[t].pool = mp[t].pool,
             NEW q,
             \/ Finish(w)
             \/ /\ job' = [job EXCEPT ![w].port = q]
                /\ pc' = [pc EXCEPT ![w] = "reserve"]
      PROVE  CountInv'
  <2>1. CASE Finish(w)
    BY <1>1, <1>3, <2>1, WorkerCountsStay DEF Finish
  <2>2. CASE /\ job' = [job EXCEPT ![w].port = q]
             /\ pc' = [pc EXCEPT ![w] = "reserve"]
    <3>1. job' = [job EXCEPT ![w] = [job[w] EXCEPT !.port = q]]
      BY <2>2
    <3> QED BY <1>1, <1>3, <2>2, <3>1, WorkerCountsStay
  <2> QED BY <1>3, <2>1, <2>2
<1>4. CASE Finish(w) /\ mp' = mp
  BY <1>3, <1>4
<1>5. ASSUME NEW k \in 0..(n - 1), mp' = [mp EXCEPT ![s].next = Scan(m, k + 1)],
             \/ Finish(w)
             \/ /\ job' = [job EXCEPT ![w].port = Scan(m, k)]
                /\ pc' = [pc EXCEPT ![w] = "reserve"]
      PROVE  CountInv'
  <2>1. PICK c : mp' = [mp EXCEPT ![s].next = c]
    BY <1>5
  <2>2. ASSUME NEW t \in Subs
        PROVE  mp'[t] # NULL =>
                 mp[t] # NULL /\ mp'[t].count = mp[t].count
                 /\ mp'[t].pool = mp[t].pool
    <3> HIDE DEF s
    <3> QED BY <1>2, <2>1 DEF Mapping, CountInv, Inv, TypeOK
  <2> QED BY <1>3, <1>5, <2>2
<1> QED BY <1>4, <1>5 DEF PortAlloc

LEMMA FreeCount ==
  ASSUME CountInv, Inv', NEW w \in Workers, PortFree(w)
  PROVE  CountInv'
<1> DEFINE s == job[w].pkt.sub
<1>1. pc[w] = "free" /\ s \in Subs /\ mp[s] \in Mapping
  BY WorkerFacts DEF PortFree, CountInv
<1>2. UNCHANGED mp \/ \E p : mp' = [mp EXCEPT ![s].cool[p] = Cooldown]
  BY Zenon DEF PortFree
<1>3. \A t \in Subs : mp'[t] # NULL =>
        mp[t] # NULL /\ mp'[t].count = mp[t].count /\ mp'[t].pool = mp[t].pool
  <2>1. mp \in [Subs -> Mapping \cup {NULL}] /\ mp[s] # NULL
    BY <1>1, NullIsNoRecord DEF CountInv, Inv, TypeOK
  <2> HIDE DEF s
  <2>2. ASSUME NEW p, mp' = [mp EXCEPT ![s].cool[p] = Cooldown], NEW t \in Subs
        PROVE  mp'[t] # NULL =>
                 mp[t] # NULL /\ mp'[t].count = mp[t].count
                 /\ mp'[t].pool = mp[t].pool
    BY <1>1, <2>1, <2>2 DEF Mapping
  <2> QED BY <1>2, <2>2
<1>4. UNCHANGED <<pools, sessions>> /\ Finish(w)
  BY DEF PortFree
<1> HIDE DEF s
<1> QED BY <1>1, <1>3, <1>4, WorkerCountsStay DEF Finish

\* A slot taken, and given back: the count follows the reservation.
LEMMA SlotMoved ==
  ASSUME CountInv, Inv', NEW w \in Workers, NEW next, NEW s \in Subs,
         pc' = [pc EXCEPT ![w] = next], job' = job, s = job[w].pkt.sub,
         UNCHANGED <<pools, sessions>>, NEW n \in Nat,
         mp[s] \in Mapping, mp' = [mp EXCEPT ![s].count = n],
         \/ /\ w \notin Reserved(s) /\ next = "create" /\ n = mp[s].count + 1
            /\ n <= pools[mp[s].pool].max
         \/ /\ w \in Reserved(s) /\ next = "free" /\ n = mp[s].count - 1
  PROVE  CountInv'
<1>1. \A t : Reserved(t)' =
        IF next = "create" /\ s = t THEN Reserved(t) \cup {w}
        ELSE Reserved(t) \ {w}
  <2> TAKE t
  <2>1. job' = [job EXCEPT ![w] = job[w]]
    BY DEF CountInv, Inv, TypeOK
  <2>2. Reserved(t)' =
          IF next \in {"create", "unreserve", "panic"} /\ job[w].pkt.sub = t
          THEN Reserved(t) \cup {w} ELSE Reserved(t) \ {w}
    BY <2>1, OneWorker DEF CountInv
  <2>3. next = "create" \/ next = "free"
    OBVIOUS
  <2> QED BY <2>2, <2>3
<1>2. ASSUME NEW t \in Subs, t # s
      PROVE  Reserved(t)' = Reserved(t) /\ mp'[t] = mp[t]
  <2>1. w \notin Reserved(t)
    BY <1>2 DEF Reserved
  <2>2. Reserved(t)' = Reserved(t) \ {w}
    BY <1>1, <1>2
  <2>3. mp'[t] = mp[t]
    BY <1>2 DEF CountInv, Inv, TypeOK
  <2> QED BY <2>1, <2>2, <2>3
<1>3. /\ Cardinality(Reserved(s)) \in Nat /\ Cardinality(LiveOf(s)) \in Nat
      /\ mp[s].count = Cardinality(LiveOf(s)) + Cardinality(Reserved(s))
  BY HeldFinite, NullIsNoRecord DEF CountInv, CountExact
<1>4. Cardinality(Reserved(s)') = Cardinality(Reserved(s)) + (n - mp[s].count)
  <2>1. CASE w \notin Reserved(s) /\ next = "create" /\ n = mp[s].count + 1
    <3>1. Reserved(s)' = Reserved(s) \cup {w}
      BY <1>1, <2>1
    <3>2. Cardinality(Reserved(s)') = Cardinality(Reserved(s)) + 1
      BY <2>1, <3>1, HeldFinite, OneMore
    <3> QED BY <1>3, <2>1, <3>2
  <2>2. CASE w \in Reserved(s) /\ next = "free" /\ n = mp[s].count - 1
    <3>1. Reserved(s)' = Reserved(s) \ {w}
      BY <1>1, <2>2
    <3>2. Cardinality(Reserved(s)') = Cardinality(Reserved(s)) - 1
      BY <2>2, <3>1, HeldFinite, OneLess
    <3> QED BY <1>3, <2>2, <3>2
  <2> QED BY <2>1, <2>2
<1>5. /\ mp'[s].count = n /\ mp'[s].pool = mp[s].pool
      /\ \A t : LiveOf(t)' = LiveOf(t)
  BY DEF LiveOf, Live, Mapping, CountInv, Inv, TypeOK
<1>6. CountExact'
  <2>1. ASSUME NEW t \in Subs, mp'[t] # NULL
        PROVE  mp'[t].count = Cardinality(LiveOf(t)') + Cardinality(Reserved(t)')
    <3>1. CASE t = s
      BY <1>3, <1>4, <1>5, <3>1
    <3>2. CASE t # s
      BY <1>2, <1>5, <2>1, <3>2 DEF CountInv, CountExact
    <3> QED BY <3>1, <3>2
  <2> QED BY <2>1 DEF CountExact
<1>7. CapHeld'
  <2>1. ASSUME NEW t \in Subs, Reserved(t)' # {}
        PROVE  mp'[t].count <= pools'[mp'[t].pool].max
    <3>1. CASE t # s
      BY <1>2, <2>1, <3>1 DEF CountInv, CapHeld
    <3>2. CASE t = s /\ next = "create" /\ n <= pools[mp[s].pool].max
      BY <1>5, <3>2
    <3>3. CASE t = s /\ w \in Reserved(s) /\ n = mp[s].count - 1
      <4>1. mp[s].count <= pools[mp[s].pool].max
        BY <3>3 DEF CountInv, CapHeld
      <4>2. pools[mp[s].pool].max \in Nat
        <5>1. pc[w] # "idle" /\ s = job[w].pkt.sub /\ Inv
          BY <3>3 DEF Reserved, CountInv
        <5>2. pools[mp[s].pool] \in Pool
          BY <5>1, WorkerFacts
        <5> QED BY <5>2 DEF Pool
      <4>3. mp[s].count \in Nat
        BY <1>3
      <4>4. n <= pools[mp[s].pool].max
        <5>1. mp[s].count - 1 <= pools[mp[s].pool].max
          BY <4>1, <4>2, <4>3, OneBelow
        <5>2. n = mp[s].count - 1
          BY <3>3
        <5> QED BY <5>1, <5>2, Zenon
      <4> QED BY <1>5, <3>3, <4>4
    <3> QED BY <3>1, <3>2, <3>3
  <2> QED BY <2>1 DEF CapHeld
<1> QED BY <1>6, <1>7 DEF CountInv

LEMMA ReserveCount ==
  ASSUME CountInv, Inv', NEW w \in Workers, Reserve(w)
  PROVE  CountInv'
<1> DEFINE s == job[w].pkt.sub
<1>1. pc[w] = "reserve" /\ UNCHANGED <<pools, sessions>> /\ job' = job
  BY DEF Reserve
<1>2. s \in Subs /\ mp[s] \in Mapping /\ pools[mp[s].pool] \in Pool
  BY <1>1, WorkerFacts DEF CountInv
<1>3. mp[s].count \in Nat /\ pools[mp[s].pool].max \in Nat /\ mp[s] # NULL
  BY <1>2, NullIsNoRecord DEF Mapping, Pool
<1>4. CASE /\ mp[s].count < pools[mp[s].pool].max
           /\ mp' = [mp EXCEPT ![s].count = @ + 1]
           /\ pc' = [pc EXCEPT ![w] = "create"]
  <2> DEFINE n == mp[s].count + 1
  <2>1. n \in Nat /\ n <= pools[mp[s].pool].max
    <3>1. mp[s].count < pools[mp[s].pool].max
      BY <1>4
    <3> QED BY <1>3, <3>1
  <2>2. mp' = [mp EXCEPT ![s].count = n] /\ w \notin Reserved(s)
    BY <1>1, <1>4 DEF Reserved
  <2>3. n = mp[s].count + 1
    OBVIOUS
  <2>4. pc' = [pc EXCEPT ![w] = "create"] /\ s = job[w].pkt.sub
    BY <1>4
  <2> HIDE DEF n, s
  <2> QED BY <1>1, <1>2, <2>1, <2>2, <2>3, <2>4, SlotMoved
<1>5. CASE mp' = mp /\ pc' = [pc EXCEPT ![w] = "free"]
  <2>1. job' = [job EXCEPT ![w] = job[w]]
    BY <1>1 DEF CountInv, Inv, TypeOK
  <2> QED BY <1>1, <1>5, <2>1, WorkerCountsStay
<1> QED BY <1>4, <1>5 DEF Reserve

LEMMA UnreserveCount ==
  ASSUME CountInv, Inv', NEW w \in Workers, Unreserve(w)
  PROVE  CountInv'
<1> DEFINE s == job[w].pkt.sub
           n == mp[s].count - 1
<1>1. /\ pc[w] = "unreserve" /\ UNCHANGED <<pools, sessions>> /\ job' = job
      /\ pc' = [pc EXCEPT ![w] = "free"]
  BY DEF Unreserve
<1>2. s \in Subs /\ mp[s] \in Mapping /\ mp[s] # NULL
  BY <1>1, WorkerFacts, NullIsNoRecord DEF CountInv
<1>3. w \in Reserved(s)
  BY <1>1 DEF Reserved
<1>4. mp[s].count \in Nat /\ mp[s].count > 0
  <2>1. /\ mp[s].count = Cardinality(LiveOf(s)) + Cardinality(Reserved(s))
        /\ Cardinality(LiveOf(s)) \in Nat /\ Cardinality(Reserved(s)) \in Nat
    BY <1>2, HeldFinite DEF CountInv, CountExact
  <2>2. Cardinality(Reserved(s)) # 0
    BY <1>3, HeldFinite, FS_EmptySet
  <2> QED BY <2>1, <2>2
<1>5. mp' = [mp EXCEPT ![s].count = n] /\ n \in Nat
  <2>1. mp' = [mp EXCEPT ![s].count = IF @ > 0 THEN @ - 1 ELSE 0]
    BY Zenon DEF Unreserve
  <2>2. n = IF mp[s].count > 0 THEN mp[s].count - 1 ELSE 0
    BY <1>4
  <2>3. n \in Nat
    BY <1>4
  <2> HIDE DEF n
  <2> QED BY <2>1, <2>2, <2>3
<1>6. n = mp[s].count - 1
  OBVIOUS
<1> HIDE DEF n
<1> QED BY <1>1, <1>2, <1>3, <1>5, <1>6, SlotMoved

\* A full pool, of sessions or of fragment records: the slot stays taken.
LEMMA FullCount ==
  ASSUME CountInv, Inv', NEW w \in Workers, CreateFull(w) \/ CreatePanic(w)
  PROVE  CountInv'
<1>1. /\ pc[w] = "create" /\ UNCHANGED <<pools, mp, sessions>> /\ job' = job
      /\ \/ pc' = [pc EXCEPT ![w] = "unreserve"]
         \/ pc' = [pc EXCEPT ![w] = "panic"]
  BY DEF CreateFull, CreatePanic
<1>2. \A s \in Subs : Reserved(s)' = Reserved(s)
  BY <1>1 DEF Reserved, CountInv, Inv, TypeOK
<1>3. \A s \in Subs : mp'[s] # NULL => mp[s] # NULL
  BY <1>1
<1> QED BY <1>1, <1>2, <1>3, CountsStay

\* The reservation becomes the session.
LEMMA InstallCounts ==
  ASSUME CountInv, NEW w \in Workers, pc[w] = "create",
         NEW i \in SessionIdx \ Live, NEW f \in FragIdx, Install(w, i, f),
         NEW s \in Subs
  PROVE  /\ LiveOf(s)' = IF s = job[w].pkt.sub THEN LiveOf(s) \cup {i}
                         ELSE LiveOf(s)
         /\ Reserved(s)' = Reserved(s) \ {w}
         /\ w \in Reserved(s) <=> s = job[w].pkt.sub
         /\ i \notin LiveOf(s)
<1>1. /\ sessions'[i] = NewSession(w, f) /\ Live' = Live \cup {i}
      /\ \A j \in Live : sessions'[j] = sessions[j]
      /\ NewSession(w, f).sub = job[w].pkt.sub
  BY InstallHolders, NewSessionFacts DEF CountInv
<1>2. LiveOf(s)' = IF s = job[w].pkt.sub THEN LiveOf(s) \cup {i} ELSE LiveOf(s)
  BY <1>1 DEF LiveOf
<1>3. pc' = [pc EXCEPT ![w] = "idle"] /\ job' = [job EXCEPT ![w] = NULL]
  BY DEF Install, Finish
<1>4. Reserved(s)' = Reserved(s) \ {w}
  BY <1>3 DEF Reserved, CountInv, Inv, TypeOK
<1>5. (w \in Reserved(s) <=> s = job[w].pkt.sub) /\ i \notin LiveOf(s)
  BY DEF Reserved, LiveOf
<1> QED BY <1>2, <1>4, <1>5

LEMMA CreateCount ==
  ASSUME CountInv, Inv', NEW w \in Workers, pc[w] = "create",
         NEW i \in SessionIdx \ Live, NEW f \in FragIdx, Install(w, i, f),
         UNCHANGED <<pools, mp>>
  PROVE  CountInv' /\ CapStep
<1>1. ASSUME NEW s \in Subs, mp[s] # NULL
      PROVE  mp[s].count = Cardinality(LiveOf(s)') + Cardinality(Reserved(s)')
  <2>1. /\ mp[s].count = Cardinality(LiveOf(s)) + Cardinality(Reserved(s))
        /\ Cardinality(LiveOf(s)) \in Nat /\ Cardinality(Reserved(s)) \in Nat
    BY <1>1, HeldFinite DEF CountInv, CountExact
  <2>2. CASE s = job[w].pkt.sub
    <3>1. /\ LiveOf(s)' = LiveOf(s) \cup {i} /\ i \notin LiveOf(s)
          /\ Reserved(s)' = Reserved(s) \ {w} /\ w \in Reserved(s)
      BY <2>2, InstallCounts
    <3>2. Cardinality(LiveOf(s)') = Cardinality(LiveOf(s)) + 1
      BY <3>1, HeldFinite, OneMore
    <3>3. Cardinality(Reserved(s)') = Cardinality(Reserved(s)) - 1
      BY <3>1, HeldFinite, OneLess
    <3> QED BY <2>1, <3>2, <3>3
  <2>3. CASE s # job[w].pkt.sub
    <3>1. /\ LiveOf(s)' = LiveOf(s) /\ Reserved(s)' = Reserved(s) \ {w}
          /\ w \notin Reserved(s)
      BY <2>3, InstallCounts
    <3>2. Reserved(s)' = Reserved(s)
      BY <3>1
    <3> QED BY <2>1, <3>1, <3>2
  <2> QED BY <2>2, <2>3
<1>2. CountExact'
  BY <1>1 DEF CountExact
<1>3. CapHeld'
  BY InstallCounts DEF CapHeld, CountInv
<1>4. CapStep
  <2> SUFFICES ASSUME NEW s \in Subs, LiveOf(s)' \ LiveOf(s) # {}
               PROVE  Cardinality(LiveOf(s)') <= pools[mp[s].pool].max
    BY DEF CapStep
  <2>1. s = job[w].pkt.sub
    BY InstallCounts
  <2>2. /\ LiveOf(s)' = LiveOf(s) \cup {i} /\ i \notin LiveOf(s)
        /\ Reserved(s)' = Reserved(s) \ {w} /\ w \in Reserved(s)
    BY <2>1, InstallCounts
  <2>3. /\ mp[s] # NULL /\ pools[mp[s].pool].max \in Nat
        /\ mp[s].count <= pools[mp[s].pool].max
    <3>1. mp[s] \in Mapping /\ pools[mp[s].pool] \in Pool
      BY <2>1, WorkerFacts DEF CountInv
    <3>2. mp[s].count <= pools[mp[s].pool].max
      BY <2>2 DEF CountInv, CapHeld
    <3> QED BY <3>1, <3>2, NullIsNoRecord DEF Pool
  <2>4. /\ mp[s].count = Cardinality(LiveOf(s)) + Cardinality(Reserved(s))
        /\ Cardinality(LiveOf(s)) \in Nat /\ Cardinality(Reserved(s)) \in Nat
    BY <2>3, HeldFinite DEF CountInv, CountExact
  <2>5. Cardinality(LiveOf(s)') = Cardinality(LiveOf(s)) + 1
    BY <2>2, HeldFinite, OneMore
  <2>6. Cardinality(Reserved(s)) # 0
    BY <2>2, HeldFinite, FS_EmptySet
  <2> QED BY <2>3, <2>4, <2>5, <2>6
<1> QED BY <1>2, <1>3, <1>4 DEF CountInv

\* Deleting sessions at a barrier lowers each count by what goes.
LEMMA ReleasedCount ==
  ASSUME CountInv, Barrier, NEW D \in SUBSET Live, NEW s \in Subs, mp[s] # NULL
  PROVE  MappingsWithout(D)[s].count = Cardinality(LiveOf(s) \ D)
<1> DEFINE L == LiveOf(s)
           E == D \cap L
           c == Cardinality(E)
<1>1. mp[s].count = Cardinality(L) /\ mp[s] \in Mapping
  <2>1. Reserved(s) = {} /\ Cardinality({}) = 0
    BY NoneReserved, FS_EmptySet
  <2>2. mp[s].count = Cardinality(L) + Cardinality(Reserved(s))
    BY DEF CountInv, CountExact
  <2>3. Cardinality(L) \in Nat
    BY HeldFinite
  <2>4. mp[s] \in Mapping
    BY Records DEF CountInv, Inv
  <2> QED BY <2>1, <2>2, <2>3, <2>4
<1>2. /\ Cardinality(L \ D) = Cardinality(L) - Cardinality(L \cap D)
      /\ Cardinality(L) \in Nat
  BY HeldFinite, FS_Difference
<1>3. Cardinality(L \ D) = Cardinality(L) - c
  <2>1. L \cap D = E
    OBVIOUS
  <2> QED BY <1>2, <2>1
<1>4. c \in Nat /\ c <= Cardinality(L)
  <2>1. E \subseteq L /\ IsFiniteSet(L)
    BY HeldFinite
  <2> QED BY <2>1, FS_Subset, FS_CardinalityType
<1>5. MappingsWithout(D)[s] = IF E = {} THEN mp[s] ELSE Released(mp[s], E)
  BY DEF MappingsWithout
<1>6. CASE E = {}
  <2>1. L \ D = L
    BY <1>6
  <2> QED BY <1>1, <1>5, <1>6, <2>1
<1>7. CASE E # {}
  <2>1. Released(mp[s], E).count =
          IF mp[s].count > c THEN mp[s].count - c ELSE 0
    BY <1>1 DEF Released, Mapping
  <2>2. MappingsWithout(D)[s].count =
          IF mp[s].count > c THEN mp[s].count - c ELSE 0
    BY <1>5, <1>7, <2>1
  <2> HIDE DEF E, c
  <2> QED BY <1>1, <1>2, <1>3, <1>4, <2>2
<1> QED BY <1>6, <1>7

LEMMA DeleteCount ==
  ASSUME CountInv, Inv', Barrier, NEW D \in SUBSET Live, DeleteSessions(D),
         UNCHANGED <<pc, job>>,
         \A s \in Subs : mp'[s] # NULL =>
           mp[s] # NULL /\ mp'[s].count = MappingsWithout(D)[s].count
  PROVE  CountInv' /\ CapStep
<1>1. /\ Live' = Live \ D
      /\ \A i \in Live' : sessions'[i] = sessions[i]
  BY DeleteLive DEF CountInv, Inv
<1>2. \A s : LiveOf(s)' = LiveOf(s) \ D
  BY <1>1 DEF LiveOf
<1>3. \A s : Reserved(s)' = {}
  BY DEF Barrier, Reserved
<1>4. ASSUME NEW s \in Subs, mp'[s] # NULL
      PROVE  mp'[s].count = Cardinality(LiveOf(s)') + Cardinality(Reserved(s)')
  <2>1. mp'[s].count = Cardinality(LiveOf(s) \ D)
    BY <1>4, ReleasedCount
  <2>2. Cardinality(LiveOf(s) \ D) \in Nat /\ Cardinality({}) = 0
    BY HeldFinite, FS_Subset, FS_CardinalityType, FS_EmptySet
  <2> QED BY <1>2, <1>3, <2>1, <2>2
<1>5. CapStep
  BY <1>2 DEF CapStep
<1> QED BY <1>3, <1>4, <1>5 DEF CountInv, CountExact, CapHeld

LEMMA ControlCount ==
  ASSUME CountInv, Inv', Control
  PROVE  CountInv' /\ CapStep
<1> USE DEF CountInv
<1>1. Barrier /\ UNCHANGED <<pc, job>>
  BY DEF Control, PoolAdd, PoolUpdate, PoolDel, SetOutsideFib, MappingAdd,
         MappingDel
<1>2. \A s : Reserved(s) = {} /\ Reserved(s)' = {}
  BY <1>1 DEF Reserved, Barrier
<1>3. ASSUME UNCHANGED sessions PROVE CapStep
  BY <1>3 DEF CapStep, LiveOf, Live
<1>4. ASSUME UNCHANGED <<mp, sessions>> PROVE CountInv' /\ CapStep
  BY <1>2, <1>3, <1>4, CountsStay
<1>5. ASSUME NEW p \in PoolIds, PoolDel(p) PROVE CountInv' /\ CapStep
  <2> DEFINE D == {i \in Live : sessions[i].pool = p}
             M == {s \in Subs : mp[s] # NULL /\ mp[s].pool = p}
  <2>1. /\ DeleteSessions(D)
        /\ mp' = [s \in Subs |-> IF s \in M THEN NULL ELSE MappingsWithout(D)[s]]
    BY <1>5 DEF PoolDel
  <2>2. D \in SUBSET Live
    OBVIOUS
  <2>3. ASSUME NEW s \in Subs, mp'[s] # NULL
        PROVE  mp[s] # NULL /\ mp'[s].count = MappingsWithout(D)[s].count
    <3>1. mp'[s] = MappingsWithout(D)[s]
      BY <2>1, <2>3
    <3> QED BY <2>3, <3>1 DEF MappingsWithout
  <2> HIDE DEF D, M
  <2> QED BY <1>1, <2>1, <2>2, <2>3, DeleteCount
<1>6. ASSUME NEW s \in Subs, MappingDel(s) PROVE CountInv' /\ CapStep
  <2> DEFINE D == LiveOf(s)
  <2>1. DeleteSessions(D) /\ mp' = [mp EXCEPT ![s] = NULL] /\ D \in SUBSET Live
    BY <1>6 DEF MappingDel, LiveOf
  <2>2. ASSUME NEW t \in Subs, mp'[t] # NULL
        PROVE  mp[t] # NULL /\ mp'[t].count = MappingsWithout(D)[t].count
    <3>1. t # s /\ mp'[t] = mp[t]
      BY <2>1, <2>2 DEF Inv, TypeOK
    <3>2. D \cap LiveOf(t) = {}
      BY <3>1 DEF LiveOf
    <3> HIDE DEF D
    <3> QED BY <2>2, <3>1, <3>2 DEF MappingsWithout
  <2> HIDE DEF D
  <2> QED BY <1>1, <2>1, <2>2, DeleteCount
<1>7. ASSUME NEW s \in Subs, MappingAdd(s) PROVE CountInv' /\ CapStep
  <2>1. /\ UNCHANGED <<pools, sessions>> /\ mp[s] = NULL
        /\ mp'[s].count = 0 /\ \A t \in Subs : t # s => mp'[t] = mp[t]
    BY <1>7 DEF MappingAdd, Inv, TypeOK
  <2>2. \A t : LiveOf(t)' = LiveOf(t)
    BY <2>1 DEF LiveOf, Live
  <2>3. LiveOf(s) = {} /\ Cardinality({}) = 0
    BY <2>1, NoneUnmapped, FS_EmptySet
  <2>4. ASSUME NEW t \in Subs, mp'[t] # NULL
        PROVE  mp'[t].count = Cardinality(LiveOf(t)') + Cardinality(Reserved(t)')
    <3>1. CASE t = s
      BY <1>2, <2>1, <2>2, <2>3, <3>1
    <3>2. CASE t # s
      BY <1>2, <2>1, <2>2, <2>4, <3>2 DEF CountExact
    <3> QED BY <3>1, <3>2
  <2>5. CountExact' /\ CapHeld'
    BY <1>2, <2>4 DEF CountExact, CapHeld
  <2> QED BY <1>3, <2>1, <2>5
<1> QED BY <1>4, <1>5, <1>6, <1>7 DEF Control, PoolAdd, PoolUpdate, SetOutsideFib

LEMMA TickCount ==
  ASSUME CountInv, Inv', Tick
  PROVE  CountInv'
<1>1. UNCHANGED <<pools, sessions, pc, job>>
  BY DEF Tick
<1>2. \A s \in Subs : Reserved(s)' = Reserved(s)
  BY <1>1 DEF Reserved
<1>3. ASSUME NEW s \in Subs, mp'[s] # NULL
      PROVE  mp[s] # NULL /\ mp'[s].count = mp[s].count /\ mp'[s].pool = mp[s].pool
  <2>1. mp[s] # NULL
    BY <1>3 DEF Tick
  <2>2. mp[s] \in Mapping
    BY <2>1, Records DEF CountInv, Inv
  <2>3. PICK q : mp'[s] = [mp[s] EXCEPT !.cool = q]
    BY <2>1 DEF Tick
  <2> QED BY <2>1, <2>2, <2>3 DEF Mapping
<1> QED BY <1>1, <1>2, <1>3, CountsStay

LEMMA NextCount ==
  ASSUME CountInv, [Next]_vars
  PROVE  CountInv' /\ [CapStep]_vars
<1>1. Inv'
  BY NextInv DEF CountInv
<1>2. ASSUME UNCHANGED sessions PROVE CapStep
  BY <1>2 DEF CapStep, LiveOf, Live
<1>3. ASSUME UNCHANGED <<pools, mp, sessions, pc, job>> PROVE CountInv'
  BY <1>1, <1>3, CountsStay DEF Reserved
<1>4. CASE Control
  BY <1>1, <1>4, ControlCount
<1>5. ASSUME NEW w \in Workers, Worker(w) PROVE CountInv' /\ CapStep
  <2>1. ASSUME NEW p \in Packets, In2outHit(w, p) PROVE CountInv' /\ CapStep
    BY <1>2, <1>3, <2>1 DEF In2outHit
  <2>2. ASSUME NEW p \in Packets, In2outMiss(w, p) PROVE CountInv' /\ CapStep
    BY <1>1, <1>2, <2>2, MissCount DEF In2outMiss
  <2>3. ASSUME NEW k \in O2iKeys, Out2inHit(w, k) PROVE CountInv' /\ CapStep
    BY <1>2, <1>3, <2>3 DEF Out2inHit
  <2>4. CASE PortAlloc(w)
    <3>1. UNCHANGED sessions
      BY <2>4, Zenon DEF PortAlloc
    <3> QED BY <1>1, <1>2, <2>4, <3>1, AllocCount
  <2>5. CASE CreateShared(w)
    <3>1. PICK f : /\ f = fragI[FragIKeyOf(w)] /\ f # NULL /\ pc[w] = "create"
                   /\ \E i \in SessionIdx \ Live : Install(w, i, f)
                   /\ UNCHANGED <<pools, mp>>
      BY <2>5 DEF CreateShared
    <3>2. FragIKeyOf(w) \in FragIKeys
      <4>1. job[w].pkt \in Packet
        BY <3>1, WorkerFacts DEF CountInv
      <4> QED BY <4>1 DEF FragIKeyOf, FragIKeys, Packet
    <3>3. f \in FragIdx
      BY <3>1, <3>2 DEF CountInv, Inv, TypeOK
    <3> QED BY <1>1, <3>1, <3>3, CreateCount
  <2>6. CASE CreateFresh(w)
    <3>1. /\ pc[w] = "create" /\ UNCHANGED <<pools, mp>>
          /\ \E i \in SessionIdx \ Live, f \in FragIdx : Install(w, i, f)
      BY <2>6 DEF CreateFresh
    <3> QED BY <1>1, <3>1, CreateCount
  <2>7. CASE CreateFull(w) \/ CreatePanic(w)
    BY <1>1, <1>2, <2>7, FullCount DEF CreateFull, CreatePanic
  <2>8. CASE Reserve(w)
    <3>1. UNCHANGED sessions
      BY <2>8 DEF Reserve
    <3> QED BY <1>1, <1>2, <2>8, <3>1, ReserveCount
  <2>9. CASE Unreserve(w)
    <3>1. UNCHANGED sessions
      BY <2>9 DEF Unreserve
    <3> QED BY <1>1, <1>2, <2>9, <3>1, UnreserveCount
  <2>10. CASE PortFree(w)
    <3>1. UNCHANGED sessions
      BY <2>10 DEF PortFree
    <3> QED BY <1>1, <1>2, <2>10, <3>1, FreeCount
  <2> QED BY <1>5, <2>1, <2>2, <2>3, <2>4, <2>5, <2>6, <2>7, <2>8, <2>9, <2>10
          DEF Worker, CreateStep
<1>6. CASE Tick
  BY <1>1, <1>2, <1>6, TickCount DEF Tick
<1>7. CASE ExpireWalk
  <2>1. /\ Barrier /\ DeleteSessions(Expired) /\ mp' = MappingsWithout(Expired)
        /\ UNCHANGED <<pc, job>> /\ Expired \in SUBSET Live
    BY <1>7 DEF ExpireWalk, Expired
  <2>2. \A s \in Subs : mp'[s] # NULL => mp[s] # NULL
    BY <2>1 DEF MappingsWithout
  <2> QED BY <1>1, <2>1, <2>2, DeleteCount
<1>8. CASE UNCHANGED vars
  BY <1>3, <1>8 DEF vars
<1> QED BY <1>4, <1>5, <1>6, <1>7, <1>8 DEF Next

LEMMA InitCount == Init => CountInv
<1> SUFFICES ASSUME Init PROVE CountInv
  OBVIOUS
<1>1. \A s : Reserved(s) = {}
  BY DEF Init, Reserved
<1> QED BY <1>1, InitInv DEF Init, CountInv, CountExact, CapHeld

\* session_count is the number of sessions and reserved slots at all times:
\* no path of cgnat_session_create, and no way a session goes, loses a slot of
\* the subscriber or gives one back twice.
THEOREM CountsAgree == Spec => []CountExact
<1>1. CountInv /\ [Next]_vars => CountInv'
  BY NextCount
<1>2. CountInv => CountExact
  BY DEF CountInv
<1> QED BY InitCount, <1>1, <1>2, PTL DEF Spec

\* However many workers create for one subscriber at once, a session appears
\* only within max_sessions_per_sub.
THEOREM CapNeverPassed == Spec => CapRespected
<1>1. CountInv /\ [Next]_vars => CountInv'
  BY NextCount
<1>2. CountInv /\ [Next]_vars => [CapStep]_vars
  BY NextCount
<1> QED BY InitCount, <1>1, <1>2, PTL DEF Spec, CapRespected
=============================================================================
