---------------------------- MODULE CgnatSession ----------------------------
(***************************************************************************)
(* The session table of the CGNAT plugin (plugins/osvbng_cgnat): one pool  *)
(* of sessions shared by every worker, the two lookup tables that resolve  *)
(* packets to sessions, the per-subscriber port block, and the reference   *)
(* counted records that translate non-first fragments.                     *)
(*                                                                         *)
(* Workers run the in2out slow path concurrently.  Its lookups take no     *)
(* lock; the port, the subscriber's session slot and the session itself    *)
(* are taken in three critical sections, one step each here.  The main     *)
(* thread (binary API, expire process) runs with the worker barrier held:  *)
(* every worker is parked between two packets, pc[w] = "idle".             *)
(*                                                                         *)
(* Time is relative.  idle[i] is the age of session i's last_active, and   *)
(* mp[s].cool[p] what is left of port p's reuse cooldown; Tick ages both.  *)
(* A port never released (timestamp 0) has cool 0, as one long released.   *)
(***************************************************************************)
EXTENDS Naturals, FiniteSets

CONSTANTS
  Workers,      \* VPP worker threads
  Subs,         \* subscribers: (inside_ip, inside_fib_index) lookup keys
  PoolIds,      \* NAT pools
  Fibs,         \* outside FIB indices
  OutIps,       \* outside addresses
  Rips,         \* remote addresses
  Protos,       \* IP protocols
  IcmpProtos,   \* those of Protos whose key repeats the echo id
  UnkProtos,    \* those of Protos without ports (GRE, ESP, ...)
  MaxPort,      \* the largest port, 65535 in the code
  SessionIdx,   \* slots of cm->sessions, CGNAT_MAX_SESSIONS of them
  FragIdx,      \* slots of cm->frag_rewrite_pool, CGNAT_MAX_FRAG_REWRITES
  Packets,      \* subscriber packets the workers may receive
  Plan,         \* [Subs -> mapping inputs the control plane sends]
  Caps,         \* values of max_sessions_per_sub
  Timeout,      \* session timeout, in ticks
  Cooldown,     \* port reuse cooldown, in ticks (120 s in the code)
  NULL          \* no value: ~0 indices, empty slots, failed lookups

Ports == 0..MaxPort

Packet == [sub : Subs, rip : Rips, sport : Ports, dport : Ports,
           proto : Protos]

Inputs == [pool : PoolIds, out : OutIps, start : Ports, end : Ports]

ASSUME SessionAssumption ==
  /\ NULL \notin SessionIdx \cup FragIdx \cup Fibs \cup Ports
  /\ NULL \notin [sub : Subs, rip : Rips, sport : Ports, dport : Ports,
                  proto : Protos, oport : Ports, out : OutIps, pool : PoolIds,
                  ofib : Fibs, frag : FragIdx]
  /\ NULL \notin [fib : Fibs \cup {NULL}, max : Nat]
  /\ NULL \notin [pool : PoolIds, out : OutIps, start : Ports, end : Ports,
                  next : Ports, count : Nat, cool : [Ports -> 0..Cooldown]]
  /\ NULL \notin [sub : Subs, out : OutIps, ofib : Fibs, refs : Nat]
  /\ NULL \notin [pkt : Packet, port : Ports]
  /\ MaxPort \in Nat /\ Timeout \in Nat /\ Cooldown \in Nat
  /\ Packets \subseteq Packet
  /\ IcmpProtos \subseteq Protos /\ UnkProtos \subseteq Protos
  /\ IcmpProtos \cap UnkProtos = {}
  /\ Caps \subseteq Nat
  /\ Plan \in [Subs -> Inputs]
  /\ IsFiniteSet(SessionIdx) /\ IsFiniteSet(Workers)

\* The control plane gives each subscriber a port block of its own: blocks on
\* one outside address do not overlap (Port Block Allocation).
ASSUME BlocksDisjoint ==
  /\ \A s \in Subs : Plan[s].start <= Plan[s].end
  /\ \A s, t \in Subs : \A p \in Ports :
       /\ Plan[s].out = Plan[t].out
       /\ p \in Plan[s].start..Plan[s].end
       /\ p \in Plan[t].start..Plan[t].end
       => s = t

VARIABLES
  pools,     \* cm->pools: outside FIB and per-subscriber cap
  mp,        \* cm->mappings by inside_lookup key
  sessions,  \* cm->sessions
  idle,      \* age of last_active, per session slot
  i2o,       \* session_table_in2out
  o2i,       \* session_table_out2in
  frags,     \* cm->frag_rewrite_pool
  fragI,     \* frag_aux, entries keyed from the inside
  fragO,     \* frag_aux, entries keyed from the outside
  pc,        \* where each worker is in the slow path
  job        \* the packet and port each worker carries

tables == <<i2o, o2i, fragI, fragO>>
vars == <<pools, mp, sessions, idle, i2o, o2i, frags, fragI, fragO, pc, job>>

Session == [sub : Subs, rip : Rips, sport : Ports, dport : Ports,
            proto : Protos, oport : Ports, out : OutIps, pool : PoolIds,
            ofib : Fibs, frag : FragIdx]

Mapping == [pool : PoolIds, out : OutIps, start : Ports, end : Ports,
            next : Ports, count : Nat, cool : [Ports -> 0..Cooldown]]

Pool == [fib : Fibs \cup {NULL}, max : Nat]

FragRecord == [sub : Subs, out : OutIps, ofib : Fibs, refs : Nat]

Steps == {"idle", "alloc", "reserve", "create", "unreserve", "free", "panic"}

Job == [pkt : Packet, port : Ports]

I2oKeys == Subs \X Rips \X Ports \X Ports \X Protos
O2iKeys == OutIps \X Rips \X Ports \X Ports \X Protos \X Fibs
FragIKeys == Subs \X Rips \X Protos
FragOKeys == Rips \X OutIps \X Protos \X Fibs
-----------------------------------------------------------------------------
(* Keys.  cgnat_session_create fills the i2o and o2i flow records; the     *)
(* tables are keyed on their match tuples.                                 *)

NeedsPort(proto) == proto \notin UnkProtos

\* The port slots of the key read from a packet: an ICMP echo carries its
\* identifier in both, a protocol without ports has zeroes.
KeyPorts(p) ==
  CASE p.proto \in UnkProtos  -> <<0, 0>>
    [] p.proto \in IcmpProtos -> <<p.sport, p.sport>>
    [] OTHER                  -> <<p.sport, p.dport>>

PacketKey(p) ==
  <<p.sub, p.rip, KeyPorts(p)[1], KeyPorts(p)[2], p.proto>>

I2oKey(s) ==
  <<s.sub, s.rip, s.sport,
    IF s.proto \in IcmpProtos THEN s.sport ELSE s.dport, s.proto>>

O2iKey(s) ==
  <<s.out, s.rip, s.oport,
    IF s.proto \in IcmpProtos THEN s.oport ELSE s.dport, s.proto, s.ofib>>

FragIKey(s) == <<s.sub, s.rip, s.proto>>
FragOKey(s) == <<s.rip, s.out, s.proto, s.ofib>>

Live == {i \in SessionIdx : sessions[i] # NULL}
LiveOf(s) == {i \in Live : sessions[i].sub = s}
FragHolders(f) == {i \in Live : sessions[i].frag = f}

\* Workers that hold a slot of subscriber s's cap and have no session, the one
\* the process died of included.
Reserved(s) == {w \in Workers : /\ pc[w] \in {"create", "unreserve", "panic"}
                                /\ job[w].pkt.sub = s}

\* vlib_worker_thread_barrier_sync: every worker is at the top of its loop.
Barrier == \A w \in Workers : pc[w] = "idle"
Running == \A w \in Workers : pc[w] # "panic"
-----------------------------------------------------------------------------
(* Deleting a set D of sessions: what cgnat_session_delete, applied to     *)
(* each of them, leaves of every structure.                                *)

Without(table, keys) ==
  [k \in DOMAIN table |-> IF k \in keys THEN NULL ELSE table[k]]

SessionsWithout(D) ==
  [i \in SessionIdx |-> IF i \in D THEN NULL ELSE sessions[i]]

\* cgnat_port_free on each port, then the mapping's session_count.
Released(m, D) ==
  [m EXCEPT
    !.count = IF @ > Cardinality(D) THEN @ - Cardinality(D) ELSE 0,
    !.cool = [p \in Ports |->
                IF \E i \in D : /\ NeedsPort(sessions[i].proto)
                                /\ sessions[i].oport = p
                                /\ p \in m.start..m.end
                THEN Cooldown ELSE @[p]]]

MappingsWithout(D) ==
  [s \in Subs |-> IF mp[s] = NULL \/ D \cap LiveOf(s) = {} THEN mp[s]
                  ELSE Released(mp[s], D \cap LiveOf(s))]

\* cgnat_frag_rewrite_release: the last reference evicts the record and both
\* keys, whichever record those keys resolve to by then.
LastFrags(D) ==
  {f \in FragIdx : /\ frags[f] # NULL
                   /\ FragHolders(f) \cap D # {}
                   /\ frags[f].refs <= Cardinality(FragHolders(f) \cap D)}

FragsWithout(D) ==
  [f \in FragIdx |->
     IF frags[f] = NULL \/ FragHolders(f) \cap D = {} THEN frags[f]
     ELSE IF f \in LastFrags(D) THEN NULL
     ELSE [frags[f] EXCEPT !.refs = @ - Cardinality(FragHolders(f) \cap D)]]

LastHolders(D) == {i \in D : sessions[i].frag \in LastFrags(D)}

\* Mutant: the out2in entry of a deleted session stays behind.
DeleteSessions_KeepsOut2in(D) ==
  /\ sessions' = SessionsWithout(D)
  /\ i2o' = Without(i2o, {I2oKey(sessions[i]) : i \in D})
  /\ frags' = FragsWithout(D)
  /\ fragI' = Without(fragI, {FragIKey(sessions[i]) : i \in LastHolders(D)})
  /\ fragO' = Without(fragO, {FragOKey(sessions[i]) : i \in LastHolders(D)})
  /\ UNCHANGED o2i

DeleteSessions(D) ==
  /\ sessions' = SessionsWithout(D)
  /\ i2o' = Without(i2o, {I2oKey(sessions[i]) : i \in D})
  /\ o2i' = Without(o2i, {O2iKey(sessions[i]) : i \in D})
  /\ frags' = FragsWithout(D)
  /\ fragI' = Without(fragI, {FragIKey(sessions[i]) : i \in LastHolders(D)})
  /\ fragO' = Without(fragO, {FragOKey(sessions[i]) : i \in LastHolders(D)})
-----------------------------------------------------------------------------
(* Control plane: binary API handlers on the main thread.                  *)

\* A new pool (cgnat_pool_add_del), not bound to an outside FIB yet.
PoolAdd(p, cap) ==
  /\ Barrier
  /\ pools[p] = NULL
  /\ pools' = [pools EXCEPT ![p] = [fib |-> NULL, max |-> cap]]
  /\ UNCHANGED <<mp, sessions, idle, tables, frags, pc, job>>

\* The cap of a live pool moves: a repeated add without hard drift, or
\* cgnat_pool_update.
PoolUpdate(p, cap) ==
  /\ Barrier
  /\ pools[p] # NULL
  /\ pools' = [pools EXCEPT ![p].max = cap]
  /\ UNCHANGED <<mp, sessions, idle, tables, frags, pc, job>>

\* cgnat_pool_cascade_delete: sessions, then mappings, then the pool.
PoolDel(p) ==
  LET D == {i \in Live : sessions[i].pool = p}
      M == {s \in Subs : mp[s] # NULL /\ mp[s].pool = p}
  IN /\ Barrier
     /\ pools[p] # NULL
     /\ DeleteSessions(D)
     /\ mp' = [s \in Subs |-> IF s \in M THEN NULL ELSE MappingsWithout(D)[s]]
     /\ pools' = [pools EXCEPT ![p] = NULL]
     /\ UNCHANGED <<idle, pc, job>>

\* Mutant: the FIB moves under live sessions.
SetOutsideFib_NoDrain(p, f) ==
  /\ Barrier
  /\ pools[p] # NULL
  /\ pools' = [pools EXCEPT ![p].fib = f]
  /\ UNCHANGED <<mp, sessions, idle, tables, frags, pc, job>>

\* Bind or move the outside FIB; a bound pool moves only while the table of
\* sessions, of every pool, is empty.
SetOutsideFib(p, f) ==
  /\ Barrier
  /\ pools[p] # NULL
  /\ pools[p].fib = NULL \/ Live = {}
  /\ pools' = [pools EXCEPT ![p].fib = f]
  /\ UNCHANGED <<mp, sessions, idle, tables, frags, pc, job>>

\* A repeated add changes nothing: it answers 0 or ENTRY_NEEDS_REFRESH.
MappingAdd(s) ==
  /\ Barrier
  /\ pools[Plan[s].pool] # NULL
  /\ mp[s] = NULL
  /\ mp' = [mp EXCEPT ![s] =
              [pool |-> Plan[s].pool, out |-> Plan[s].out,
               start |-> Plan[s].start, end |-> Plan[s].end,
               next |-> Plan[s].start, count |-> 0,
               cool |-> [p \in Ports |-> 0]]]
  /\ UNCHANGED <<pools, sessions, idle, tables, frags, pc, job>>

\* Reap the mapping's own sessions through its list, then free it.
MappingDel(s) ==
  /\ Barrier
  /\ mp[s] # NULL
  /\ DeleteSessions(LiveOf(s))
  /\ mp' = [mp EXCEPT ![s] = NULL]
  /\ UNCHANGED <<pools, idle, pc, job>>
-----------------------------------------------------------------------------
(* Workers: cgnat-in2out and its slow path.                                *)

\* The packet has a mapping and its pool an outside FIB; else it is dropped
\* and nothing changes.
Translatable(p) == mp[p.sub] # NULL /\ pools[mp[p.sub].pool].fib # NULL

\* Lookup hits: cgnat_in2out_translate refreshes last_active.
In2outHit(w, p) ==
  /\ pc[w] = "idle"
  /\ Translatable(p)
  /\ i2o[PacketKey(p)] # NULL
  /\ idle' = [idle EXCEPT ![i2o[PacketKey(p)]] = 0]
  /\ UNCHANGED <<pools, mp, sessions, tables, frags, pc, job>>

\* Mutant: the slow path creates without looking the session up again.
In2outMiss_NoRecheck(w, p) ==
  /\ pc[w] = "idle"
  /\ Translatable(p)
  /\ pc' = [pc EXCEPT ![w] = IF NeedsPort(p.proto) THEN "alloc" ELSE "reserve"]
  /\ job' = [job EXCEPT ![w] = [pkt |-> p, port |-> 0]]
  /\ UNCHANGED <<pools, mp, sessions, idle, tables, frags>>

\* Lookup misses: the slow path goes on to create the session.
In2outMiss(w, p) ==
  /\ pc[w] = "idle"
  /\ Translatable(p)
  /\ i2o[PacketKey(p)] = NULL
  /\ pc' = [pc EXCEPT ![w] = IF NeedsPort(p.proto) THEN "alloc" ELSE "reserve"]
  /\ job' = [job EXCEPT ![w] = [pkt |-> p, port |-> 0]]
  /\ UNCHANGED <<pools, mp, sessions, idle, tables, frags>>

\* The worker is done with the packet.
Finish(w) ==
  /\ pc' = [pc EXCEPT ![w] = "idle"]
  /\ job' = [job EXCEPT ![w] = NULL]

\* Mutant: next_port wraps one port late.
Scan_LateWrap(m, k) ==
  (m.start + ((m.next - m.start + k) % (m.end - m.start + 2))) % (MaxPort + 1)

\* The port k places after next_port, going around the block.
Scan(m, k) == m.start + ((m.next - m.start + k) % (m.end - m.start + 1))

\* cgnat_port_alloc, under the mapping lock: the first port from next_port
\* on that is out of cooldown.  Port 0 reads as "none" to the caller.
PortAlloc(w) ==
  LET s == job[w].pkt.sub
      m == mp[s]
      n == m.end - m.start + 1
  IN /\ pc[w] = "alloc"
     /\ \/ \E k \in 0..(n - 1) :
             /\ m.cool[Scan(m, k)] = 0
             /\ \A j \in 0..(k - 1) : m.cool[Scan(m, j)] # 0
             /\ mp' = [mp EXCEPT ![s].next = Scan(m, k + 1)]
             /\ IF Scan(m, k) = 0 THEN Finish(w)
                ELSE /\ job' = [job EXCEPT ![w].port = Scan(m, k)]
                     /\ pc' = [pc EXCEPT ![w] = "reserve"]
        \/ /\ \A k \in 0..(n - 1) : m.cool[Scan(m, k)] # 0
           /\ Finish(w)
           /\ UNCHANGED mp
     /\ UNCHANGED <<pools, sessions, idle, tables, frags>>

\* Mutant: the cap is tested, the slot is not taken.
Reserve_NoCount(w) ==
  LET s == job[w].pkt.sub IN
  /\ pc[w] = "reserve"
  /\ pc' = [pc EXCEPT ![w] = IF mp[s].count < pools[mp[s].pool].max
                             THEN "create" ELSE "free"]
  /\ UNCHANGED <<pools, mp, sessions, idle, tables, frags, job>>

\* cgnat_session_create, first critical section: the subscriber's slot.
Reserve(w) ==
  LET s == job[w].pkt.sub IN
  /\ pc[w] = "reserve"
  /\ \/ /\ mp[s].count < pools[mp[s].pool].max
        /\ mp' = [mp EXCEPT ![s].count = @ + 1]
        /\ pc' = [pc EXCEPT ![w] = "create"]
     \/ /\ mp[s].count >= pools[mp[s].pool].max
        /\ pc' = [pc EXCEPT ![w] = "free"]
        /\ UNCHANGED mp
  /\ UNCHANGED <<pools, sessions, idle, tables, frags, job>>

\* The session a worker is about to install, holding fragment record f.
NewSession(w, f) ==
  LET p == job[w].pkt
      m == mp[p.sub]
  IN [sub |-> p.sub, rip |-> p.rip, sport |-> KeyPorts(p)[1],
      dport |-> KeyPorts(p)[2], proto |-> p.proto, oport |-> job[w].port,
      out |-> m.out, pool |-> m.pool, ofib |-> pools[m.pool].fib,
      frag |-> f]

Install(w, i, f) ==
  LET s == NewSession(w, f) IN
  /\ sessions' = [sessions EXCEPT ![i] = s]
  /\ idle' = [idle EXCEPT ![i] = 0]
  /\ i2o' = [i2o EXCEPT ![I2oKey(s)] = i]
  /\ o2i' = [o2i EXCEPT ![O2iKey(s)] = i]
  /\ Finish(w)

FragIKeyOf(w) ==
  <<job[w].pkt.sub, job[w].pkt.rip, job[w].pkt.proto>>

\* Mutant: the shared record is used without a reference of its own.
CreateShared_NoRef(w) ==
  /\ pc[w] = "create"
  /\ fragI[FragIKeyOf(w)] # NULL
  /\ \E i \in SessionIdx \ Live : Install(w, i, fragI[FragIKeyOf(w)])
  /\ UNCHANGED <<pools, mp, frags, fragI, fragO>>

\* Second critical section, under session_pool_lock; a sibling session's
\* fragment record is shared ...
CreateShared(w) ==
  /\ pc[w] = "create"
  /\ fragI[FragIKeyOf(w)] # NULL
  /\ LET f == fragI[FragIKeyOf(w)] IN
     /\ \E i \in SessionIdx \ Live : Install(w, i, f)
     /\ frags' = [frags EXCEPT ![f].refs = @ + 1]
  /\ UNCHANGED <<pools, mp, fragI, fragO>>

\* ... or a new one is installed under both of its keys.
CreateFresh(w) ==
  /\ pc[w] = "create"
  /\ fragI[FragIKeyOf(w)] = NULL
  /\ \E i \in SessionIdx \ Live, f \in {g \in FragIdx : frags[g] = NULL} :
       LET s == NewSession(w, f) IN
       /\ Install(w, i, f)
       /\ frags' = [frags EXCEPT ![f] = [sub |-> s.sub, out |-> s.out,
                                         ofib |-> s.ofib, refs |-> 1]]
       /\ fragI' = [fragI EXCEPT ![FragIKey(s)] = f]
       /\ fragO' = [fragO EXCEPT ![FragOKey(s)] = f]
  /\ UNCHANGED <<pools, mp>>

\* pool_get on the full fixed-size fragment pool ends the process: unlike
\* the session pool, its level is not tested first.
CreatePanic(w) ==
  /\ pc[w] = "create"
  /\ Live # SessionIdx
  /\ fragI[FragIKeyOf(w)] = NULL
  /\ \A f \in FragIdx : frags[f] # NULL
  /\ pc' = [pc EXCEPT ![w] = "panic"]
  /\ UNCHANGED <<pools, mp, sessions, idle, tables, frags, job>>

\* The session pool is full: leave the lock without a session ...
CreateFull(w) ==
  /\ pc[w] = "create"
  /\ Live = SessionIdx
  /\ pc' = [pc EXCEPT ![w] = "unreserve"]
  /\ UNCHANGED <<pools, mp, sessions, idle, tables, frags, job>>

\* Mutant: the slot reserved for a session that was not created is kept.
Unreserve_Keeps(w) ==
  /\ pc[w] = "unreserve"
  /\ pc' = [pc EXCEPT ![w] = "free"]
  /\ UNCHANGED <<pools, mp, sessions, idle, tables, frags, job>>

\* ... and give the subscriber's slot back.
Unreserve(w) ==
  LET s == job[w].pkt.sub IN
  /\ pc[w] = "unreserve"
  /\ mp' = [mp EXCEPT ![s].count = IF @ > 0 THEN @ - 1 ELSE 0]
  /\ pc' = [pc EXCEPT ![w] = "free"]
  /\ UNCHANGED <<pools, sessions, idle, tables, frags, job>>

\* The port of a failed create goes into cooldown although nothing used it.
PortFree(w) ==
  LET s == job[w].pkt.sub IN
  /\ pc[w] = "free"
  /\ mp' = IF NeedsPort(job[w].pkt.proto)
           THEN [mp EXCEPT ![s].cool[job[w].port] = Cooldown]
           ELSE mp
  /\ Finish(w)
  /\ UNCHANGED <<pools, sessions, idle, tables, frags>>

\* A reply, or an ICMP error quoting one side of the flow, resolves session
\* i in a table and refreshes it.  Errors quoting an ICMP query do not.
Out2inHit(w, k) ==
  /\ pc[w] = "idle"
  /\ o2i[k] # NULL
  /\ idle' = [idle EXCEPT ![o2i[k]] = 0]
  /\ UNCHANGED <<pools, mp, sessions, tables, frags, pc, job>>
-----------------------------------------------------------------------------
(* The passage of time, and the expire process.                            *)

Older(age) == IF age > Timeout THEN age ELSE age + 1

Tick ==
  /\ idle' = [i \in SessionIdx |-> IF i \in Live THEN Older(idle[i]) ELSE 0]
  /\ mp' = [s \in Subs |->
              IF mp[s] = NULL THEN NULL
              ELSE [mp[s] EXCEPT !.cool = [p \in Ports |->
                      IF mp[s].cool[p] = 0 THEN 0 ELSE mp[s].cool[p] - 1]]]
  /\ UNCHANGED <<pools, sessions, tables, frags, pc, job>>

\* cgnat_expire_walk_cb sees the sessions the in2out table names.
Expired == {i \in Live : /\ \E k \in I2oKeys : i2o[k] = i
                         /\ idle[i] > Timeout}

ExpireWalk ==
  /\ Barrier
  /\ Expired # {}
  /\ DeleteSessions(Expired)
  /\ mp' = MappingsWithout(Expired)
  /\ UNCHANGED <<pools, idle, pc, job>>
-----------------------------------------------------------------------------
Init ==
  /\ pools = [p \in PoolIds |-> NULL]
  /\ mp = [s \in Subs |-> NULL]
  /\ sessions = [i \in SessionIdx |-> NULL]
  /\ idle = [i \in SessionIdx |-> 0]
  /\ i2o = [k \in I2oKeys |-> NULL]
  /\ o2i = [k \in O2iKeys |-> NULL]
  /\ frags = [f \in FragIdx |-> NULL]
  /\ fragI = [k \in FragIKeys |-> NULL]
  /\ fragO = [k \in FragOKeys |-> NULL]
  /\ pc = [w \in Workers |-> "idle"]
  /\ job = [w \in Workers |-> NULL]

Control ==
  \/ \E p \in PoolIds, c \in Caps : PoolAdd(p, c) \/ PoolUpdate(p, c)
  \/ \E p \in PoolIds : PoolDel(p)
  \/ \E p \in PoolIds, f \in Fibs : SetOutsideFib(p, f)
  \/ \E s \in Subs : MappingAdd(s) \/ MappingDel(s)

CreateStep(w) ==
  \/ Reserve(w) \/ CreateShared(w) \/ CreateFresh(w) \/ CreatePanic(w)
  \/ CreateFull(w) \/ Unreserve(w) \/ PortFree(w)

Worker(w) ==
  \/ \E p \in Packets : In2outHit(w, p) \/ In2outMiss(w, p)
  \/ \E k \in O2iKeys : Out2inHit(w, k)
  \/ PortAlloc(w)
  \/ CreateStep(w)

Next == /\ Running
        /\ Control \/ (\E w \in Workers : Worker(w)) \/ Tick \/ ExpireWalk

Spec == Init /\ [][Next]_vars

\* Workers run to completion; the main loop's clock keeps going; the expire
\* process wakes every 10 s and its barrier stops the workers, so it is not
\* kept out by a worker that always finds another packet.
Fairness == /\ \A w \in Workers : WF_vars(PortAlloc(w) \/ CreateStep(w))
            /\ WF_vars(Tick)
            /\ SF_vars(ExpireWalk)

FairSpec == Spec /\ Fairness
-----------------------------------------------------------------------------
TypeOK ==
  /\ pools \in [PoolIds -> Pool \cup {NULL}]
  /\ mp \in [Subs -> Mapping \cup {NULL}]
  /\ sessions \in [SessionIdx -> Session \cup {NULL}]
  /\ idle \in [SessionIdx -> 0..(Timeout + 1)]
  /\ i2o \in [I2oKeys -> SessionIdx \cup {NULL}]
  /\ o2i \in [O2iKeys -> SessionIdx \cup {NULL}]
  /\ frags \in [FragIdx -> FragRecord \cup {NULL}]
  /\ fragI \in [FragIKeys -> FragIdx \cup {NULL}]
  /\ fragO \in [FragOKeys -> FragIdx \cup {NULL}]
  /\ pc \in [Workers -> Steps]
  /\ job \in [Workers -> Job \cup {NULL}]

\* An entry of a session table names a live session whose own tuple is the
\* entry's key: no lookup reaches a freed or recycled slot, whatever creates
\* raced and whichever of two racing sessions was deleted first
\* (cgnat_session_create, cgnat_session_delete).
TablesResolve ==
  /\ \A k \in I2oKeys : i2o[k] # NULL =>
       /\ sessions[i2o[k]] # NULL
       /\ I2oKey(sessions[i2o[k]]) = k
  /\ \A k \in O2iKeys : o2i[k] # NULL =>
       /\ sessions[o2i[k]] # NULL
       /\ O2iKey(sessions[o2i[k]]) = k

\* What session s says of its owner is what the owner is now.
OwnedBy(s) ==
  /\ mp[s.sub] # NULL
  /\ s.pool = mp[s.sub].pool
  /\ s.out = mp[s.sub].out

\* A session never outlives its mapping, nor a mapping its pool, and a worker
\* in the slow path holds a mapping that is still there: the freed lock that
\* cgnat_add_del_subscriber_mapping's sweep is there to avoid.
OwnersExist ==
  /\ \A i \in Live : OwnedBy(sessions[i])
  /\ \A s \in Subs : mp[s] # NULL => pools[mp[s].pool] # NULL
  /\ \A w \in Workers : pc[w] # "idle" => mp[job[w].pkt.sub] # NULL

\* Together: whatever a lookup finds is live, is the session of that tuple and
\* hangs on a mapping and a pool that are there (cgnat_session_delete,
\* cgnat_add_del_subscriber_mapping, cgnat_add_del_pool).
SessionsLinked == TablesResolve /\ OwnersExist

\* Replies: on one outside tuple of a protocol with ports, all sessions belong
\* to one subscriber and the port is in that subscriber's block, so no
\* out2in hit can deliver one subscriber's traffic to another.
ReplyReachesOwner ==
  /\ \A i \in Live : NeedsPort(sessions[i].proto) =>
       sessions[i].oport \in mp[sessions[i].sub].start..mp[sessions[i].sub].end
  /\ \A i, j \in Live :
       /\ NeedsPort(sessions[i].proto)
       /\ O2iKey(sessions[i]) = O2iKey(sessions[j])
       => sessions[i].sub = sessions[j].sub

\* The outside FIB a session caches is its pool's: cgnat_set_outside_fib does
\* not move a FIB under live sessions (its comment, M4), also not between a
\* worker's lookup and its create.
OutFibCurrent ==
  \A i \in Live : sessions[i].ofib = pools[sessions[i].pool].fib

\* session_count is the number of sessions of the subscriber plus the slots
\* workers have reserved and not used yet: no failure path of
\* cgnat_session_create leaks a slot or returns one twice.
CountExact ==
  \A s \in Subs : mp[s] # NULL =>
    mp[s].count = Cardinality(LiveOf(s)) + Cardinality(Reserved(s))

\* A fragment record has as many references as sessions hold it, and its
\* inside key resolves to it as long as one does: fragments a subscriber
\* sends find a live record (cgnat_frag_rewrite_acquire, _release).
FragExact ==
  /\ \A f \in FragIdx : frags[f] # NULL =>
       frags[f].refs = Cardinality(FragHolders(f))
  /\ \A i \in Live : /\ frags[sessions[i].frag] # NULL
                      /\ fragI[FragIKey(sessions[i])] = sessions[i].frag
  /\ \A k \in FragIKeys : fragI[k] # NULL => frags[fragI[k]] # NULL
  /\ \A k \in FragOKeys : fragO[k] # NULL => frags[fragO[k]] # NULL

\* Workers that create for one subscriber at once never bring it past its
\* cap: a session appears only while those there, the new one included, are
\* within max_sessions_per_sub (the reservation in cgnat_session_create).
CapStep ==
  \A s \in Subs :
    LiveOf(s)' \ LiveOf(s) # {} =>
      Cardinality(LiveOf(s)') <= pools[mp[s].pool].max

CapRespected == [][CapStep]_vars

\* The expire walk leaves no session behind that was past its timeout.
ReapStep == ExpireWalk => \A i \in Live' : idle[i] <= Timeout

ReapsExpired == [][ReapStep]_vars

\* A session that no packet refreshes is reaped: again and again each slot is
\* free or has just been used, or the process has ended (cgnat_expire_process).
EventuallyReaped ==
  \A i \in SessionIdx : []<>(i \notin Live \/ idle[i] = 0 \/ ~Running)

\* A port in use is not handed out again for the same remote: SUMMARY.md has
\* a block with no port left reject with PORT_EXHAUSTED.
OutsideTupleUnique ==
  \A i, j \in Live :
    /\ NeedsPort(sessions[i].proto)
    /\ O2iKey(sessions[i]) = O2iKey(sessions[j])
    => i = j
=============================================================================
