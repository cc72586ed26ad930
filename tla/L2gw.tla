-------------------------------- MODULE L2gw --------------------------------
(***************************************************************************)
(* The layer 2 gateway (plugins/osvbng_l2gw): circuits as pairs of entries *)
(* found by interface and tags, ports armed with the input feature, and    *)
(* the trigger that punts a frame of an unknown line, at most once per     *)
(* dampening interval.  Handlers run under the worker barrier; the         *)
(* dampener is searched and written by the workers without a lock.         *)
(* Tag rewriting and the DHCP test of a frame are data.                    *)
(***************************************************************************)
EXTENDS Interfaces

CONSTANTS
  Tags,       \* <<svlan, cvlan>>, cvlan AnyCvlan for a wildcard
  MaxEntries, \* bound: elements of the entry pool
  MaxConfig,  \* bound: circuits, ports and triggers configured at a time
  Workers,    \* worker threads
  Interval    \* trigger_dampen_interval in ticks

ASSUME L2gwAssumption ==
  /\ Tags \subseteq Nat \X Nat
  /\ MaxEntries \in Nat /\ MaxConfig \in Nat /\ Interval \in Nat \ {0}
  /\ IsFiniteSet(Workers)

EntryIds == 1..MaxEntries
AnyCvlan == 65535                    \* L2GW_CVLAN_ANY
Keys == Ifaces \X Tags
NoKey == <<>>
Svlan(k) == k[2][1]
Cvlan(k) == k[2][2]
Wild(k) == Cvlan(k) = AnyCvlan
Svlans == {t[1] : t \in Tags} \ {0}
NoEntry == [rx |-> NoKey, tx |-> NoKey, on |-> FALSE, access |-> FALSE,
            peer |-> 0, circuit |-> 0]
\* The tags a frame can carry.
FrameKeys == {k \in Keys : ~Wild(k)}

VARIABLES
  entries,    \* the entry pool
  circuits,   \* circuit_table: entry index of a key, 0 when there is none
  l2gwOn,     \* enabled_by_sw_if_index
  trigger,    \* trigger_svlans
  triggerAny, \* trigger_any_svlans
  lastPunt,   \* trigger_dampener: age of the last punt, Interval when older
  checking,   \* the frame each worker is about to write the dampener for
  punts       \* punts of a tuple by age, younger than the interval

l2gwVars == <<entries, circuits, l2gwOn, trigger, triggerAny, lastPunt,
              checking, punts>>
tables == <<entries, circuits, l2gwOn, trigger, triggerAny>>

L2gwInit ==
  /\ entries = [e \in EntryIds |-> NoEntry]
  /\ circuits = [k \in Keys |-> 0]
  /\ l2gwOn = {}
  /\ trigger = [i \in Ifaces |-> {}]
  /\ triggerAny = [i \in Ifaces |-> {}]
  /\ lastPunt = [k \in FrameKeys |-> Interval]
  /\ checking = [w \in Workers |-> NoKey]
  /\ punts = [k \in FrameKeys |-> [a \in 0..(Interval - 1) |-> 0]]

Barrier == \A w \in Workers : checking[w] = NoKey

Room == Cardinality(l2gwOn)
        + Cardinality({e \in EntryIds : entries[e].access})
        + Cardinality({t \in Ifaces \X Svlans : t[2] \in trigger[t[1]]})
        + Cardinality({t \in Ifaces \X Svlans : t[2] \in triggerAny[t[1]]})
        < MaxConfig
-----------------------------------------------------------------------------
\* pool_get, with the elements of taken just given out: the lowest that is
\* free (which one it is makes no difference here).
PoolGet(i, taken) ==
  LET free == {e \in EntryIds \ taken : entries[e] = NoEntry}
  IN i \in free /\ \A e \in free : i <= e

\* l2gw_validate_args: wildcards on both sides or none, and with an outer
\* tag; no inner tag without an outer one.
ValidCircuit(a, h) ==
  /\ a[1] \in exists /\ h[1] \in exists
  /\ Wild(a) <=> Wild(h)
  /\ \A k \in {a, h} : Svlan(k) = 0 => Cvlan(k) = 0

\* vnet_l2gw_add_del_circuit, add: two entries from the pool, the handoff
\* key written last.  A key that is taken changes nothing.
CircuitAdd(a, h, on) ==
  /\ Barrier /\ Room /\ ValidCircuit(a, h)
  /\ circuits[a] = 0 /\ circuits[h] = 0
  /\ \E i, j \in EntryIds :
       /\ PoolGet(i, {}) /\ PoolGet(j, {i})
       /\ entries' = [entries EXCEPT
            ![i] = [rx |-> a, tx |-> h, on |-> on, access |-> TRUE, peer |-> j, circuit |-> i],
            ![j] = [rx |-> h, tx |-> a, on |-> on, access |-> FALSE, peer |-> i, circuit |-> i]]
       /\ circuits' = [[circuits EXCEPT ![a] = i] EXCEPT ![h] = j]
  /\ UNCHANGED <<l2gwOn, trigger, triggerAny, lastPunt, checking, punts, ifVars>>

\* vnet_l2gw_add_del_circuit, delete: found by the access key of the message,
\* whichever side that is; the handoff of the message only has to be valid.
CircuitDel(a) ==
  /\ Barrier
  /\ \E h \in Keys : ValidCircuit(a, h)
  /\ circuits[a] # 0
  /\ LET e == circuits[a]
         p == entries[e].peer
     IN /\ circuits' = [circuits EXCEPT ![entries[e].rx] = 0, ![entries[p].rx] = 0]
        /\ entries' = [entries EXCEPT ![e] = NoEntry, ![p] = NoEntry]
  /\ UNCHANGED <<l2gwOn, trigger, triggerAny, lastPunt, checking, punts, ifVars>>

\* Mutant: one direction only.
CircuitSetState_OneWay(c, on) ==
  /\ Barrier
  /\ entries[c].access
  /\ entries' = [entries EXCEPT ![c].on = on]
  /\ UNCHANGED <<circuits, l2gwOn, trigger, triggerAny, lastPunt, checking, punts, ifVars>>

\* vnet_l2gw_circuit_set_state of one circuit: its id must be that of an
\* access side entry.
CircuitSetState(c, on) ==
  /\ Barrier
  /\ entries[c].access
  /\ entries' = [entries EXCEPT ![c].on = on, ![entries[c].peer].on = on]
  /\ UNCHANGED <<circuits, l2gwOn, trigger, triggerAny, lastPunt, checking, punts, ifVars>>

\* vnet_l2gw_circuit_set_state of all circuits
CircuitSetAll(on) ==
  /\ Barrier
  /\ entries' = [e \in EntryIds |-> IF entries[e] = NoEntry THEN NoEntry
                                    ELSE [entries[e] EXCEPT !.on = on]]
  /\ UNCHANGED <<circuits, l2gwOn, trigger, triggerAny, lastPunt, checking, punts, ifVars>>

\* vnet_l2gw_enable_disable: the feature is touched only if the bit differs.
L2gwEnableDisable(i, on) ==
  /\ Barrier
  /\ i \in exists /\ (i \in l2gwOn) # on
  /\ on => Room
  /\ feature' = IF on THEN feature \cup {i} ELSE feature \ {i}
  /\ l2gwOn' = IF on THEN l2gwOn \cup {i} ELSE l2gwOn \ {i}
  /\ UNCHANGED <<entries, circuits, trigger, triggerAny, lastPunt, checking, punts,
                 exists, sup, fibOf, outNode, macs, careful>>

\* vnet_l2gw_trigger_svlan_range
TriggerRange(i, lo, hi, any, add) ==
  LET range == {v \in Svlans : lo <= v /\ v <= hi}
      Set(t) == [t EXCEPT ![i] = IF add THEN @ \cup range ELSE @ \ range]
  IN /\ Barrier
     /\ i \in exists /\ lo <= hi
     /\ add => Room
     /\ trigger' = IF any THEN trigger ELSE Set(trigger)
     /\ triggerAny' = IF any THEN Set(triggerAny) ELSE triggerAny
     /\ UNCHANGED <<entries, circuits, l2gwOn, lastPunt, checking, punts, ifVars>>

\* Mutant: the bit outlives the interface.
L2gwInterfaceDel_KeepsBit(i) ==
  /\ Barrier
  /\ trigger' = [trigger EXCEPT ![i] = {}]
  /\ UNCHANGED <<entries, circuits, l2gwOn, triggerAny, lastPunt, checking, punts>>

\* l2gw_sw_interface_add_del
L2gwInterfaceDel(i) ==
  /\ Barrier
  /\ trigger' = [trigger EXCEPT ![i] = {}]
  /\ l2gwOn' = l2gwOn \ {i}
  /\ UNCHANGED <<entries, circuits, triggerAny, lastPunt, checking, punts>>
-----------------------------------------------------------------------------
\* l2gw_lookup_1, exact and then wildcard: the entry of a frame, 0 if none.
Lookup(k) ==
  LET w == <<k[1], <<Svlan(k), AnyCvlan>>>>
  IN IF circuits[k] # 0 THEN circuits[k]
     ELSE IF Svlan(k) # 0 /\ w \in Keys THEN circuits[w] ELSE 0

\* l2gw_input_node: a frame with no circuit, or a disabled one, goes on.
Unmatched(k) == Lookup(k) # 0 => ~entries[Lookup(k)].on

\* l2gw_trigger_dampen_allow: the search.  A tuple that was punted less than
\* an interval ago is not punted (no step).
DampenSearch(w, k) ==
  /\ checking[w] = NoKey
  /\ k[1] \in feature
  /\ Unmatched(k)
  /\ Svlan(k) \in triggerAny[k[1]]
  /\ lastPunt[k] >= Interval
  /\ checking' = [checking EXCEPT ![w] = k]
  /\ UNCHANGED <<tables, lastPunt, punts, ifVars>>

\* Mutant: the first punt of a tuple is not remembered.
DampenStore_NotStored(w) ==
  LET k == checking[w] IN
  /\ k # NoKey
  /\ punts[k][0] <= Cardinality(Workers)
  /\ punts' = [punts EXCEPT ![k][0] = @ + 1]
  /\ checking' = [checking EXCEPT ![w] = NoKey]
  /\ UNCHANGED <<tables, lastPunt, ifVars>>

\* l2gw_trigger_dampen_allow: the write, and the punt.
DampenStore(w) ==
  LET k == checking[w] IN
  /\ k # NoKey
  /\ lastPunt' = [lastPunt EXCEPT ![k] = 0]
  /\ punts' = [punts EXCEPT ![k][0] = @ + 1]
  /\ checking' = [checking EXCEPT ![w] = NoKey]
  /\ UNCHANGED <<tables, ifVars>>

\* Bound: a worker writes within the tick of its search.
L2gwTick ==
  /\ Barrier
  /\ lastPunt' = [k \in FrameKeys |-> IF lastPunt[k] < Interval
                                      THEN lastPunt[k] + 1 ELSE Interval]
  /\ punts' = [k \in FrameKeys |-> [a \in 0..(Interval - 1) |->
                                     IF a = 0 THEN 0 ELSE punts[k][a - 1]]]
  /\ UNCHANGED <<tables, checking, ifVars>>

L2gwNext ==
  \/ \E a \in Keys : \/ CircuitDel(a)
                     \/ \E h \in Keys, on \in BOOLEAN : CircuitAdd(a, h, on)
  \/ \E on \in BOOLEAN : \/ CircuitSetAll(on)
                         \/ \E c \in EntryIds : CircuitSetState(c, on)
                         \/ \E i \in Ifaces : L2gwEnableDisable(i, on)
  \/ \E i \in Ifaces, lo, hi \in Svlans, any, add \in BOOLEAN :
       TriggerRange(i, lo, hi, any, add)
  \/ \E w \in Workers : \/ \E k \in FrameKeys : DampenSearch(w, k)
                        \/ DampenStore(w)
  \/ L2gwTick

\* A careful client leaves nothing of the gateway on an interface it deletes.
L2gwUnused(i) ==
  /\ i \notin l2gwOn /\ trigger[i] = {} /\ triggerAny[i] = {}
  /\ \A e \in EntryIds : entries[e] # NoEntry => entries[e].rx[1] # i
-----------------------------------------------------------------------------
L2gwTypeOK ==
  /\ \A e \in EntryIds : entries[e].rx \in Keys \cup {NoKey} /\ entries[e].peer \in EntryIds \cup {0}
  /\ circuits \in [Keys -> EntryIds \cup {0}]
  /\ l2gwOn \subseteq Ifaces
  /\ trigger \in [Ifaces -> SUBSET Svlans] /\ triggerAny \in [Ifaces -> SUBSET Svlans]
  /\ lastPunt \in [FrameKeys -> 0..Interval]
  /\ checking \in [Workers -> FrameKeys \cup {NoKey}]

\* A circuit is whole in both directions: the table leads to an entry of that
\* key, the peer leads back, and what one side sends carries the key under
\* which the answer is found, enabled or disabled together.  (A circuit from
\* a key to itself is one table entry.)  For any client, also when ids and
\* keys are reused after deletions by either side's key.
CircuitsWhole ==
  /\ L2gwTypeOK
  /\ \A k \in Keys : circuits[k] # 0 => entries[circuits[k]].rx = k
  /\ \A e \in EntryIds : entries[e] # NoEntry =>
       LET p == entries[entries[e].peer] IN
       /\ p.peer = e /\ p.rx = entries[e].tx /\ p.on = entries[e].on
       /\ p.access # entries[e].access /\ p.circuit = entries[e].circuit
       /\ entries[circuits[entries[e].rx]] \in {entries[e], p}
       /\ p.rx # entries[e].rx => circuits[entries[e].rx] = e
  /\ careful => \A e \in EntryIds : entries[e] # NoEntry => entries[e].tx[1] \in exists

\* "a recreated interface with a recycled index would inherit the stale
\* enabled bit (turning the next enable into a silent no-op with the feature
\* actually absent)" (osvbng_l2gw.c): the bit and the feature agree, and an
\* index without an interface has no DHCP trigger.
PortStateFresh ==
  /\ l2gwOn = feature
  /\ \A i \in Ifaces \ exists : trigger[i] = {}

\* The dampener bounds the punts of a line: in any interval they come within
\* one tick, and at most one per worker, those that searched before the first
\* of them wrote.
DampenerBounds ==
  \A k \in FrameKeys : \A a, b \in 0..(Interval - 1) :
    /\ punts[k][a] <= Cardinality(Workers)
    /\ punts[k][a] # 0 /\ punts[k][b] # 0 => a = b
=============================================================================
