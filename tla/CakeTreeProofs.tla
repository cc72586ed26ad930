--------------------------- MODULE CakeTreeProofs ---------------------------
(***************************************************************************)
(* The aggregate tree keeps its shape, for any number of aggregates, ports *)
(* and schedulers: no reference to a slot that was put, and no scheduler   *)
(* on a tier other than the one its interface leads to.  What each tier    *)
(* has charged is what the schedulers beneath it hold, and no admission    *)
(* takes a tier over its limit.  The children a tier counts as active, and *)
(* the weight it has for them, are those of the ones that are.             *)
(***************************************************************************)
EXTENDS CakeTree, FiniteSums

-----------------------------------------------------------------------------
(* The inductive invariant.                                                 *)

TierFields == {"parent", "first", "last", "rate", "weight", "eweight", "limit",
               "map", "activeWeight", "nActive", "usage"}

\* A record of a tier, whatever its counters are.
Tier(r) ==
  /\ r = [f \in TierFields |-> r[f]]
  /\ r.parent \in Agg \cup {None} /\ r.rate \in Nat
  /\ r.map \in [Tag -> Agg \cup {None}]

\* The tables, and the schedulers.
Tables ==
  /\ live \subseteq Agg
  /\ agg = [a \in Agg |-> agg[a]] /\ \A a \in Agg : Tier(agg[a])
  /\ aggOf \in [Port -> Agg \cup {None}]
Scheds == sched \in [Sched -> [on : BOOLEAN, attach : Agg \cup {None}, eweight : Nat,
                               active : BOOLEAN, queue : [Lens -> Nat]]]

\* The control operation; the S-VLANs left to delete are named by a tag.
Controls ==
  ctl \in [todo : SUBSET Sched, gone : Agg \cup {None}, cascade : Port \cup {None},
           tags : SUBSET Tag]

Shapes == Tables /\ Scheds /\ Controls

\* A job past its first step is at a tier, of a scheduler that hangs on one,
\* and none is under way while the tree is being put together again.
Jobs ==
  /\ job = [s \in Sched |-> job[s]]
  /\ \A s \in Sched : job[s].at \in Agg \cup {None}
  /\ \A s \in Sched : job[s].pc \notin {"idle", "admitted"} =>
       job[s].at \in Agg /\ sched[s].attach \in Agg
  /\ ctl.todo # {} \/ ctl.gone # None => \A s \in Sched : job[s] = Idle

\* The tiers that stay.
Kept == live \ {ctl.gone}

\* Interfaces lead to ports, each to its own; every port is led to.
Ports ==
  /\ \A p \in Port : aggOf[p] # None =>
       aggOf[p] \in Kept /\ agg[aggOf[p]].parent = None
  /\ \A p, q \in Port : aggOf[p] = aggOf[q] /\ aggOf[p] # None => p = q
  /\ \A a \in Kept : agg[a].parent = None => \E p \in Port : aggOf[p] = a

\* An S-VLAN hangs on a port, which names it for its tags and is as fast.
Svlan(a) ==
  /\ agg[a].parent \in Kept /\ agg[agg[a].parent].parent = None
  /\ agg[a].rate <= agg[agg[a].parent].rate
  /\ agg[a].first \in Tag
  /\ {t \in Tag : agg[agg[a].parent].map[t] = a} =
       Tag \cap (agg[a].first..agg[a].last)

Svlans ==
  /\ \A a \in Kept : agg[a].parent # None => Svlan(a)
  /\ \A a \in live : \A t \in Tag : agg[a].map[t] # None =>
       agg[a].map[t] \in Kept /\ agg[agg[a].map[t]].parent = a

\* The slot to be put is off the tree.
Goner ==
  ctl.gone # None =>
    /\ ctl.gone \in live
    /\ \A a \in live : agg[a].parent # ctl.gone
    /\ agg[ctl.gone].parent # None =>
         agg[ctl.gone].parent \in Kept /\ agg[agg[ctl.gone].parent].parent = None

\* Schedulers hang on tiers that are there, and off the walk where a fresh
\* look hangs them.
Attached ==
  /\ \A s \in Sched : ~sched[s].on => sched[s].attach = None
  /\ \A s \in ctl.todo : sched[s].on
  /\ \A s \in Sched : sched[s].attach # None => sched[s].attach \in live
  /\ \A s \in Sched : sched[s].on /\ s \notin ctl.todo =>
       sched[s].attach = Resolve(s, aggOf, agg)

TreeInv == Shapes /\ Jobs /\ Ports /\ Svlans /\ Goner /\ Attached
-----------------------------------------------------------------------------
(* Where a fresh look leads.                                                *)

LEMMA MinIn ==
  ASSUME NEW S \in SUBSET Nat, S # {}
  PROVE  Min(S) \in S
BY LeastOf DEF Min

LEMMA MaxIn ==
  ASSUME NEW n \in Nat, NEW S \in SUBSET (0..n), S # {}
  PROVE  Max(S) \in S
<1> DEFINE T == {d \in Nat : n - d \in S}
<1>1. PICK z \in S : TRUE
  OBVIOUS
<1>2. n - z \in T
  <2>1. z \in 0..n
    OBVIOUS
  <2> QED BY <2>1
<1>3. PICK d \in T : \A e \in T : d <= e
  <2> HIDE DEF T
  <2>1. T \in SUBSET Nat /\ T # {}
    BY <1>2 DEF T
  <2> QED BY <2>1, LeastOf
<1>4. ASSUME NEW y \in S PROVE n - d >= y
  <2>1. y \in 0..n /\ d \in Nat
    OBVIOUS
  <2>2. n - y \in Nat /\ n - (n - y) = y
    BY <2>1
  <2>3. d <= n - y
    BY <1>3, <2>2
  <2> QED BY <2>1, <2>3
<1>5. \E x \in S : \A y \in S : x >= y
  BY <1>3, <1>4
<1> QED BY <1>5 DEF Max

\* Resolve looks at one port, and there at its own slot or at one tag.
ByPort(s, of, p) == \A g : Resolve(s, of, g) = of[p]
ByTag(s, of, p, t) ==
  \A g : Resolve(s, of, g) =
           IF g[of[p]].map[t] = None THEN of[p] ELSE g[of[p]].map[t]
ByNone(s, of) == \A g : Resolve(s, of, g) = None

LEMMA ResolveLooks ==
  ASSUME NEW s \in Sched, NEW of
  PROVE  \/ ByNone(s, of)
         \/ \E p \in Port : of[p] # None
              /\ (ByPort(s, of, p) \/ \E t \in Tag : ByTag(s, of, p, t))
<1> DEFINE C == Chain[s]
           hops == {i \in 2..Len(C) : C[i].sw \in Port /\ of[C[i].sw] # None}
           at == Min(hops)
           tags == {i \in 1..(at - 1) : C[i].tag # None}
<1>1. /\ Len(C) \in Nat /\ DOMAIN C = 1..Len(C)
      /\ \A i \in DOMAIN C : C[i].tag \in Tag \cup {None}
  BY TreeAssumption
<1>2. CASE hops = {}
  BY <1>2 DEF Resolve, ByNone
<1>3. CASE hops # {}
  <2>1. hops \in SUBSET Nat
    BY <1>1
  <2>2. at \in hops
    BY <1>3, <2>1, MinIn
  <2> DEFINE p == C[at].sw
  <2>3. p \in Port /\ of[p] # None /\ at \in 2..Len(C)
    BY <2>2
  <2>4. CASE tags = {}
    <3>1. ByPort(s, of, p)
      BY <1>3, <2>4 DEF Resolve, ByPort
    <3> HIDE DEF p
    <3> QED BY <2>3, <3>1
  <2>5. CASE tags # {}
    <3>1. at - 1 \in Nat /\ tags \in SUBSET (0..(at - 1))
      <4> HIDE DEF at, hops
      <4> QED BY <1>1, <2>3
    <3>2. Max(tags) \in tags
      <4> HIDE DEF tags, at, hops
      <4> QED BY <2>5, <3>1, MaxIn
    <3> DEFINE t == C[Max(tags)].tag
    <3>3. t \in Tag
      <4>1. PICK m : m = Max(tags)
        OBVIOUS
      <4>2. m \in 1..(at - 1) /\ C[m].tag # None
        BY <3>2, <4>1
      <4> HIDE DEF at, hops
      <4>3. m \in DOMAIN C
        BY <1>1, <2>3, <4>2
      <4>4. C[m].tag \in Tag
        BY <1>1, <4>2, <4>3
      <4> QED BY <4>1, <4>4
    <3>4. ByTag(s, of, p, t)
      BY <1>3, <2>5 DEF Resolve, ByTag
    <3> HIDE DEF p, t
    <3> QED BY <2>3, <3>3, <3>4
  <2> QED BY <2>4, <2>5
<1> QED BY <1>2, <1>3

LEMMA ResolveKept ==
  ASSUME Tables, Ports, Svlans, NEW s \in Sched
  PROVE  Resolve(s, aggOf, agg) \in Kept \cup {None}
<1>1. \A p \in Port : aggOf[p] # None => aggOf[p] \in Kept
  BY DEF Ports
<1>2. \A p \in Port, t \in Tag : aggOf[p] # None /\ agg[aggOf[p]].map[t] # None =>
        agg[aggOf[p]].map[t] \in Kept
  BY <1>1 DEF Svlans, Kept
<1>3. PICK x : x = Resolve(s, aggOf, agg)
  OBVIOUS
<1>4. CASE ByNone(s, aggOf)
  BY <1>4 DEF ByNone
<1>5. ASSUME NEW p \in Port, aggOf[p] # None, ByPort(s, aggOf, p)
      PROVE  x \in Kept \cup {None}
  <2>1. x = aggOf[p]
    BY <1>3, <1>5 DEF ByPort
  <2> QED BY <1>1, <1>5, <2>1
<1>6. ASSUME NEW p \in Port, aggOf[p] # None, NEW t \in Tag, ByTag(s, aggOf, p, t)
      PROVE  x \in Kept \cup {None}
  <2>1. x = IF agg[aggOf[p]].map[t] = None THEN aggOf[p] ELSE agg[aggOf[p]].map[t]
    BY <1>3, <1>6 DEF ByTag
  <2> QED BY <1>1, <1>2, <1>6, <2>1
<1> QED BY <1>3, <1>4, <1>5, <1>6, ResolveLooks, Zenon

-----------------------------------------------------------------------------
(* Steps that move only counters leave the tree as it is.                   *)

\* The same tier, but for its counters and weights.
Same(r, q) ==
  /\ q.parent = r.parent /\ q.first = r.first /\ q.last = r.last
  /\ q.rate = r.rate /\ q.map = r.map

Tiers(g) == g = [a \in Agg |-> g[a]] /\ \A a \in Agg : Tier(g[a])
SameTree(g, h) == Tiers(h) /\ \A a \in Agg : Same(g[a], h[a])

LEMMA TierTouched ==
  ASSUME NEW r, Tier(r), NEW v, NEW w, NEW q,
         \/ q = [r EXCEPT !.usage = v]
         \/ q = [r EXCEPT !.activeWeight = v]
         \/ q = [r EXCEPT !.nActive = v]
         \/ q = [r EXCEPT !.activeWeight = v, !.nActive = w]
  PROVE  Tier(q) /\ Same(r, q)
<1>1. CASE q = [r EXCEPT !.usage = v]
  BY <1>1 DEF Tier, Same, TierFields
<1>2. CASE q = [r EXCEPT !.activeWeight = v]
  BY <1>2 DEF Tier, Same, TierFields
<1>3. CASE q = [r EXCEPT !.nActive = v]
  BY <1>3 DEF Tier, Same, TierFields
<1>4. CASE q = [r EXCEPT !.activeWeight = v, !.nActive = w]
  BY <1>4 DEF Tier, Same, TierFields
<1> QED BY <1>1, <1>2, <1>3, <1>4

LEMMA SameTreeOne ==
  ASSUME NEW g, Tiers(g), NEW a \in Agg, NEW q, Tier(q), Same(g[a], q)
  PROVE  SameTree(g, [g EXCEPT ![a] = q])
<1>1. \A b \in Agg : Same(g[b], g[b])
  BY DEF Same
<1> QED BY <1>1, Zenon DEF SameTree, Tiers

LEMMA SameTreeTwice ==
  ASSUME NEW f, NEW g, NEW h, SameTree(f, g), SameTree(g, h)
  PROVE  SameTree(f, h)
BY DEF SameTree, Same

LEMMA SameTreeNone ==
  ASSUME NEW g, Tiers(g)
  PROVE  SameTree(g, g)
BY DEF SameTree, Same

LEMMA Touched ==
  ASSUME NEW g, Tiers(g), NEW a \in Agg, NEW v, NEW w
  PROVE  /\ SameTree(g, [g EXCEPT ![a].usage = v])
         /\ SameTree(g, [g EXCEPT ![a].activeWeight = v])
         /\ SameTree(g, [g EXCEPT ![a].nActive = v])
         /\ SameTree(g, [g EXCEPT ![a].activeWeight = v, ![a].nActive = w])
<1>1. Tier(g[a])
  BY DEF Tiers
<1>2. PICK q1, q2, q3, q4 :
        /\ q1 = [g[a] EXCEPT !.usage = v]
        /\ q2 = [g[a] EXCEPT !.activeWeight = v]
        /\ q3 = [g[a] EXCEPT !.nActive = v]
        /\ q4 = [g[a] EXCEPT !.activeWeight = v, !.nActive = w]
  OBVIOUS
<1>3. /\ Tier(q1) /\ Same(g[a], q1)
      /\ Tier(q2) /\ Same(g[a], q2)
      /\ Tier(q3) /\ Same(g[a], q3)
      /\ Tier(q4) /\ Same(g[a], q4)
  <2>1. Tier(q1) /\ Same(g[a], q1)
    BY <1>1, <1>2, TierTouched, Zenon
  <2>2. Tier(q2) /\ Same(g[a], q2)
    BY <1>1, <1>2, TierTouched, Zenon
  <2>3. Tier(q3) /\ Same(g[a], q3)
    BY <1>1, <1>2, TierTouched, Zenon
  <2>4. Tier(q4) /\ Same(g[a], q4)
    BY <1>1, <1>2, TierTouched, Zenon
  <2> QED BY <2>1, <2>2, <2>3, <2>4
<1>4. /\ SameTree(g, [g EXCEPT ![a] = q1])
      /\ SameTree(g, [g EXCEPT ![a] = q2])
      /\ SameTree(g, [g EXCEPT ![a] = q3])
      /\ SameTree(g, [g EXCEPT ![a] = q4])
  BY <1>3, SameTreeOne
<1> QED BY <1>2, <1>4

LEMMA MovedSame ==
  ASSUME NEW g, Tiers(g), NEW a \in Agg, NEW w, NEW n
  PROVE  SameTree(g, Moved(g, a, w, n))
BY Touched DEF Moved

LEMMA WeightAddSame ==
  ASSUME NEW g, Tiers(g), NEW a \in Agg \cup {None}, NEW w
  PROVE  SameTree(g, WeightAdd(g, a, w))
<1>1. CASE a = None
  BY <1>1, SameTreeNone DEF WeightAdd
<1>2. CASE a # None
  <2>1. PICK p : p = g[a].parent
    OBVIOUS
  <2>2. a \in Agg /\ p \in Agg \cup {None}
    BY <1>2, <2>1 DEF Tiers, Tier
  <2>3. PICK h : h = Moved(g, a, w, 1)
    OBVIOUS
  <2>4. SameTree(g, h) /\ Tiers(h)
    BY <2>2, <2>3, MovedSame DEF SameTree
  <2>5. p # None => SameTree(h, Moved(h, p, g[a].eweight, 1))
    BY <2>2, <2>4, MovedSame
  <2>6. WeightAdd(g, a, w) = IF g[a].nActive = 0 /\ p # None
                          THEN Moved(h, p, g[a].eweight, 1) ELSE h
    BY <1>2, <2>1, <2>3, Zenon DEF WeightAdd
  <2> QED BY <2>4, <2>5, <2>6, SameTreeTwice
<1> QED BY <1>1, <1>2

LEMMA WeightSubSame ==
  ASSUME NEW g, Tiers(g), NEW a \in Agg \cup {None}, NEW w
  PROVE  SameTree(g, WeightSub(g, a, w))
<1>1. CASE a = None
  BY <1>1, SameTreeNone DEF WeightSub
<1>2. CASE a # None
  <2>1. PICK p : p = g[a].parent
    OBVIOUS
  <2>2. a \in Agg /\ p \in Agg \cup {None}
    BY <1>2, <2>1 DEF Tiers, Tier
  <2>3. PICK h : h = Moved(g, a, w, -1)
    OBVIOUS
  <2>4. SameTree(g, h) /\ Tiers(h)
    BY <2>2, <2>3, MovedSame DEF SameTree
  <2>5. p # None => SameTree(h, Moved(h, p, g[a].eweight, -1))
    BY <2>2, <2>4, MovedSame
  <2>6. WeightSub(g, a, w) = IF g[a].nActive = 1 /\ p # None
                          THEN Moved(h, p, g[a].eweight, -1) ELSE h
    BY <1>2, <2>1, <2>3, Zenon DEF WeightSub
  <2> QED BY <2>4, <2>5, <2>6, SameTreeTwice
<1> QED BY <1>1, <1>2

LEMMA RechargeSame ==
  ASSUME NEW g, Tiers(g), NEW s, NEW old, NEW new
  PROVE  SameTree(g, Recharge(g, s, old, new))
<1>1. PICK h : h = Recharge(g, s, old, new)
  OBVIOUS
<1>2. h = [a \in Agg |-> h[a]]
  BY <1>1 DEF Recharge
<1>3. ASSUME NEW a \in Agg PROVE Tier(h[a]) /\ Same(g[a], h[a])
  <2> DEFINE v == g[a].usage
                   + (IF a \in ChainOf(new) \ ChainOf(old) THEN Queued(s) ELSE 0)
                   - (IF a \in ChainOf(old) \ ChainOf(new) THEN Queued(s) ELSE 0)
  <2>1. h[a] = [g[a] EXCEPT !.usage = v]
    BY <1>1 DEF Recharge
  <2> HIDE DEF v
  <2>2. Tier(g[a])
    BY DEF Tiers
  <2> QED BY <2>1, <2>2, TierTouched, Zenon
<1> QED BY <1>1, <1>2, <1>3 DEF SameTree, Tiers

LEMMA ResolveSame ==
  ASSUME NEW h, NEW s \in Sched,
         \A p \in Port : aggOf[p] # None => h[aggOf[p]].map = agg[aggOf[p]].map
  PROVE  Resolve(s, aggOf, h) = Resolve(s, aggOf, agg)
<1>1. \A p \in Port : aggOf[p] # None => h[aggOf[p]].map = agg[aggOf[p]].map
  OBVIOUS
<1>2. CASE ByNone(s, aggOf)
  BY <1>2 DEF ByNone
<1>3. ASSUME NEW p \in Port, ByPort(s, aggOf, p)
      PROVE  Resolve(s, aggOf, h) = Resolve(s, aggOf, agg)
  BY <1>3, Zenon DEF ByPort
<1>4. ASSUME NEW p \in Port, aggOf[p] # None, NEW t \in Tag, ByTag(s, aggOf, p, t)
      PROVE  Resolve(s, aggOf, h) = Resolve(s, aggOf, agg)
  BY <1>1, <1>4, Zenon DEF ByTag
<1> QED BY <1>2, <1>3, <1>4, ResolveLooks, Zenon

\* The same links; and none faster than what it hangs on.
Linked(r, q) ==
  q.parent = r.parent /\ q.first = r.first /\ q.last = r.last /\ q.map = r.map
SameLinks(g, h) == Tiers(h) /\ \A a \in Agg : Linked(g[a], h[a])
Rated(h) == \A a \in Kept : agg[a].parent # None => h[a].rate <= h[agg[a].parent].rate

LEMMA SameIsLinked ==
  ASSUME Tables, Svlans, NEW h, SameTree(agg, h)
  PROVE  SameLinks(agg, h) /\ Rated(h)
<1>1. SameLinks(agg, h)
  BY DEF SameTree, SameLinks, Same, Linked
<1>2. ASSUME NEW a \in Kept, agg[a].parent # None
      PROVE  h[a].rate <= h[agg[a].parent].rate
  <2>1. Svlan(a) /\ a \in Agg /\ agg[a].parent \in Agg
    BY <1>2 DEF Svlans, Svlan, Tables, Kept
  <2>2. h[a].rate = agg[a].rate /\ h[agg[a].parent].rate = agg[agg[a].parent].rate
    BY <2>1 DEF SameTree, Same
  <2> QED BY <2>1, <2>2 DEF Svlan
<1> QED BY <1>1, <1>2 DEF Rated

LEMMA ResolveStill ==
  ASSUME Tables, Ports, NEW h, SameLinks(agg, h), NEW s \in Sched
  PROVE  Resolve(s, aggOf, h) = Resolve(s, aggOf, agg)
<1>1. \A p \in Port : aggOf[p] # None => h[aggOf[p]].map = agg[aggOf[p]].map
  BY DEF Ports, Kept, Tables, SameLinks, Linked
<1> QED BY <1>1, ResolveSame

LEMMA TreeKept ==
  ASSUME Tables, Ports, Svlans, Goner, SameLinks(agg, agg'), Rated(agg'),
         live' = live, aggOf' = aggOf, ctl'.gone = ctl.gone
  PROVE  Tables' /\ Ports' /\ Svlans' /\ Goner'
<1>1. \A a \in Agg : Linked(agg[a], agg'[a])
  BY DEF SameLinks
<1>2. live \subseteq Agg /\ Kept' = Kept /\ Kept \subseteq Agg
  BY DEF Tables, Kept
<1>3. Tables'
  BY DEF Tables, SameLinks, Tiers
<1>4. \A a \in Agg : agg'[a].parent = agg[a].parent
  BY <1>1 DEF Linked
<1>5. Ports'
  BY <1>2, <1>4 DEF Ports
<1>6. Svlans'
  <2>1. ASSUME NEW a \in Kept, agg'[a].parent # None PROVE Svlan(a)'
    <3>1. Svlan(a) /\ a \in Agg /\ agg[a].parent \in Agg
      BY <1>2, <1>4, <2>1 DEF Svlans, Svlan
    <3>2. PICK p : p = agg[a].parent /\ p = agg'[a].parent /\ p \in Agg
      BY <1>4, <3>1
    <3>3. Linked(agg[a], agg'[a]) /\ Linked(agg[p], agg'[p])
      BY <1>1, <3>1, <3>2
    <3>4. agg'[a].rate <= agg'[p].rate
      BY <1>4, <2>1, <3>1, <3>2 DEF Rated
    <3> QED BY <1>2, <3>1, <3>2, <3>3, <3>4 DEF Svlan, Linked
  <2>2. ASSUME NEW a \in live, NEW t \in Tag, agg'[a].map[t] # None
        PROVE  agg'[a].map[t] \in Kept /\ agg'[agg'[a].map[t]].parent = a
    <3>1. agg'[a].map = agg[a].map
      BY <1>1, <1>2 DEF Linked
    <3>2. agg[a].map[t] \in Kept /\ agg[agg[a].map[t]].parent = a
      BY <2>2, <3>1 DEF Svlans
    <3> QED BY <1>2, <1>4, <3>1, <3>2
  <2> QED BY <1>2, <2>1, <2>2 DEF Svlans
<1>7. Goner'
  <2>1. ctl.gone # None => ctl.gone \in Agg /\ agg[ctl.gone].parent \in Agg \cup {None}
    BY <1>2 DEF Goner, Tables, Tier
  <2> QED BY <1>2, <1>4, <2>1 DEF Goner
<1> QED BY <1>3, <1>5, <1>6, <1>7

\* What a step of an owner thread, and one of the counters' moves, leaves alone.
Still ==
  /\ live' = live /\ aggOf' = aggOf /\ ctl' = ctl
  /\ SameTree(agg, agg')
  /\ \A s \in Sched : sched'[s].on = sched[s].on /\ sched'[s].attach = sched[s].attach

LEMMA StillKeeps ==
  ASSUME TreeInv, Still, Scheds', Jobs'
  PROVE  TreeInv'
<1>1. Tables' /\ Ports' /\ Svlans' /\ Goner'
  BY TreeKept, SameIsLinked DEF TreeInv, Shapes, Still
<1>2. Controls'
  BY DEF TreeInv, Shapes, Still, Controls
<1>3. \A s \in Sched : Resolve(s, aggOf', agg') = Resolve(s, aggOf, agg)
  BY ResolveStill, SameIsLinked DEF TreeInv, Shapes, Still
<1>4. Attached'
  <2>1. ctl'.todo \subseteq Sched
    BY <1>2 DEF Controls
  <2>2. ASSUME NEW s \in Sched
        PROVE  /\ ~sched'[s].on => sched'[s].attach = None
               /\ s \in ctl'.todo => sched'[s].on
               /\ sched'[s].attach # None => sched'[s].attach \in live'
               /\ sched'[s].on /\ s \notin ctl'.todo =>
                    sched'[s].attach = Resolve(s, aggOf', agg')
    BY <1>3 DEF TreeInv, Attached, Still
  <2> QED BY <2>1, <2>2 DEF Attached
<1> QED BY <1>1, <1>2, <1>4 DEF TreeInv, Shapes

-----------------------------------------------------------------------------
(* The owner threads.                                                       *)

\* What Jobs asks of the job of s.
JobOK(s, j) ==
  /\ j.at \in Agg \cup {None}
  /\ j.pc \notin {"idle", "admitted"} => j.at \in Agg /\ sched[s].attach \in Agg

LEMMA JobMade ==
  ASSUME NEW s
  PROVE  /\ JobOK(s, Idle)
         /\ \A amt : \A at \in Agg \cup {None} : JobOK(s, Job("admitted", at, amt))
         /\ sched[s].attach \in Agg =>
              \A pc, amt : \A at \in Agg : JobOK(s, Job(pc, at, amt))
BY DEF JobOK, Idle, Job

\* A step of s: its job moves on, and neither the tree nor an attachment does.
Stepped(s, j) ==
  /\ job[s] = Idle => ctl.todo = {} /\ ctl.gone = None
  /\ JobOK(s, j) /\ job' = [job EXCEPT ![s] = j]
  /\ Scheds' /\ Still

LEMMA SteppedKeeps ==
  ASSUME TreeInv, NEW s \in Sched, NEW j, Stepped(s, j)
  PROVE  TreeInv'
<1>1. Jobs /\ Still /\ Scheds'
  BY DEF TreeInv, Stepped
<1>2. ctl.todo = {} /\ ctl.gone = None
  <2>1. job[s] # Idle => ctl.todo = {} /\ ctl.gone = None
    BY <1>1, Zenon DEF Jobs
  <2> QED BY <2>1 DEF Stepped
<1>3. job' = [r \in Sched |-> job'[r]]
  BY <1>1 DEF Jobs, Stepped
<1>4. ASSUME NEW r \in Sched
      PROVE  /\ job'[r].at \in Agg \cup {None}
             /\ job'[r].pc \notin {"idle", "admitted"} =>
                  job'[r].at \in Agg /\ sched'[r].attach \in Agg
  <2>1. sched'[r].attach = sched[r].attach
    BY <1>1 DEF Still
  <2>2. CASE r = s
    <3>1. job'[r] = j
      BY <1>1, <2>2 DEF Jobs, Stepped
    <3> QED BY <2>1, <2>2, <3>1 DEF Stepped, JobOK
  <2>3. CASE r # s
    <3>1. job'[r] = job[r]
      BY <1>1, <2>3 DEF Jobs, Stepped
    <3> QED BY <1>1, <2>1, <3>1 DEF Jobs
  <2> QED BY <2>2, <2>3
<1>5. Jobs'
  <2>1. ctl' = ctl
    BY <1>1 DEF Still
  <2> QED BY <1>2, <1>3, <1>4, <2>1 DEF Jobs
<1> QED BY <1>1, <1>5, StillKeeps

\* What the steps read of the invariant.
LEMMA StepFacts ==
  ASSUME TreeInv, NEW s \in Sched
  PROVE  /\ sched[s].attach \in Agg \cup {None}
         /\ sched[s].queue \in [Lens -> Nat]
         /\ job[s].pc \notin {"idle", "admitted"} =>
              job[s].at \in Agg /\ sched[s].attach \in Agg
         /\ \A a \in Agg : agg[a].parent \in Agg \cup {None}
         /\ Tiers(agg)
         /\ None \notin Agg
<1>1. Tiers(agg)
  BY DEF TreeInv, Shapes, Tables, Tiers
<1>2. \A a \in Agg : agg[a].parent \in Agg \cup {None}
  BY <1>1 DEF Tiers, Tier
<1>3. sched[s].attach \in Agg \cup {None} /\ sched[s].queue \in [Lens -> Nat]
  BY DEF TreeInv, Shapes, Scheds
<1>4. job[s].pc \notin {"idle", "admitted"} => job[s].at \in Agg /\ sched[s].attach \in Agg
  BY DEF TreeInv, Jobs
<1> QED BY <1>1, <1>2, <1>3, <1>4, TreeAssumption

\* A step that changes no table.
LEMMA OnlyJob ==
  ASSUME TreeInv, UNCHANGED <<live, agg, aggOf, sched, ctl>>
  PROVE  Still /\ Scheds'
<1>1. SameTree(agg, agg)
  BY SameTreeNone DEF TreeInv, Shapes, Tables, Tiers
<1> QED BY <1>1 DEF Still, TreeInv, Shapes, Scheds

\* A step that changes a counter.
LEMMA OnlyTier ==
  ASSUME TreeInv, UNCHANGED <<live, aggOf, sched, ctl>>, SameTree(agg, agg')
  PROVE  Still /\ Scheds'
BY DEF Still, TreeInv, Shapes, Scheds

\* A step that changes the queue, or the active bit, of a scheduler.
LEMMA OnlySched ==
  ASSUME TreeInv, UNCHANGED <<live, agg, aggOf, ctl>>, NEW s \in Sched,
         NEW q \in [Lens -> Nat], NEW b \in BOOLEAN,
         \/ sched' = [sched EXCEPT ![s].queue = q, ![s].active = b]
         \/ sched' = [sched EXCEPT ![s].queue = q]
         \/ sched' = [sched EXCEPT ![s].active = b]
  PROVE  Still /\ Scheds'
<1>1. SameTree(agg, agg)
  BY SameTreeNone DEF TreeInv, Shapes, Tables, Tiers
<1>2. Scheds
  BY DEF TreeInv, Shapes
<1>3. Scheds'
  BY <1>2 DEF Scheds
<1>4. \A r \in Sched : sched'[r].on = sched[r].on /\ sched'[r].attach = sched[r].attach
  BY <1>2 DEF Scheds
<1> QED BY <1>1, <1>3, <1>4 DEF Still

LEMMA EnqueueKeeps ==
  ASSUME TreeInv, NEW s \in Sched, NEW l \in Lens, Enqueue(s, l)
  PROVE  TreeInv'
<1>1. Still /\ Scheds'
  BY OnlyJob DEF Enqueue
<1>2. PICK j : j = Job(IF sched[s].attach = None THEN "admitted" ELSE "filter",
                       sched[s].attach, l)
  OBVIOUS
<1>3. JobOK(s, j)
  BY <1>2, JobMade, StepFacts
<1>4. job' = [job EXCEPT ![s] = j]
  BY <1>2 DEF Enqueue, Goto
<1>5. ctl.todo = {} /\ ctl.gone = None
  BY DEF Enqueue, MayStart
<1> QED BY <1>1, <1>3, <1>4, <1>5, SteppedKeeps DEF Stepped

LEMMA FilterKeeps ==
  ASSUME TreeInv, NEW s \in Sched, Filter(s)
  PROVE  TreeInv'
<1>1. Still /\ Scheds'
  BY OnlyJob DEF Filter
<1>2. job[s].pc = "filter" /\ job[s] # Idle
  BY DEF Filter, Idle
<1>3. job[s].at \in Agg /\ sched[s].attach \in Agg
  BY <1>2, StepFacts
<1>4. PICK j : j = IF agg[job[s].at].usage > agg[job[s].at].limit
                   THEN Refused(s, job[s].at) ELSE Job("add", job[s].at, job[s].amt)
  OBVIOUS
<1>5. JobOK(s, j)
  BY <1>3, <1>4, JobMade DEF Refused
<1>6. job' = [job EXCEPT ![s] = j]
  BY <1>4, Zenon DEF Filter
<1> QED BY <1>1, <1>2, <1>5, <1>6, SteppedKeeps DEF Stepped

LEMMA AddKeeps ==
  ASSUME TreeInv, NEW s \in Sched, Add(s)
  PROVE  TreeInv'
<1>1. job[s].pc = "add" /\ job[s] # Idle
  BY DEF Add, Idle
<1>2. job[s].at \in Agg /\ sched[s].attach \in Agg
  BY <1>1, StepFacts
<1>3. Still /\ Scheds'
  <2>1. SameTree(agg, agg')
    BY <1>2, StepFacts, Touched DEF Add
  <2> QED BY <2>1, OnlyTier DEF Add
<1>4. PICK a, up : a = job[s].at /\ up = agg[a].parent
  OBVIOUS
<1>5. PICK j : j = IF ~Fits(a, job[s].amt) THEN Job("undo", a, job[s].amt)
                   ELSE IF up = None THEN Job("admitted", sched[s].attach, job[s].amt)
                   ELSE Job("filter", up, job[s].amt)
  OBVIOUS
<1>6. up \in Agg \cup {None}
  BY <1>2, <1>4, StepFacts
<1>7. JobOK(s, j)
  BY <1>2, <1>4, <1>5, <1>6, JobMade
<1>8. job' = [job EXCEPT ![s] = j]
  BY <1>4, <1>5, Zenon DEF Add
<1> QED BY <1>1, <1>3, <1>7, <1>8, SteppedKeeps DEF Stepped

LEMMA UndoKeeps ==
  ASSUME TreeInv, NEW s \in Sched, Undo(s)
  PROVE  TreeInv'
<1>1. job[s].pc = "undo" /\ job[s] # Idle
  BY DEF Undo, Idle
<1>2. job[s].at \in Agg /\ sched[s].attach \in Agg
  BY <1>1, StepFacts
<1>3. Still /\ Scheds'
  <2>1. SameTree(agg, agg')
    BY <1>2, StepFacts, Touched DEF Undo
  <2> QED BY <2>1, OnlyTier DEF Undo
<1>4. PICK j : j = Refused(s, job[s].at)
  OBVIOUS
<1>5. JobOK(s, j)
  BY <1>2, <1>4, JobMade DEF Refused
<1>6. job' = [job EXCEPT ![s] = j]
  BY <1>4, Zenon DEF Undo
<1> QED BY <1>1, <1>3, <1>5, <1>6, SteppedKeeps DEF Stepped

LEMMA UnwindKeeps ==
  ASSUME TreeInv, NEW s \in Sched, Unwind(s)
  PROVE  TreeInv'
<1>1. job[s].pc = "unwind" /\ job[s] # Idle
  BY DEF Unwind, Idle
<1>2. job[s].at \in Agg
  BY <1>1, StepFacts
<1>3. Still /\ Scheds'
  <2>1. SameTree(agg, agg')
    BY <1>2, StepFacts, Touched DEF Unwind
  <2> QED BY <2>1, OnlyTier DEF Unwind
<1>4. JobOK(s, Idle)
  BY JobMade
<1>5. job' = [job EXCEPT ![s] = Idle]
  BY DEF Unwind
<1> QED BY <1>1, <1>3, <1>4, <1>5, SteppedKeeps DEF Stepped

LEMMA CommitKeeps ==
  ASSUME TreeInv, NEW s \in Sched, Commit(s)
  PROVE  TreeInv'
<1>1. job[s].pc = "admitted" /\ job[s] # Idle
  BY DEF Commit, Idle
<1>2. Still /\ Scheds'
  <2>1. PICK q : q = [sched[s].queue EXCEPT ![job[s].amt] = @ + 1]
    OBVIOUS
  <2>2. q \in [Lens -> Nat]
    <3>1. PICK f : f = sched[s].queue
      OBVIOUS
    <3>2. f \in [Lens -> Nat]
      BY <3>1, StepFacts, Zenon
    <3>3. PICK l : l = job[s].amt
      OBVIOUS
    <3>4. q = [f EXCEPT ![l] = f[l] + 1]
      BY <2>1, <3>1, <3>3
    <3>5. \A k \in Lens : q[k] \in Nat
      BY <3>2, <3>4
    <3>6. q = [k \in Lens |-> q[k]]
      BY <3>2, <3>4
    <3> QED BY <3>5, <3>6
  <2>3. sched' = [sched EXCEPT ![s].queue = q, ![s].active = TRUE]
    BY <2>1 DEF Commit
  <2>4. UNCHANGED <<live, agg, aggOf, ctl>>
    BY DEF Commit
  <2> QED BY <2>2, <2>3, <2>4, OnlySched
<1>3. PICK j : j = IF ~sched[s].active /\ sched[s].attach # None
                   THEN Job("joinW", sched[s].attach, 0) ELSE Idle
  OBVIOUS
<1>4. JobOK(s, j)
  BY <1>3, StepFacts, JobMade
<1>5. job' = [job EXCEPT ![s] = j]
  BY <1>3, Zenon DEF Commit
<1> QED BY <1>1, <1>2, <1>4, <1>5, SteppedKeeps DEF Stepped

LEMMA RingFullKeeps ==
  ASSUME TreeInv, NEW s \in Sched, RingFull(s)
  PROVE  TreeInv'
<1>1. job[s].pc = "admitted" /\ job[s] # Idle
  BY DEF RingFull, Idle
<1>2. Still /\ Scheds'
  BY OnlyJob DEF RingFull
<1>3. PICK j : j = IF sched[s].attach = None THEN Idle
                   ELSE Job("release", sched[s].attach, job[s].amt)
  OBVIOUS
<1>4. JobOK(s, j)
  BY <1>3, StepFacts, JobMade
<1>5. job' = [job EXCEPT ![s] = j]
  BY <1>3, Zenon DEF RingFull
<1> QED BY <1>1, <1>2, <1>4, <1>5, SteppedKeeps DEF Stepped

LEMMA ReleaseKeeps ==
  ASSUME TreeInv, NEW s \in Sched, Release(s)
  PROVE  TreeInv'
<1>1. job[s].pc = "release" /\ job[s] # Idle
  BY DEF Release, Idle
<1>2. job[s].at \in Agg /\ sched[s].attach \in Agg
  BY <1>1, StepFacts
<1>3. Still /\ Scheds'
  <2>1. SameTree(agg, agg')
    BY <1>2, StepFacts, Touched DEF Release
  <2> QED BY <2>1, OnlyTier DEF Release
<1>4. PICK up : up = agg[job[s].at].parent
  OBVIOUS
<1>5. PICK j : j = IF up = None THEN Idle ELSE Job("release", up, job[s].amt)
  OBVIOUS
<1>6. up \in Agg \cup {None}
  BY <1>2, <1>4, StepFacts
<1>7. JobOK(s, j)
  BY <1>2, <1>5, <1>6, JobMade
<1>8. job' = [job EXCEPT ![s] = j]
  BY <1>4, <1>5, Zenon DEF Release
<1> QED BY <1>1, <1>3, <1>7, <1>8, SteppedKeeps DEF Stepped

LEMMA RemoveKeeps ==
  ASSUME TreeInv, NEW s \in Sched, MayStart(s), NEW out, Remove(s, out),
         \A l \in Lens : out[l] \in Nat /\ out[l] <= sched[s].queue[l]
  PROVE  TreeInv'
<1>1. ctl.todo = {} /\ ctl.gone = None
  BY DEF MayStart
<1>2. Still /\ Scheds'
  <2>1. PICK q : q = [l \in Lens |-> sched[s].queue[l] - out[l]]
    OBVIOUS
  <2>2. q \in [Lens -> Nat]
    <3>1. ASSUME NEW l \in Lens PROVE sched[s].queue[l] - out[l] \in Nat
      BY StepFacts
    <3> QED BY <2>1, <3>1
  <2>3. sched' = [sched EXCEPT ![s].queue = q]
    BY <2>1, Zenon DEF Remove
  <2>4. UNCHANGED <<live, agg, aggOf, ctl>>
    BY DEF Remove
  <2> QED BY <2>2, <2>3, <2>4, OnlySched
<1>3. PICK j : j = IF sched[s].attach = None THEN Idle
                   ELSE Job("release", sched[s].attach, Bytes(out))
  OBVIOUS
<1>4. JobOK(s, j)
  BY <1>3, StepFacts, JobMade
<1>5. job' = [job EXCEPT ![s] = j]
  BY <1>3, Zenon DEF Remove
<1> QED BY <1>1, <1>2, <1>4, <1>5, SteppedKeeps DEF Stepped

LEMMA DequeueKeeps ==
  ASSUME TreeInv, NEW s \in Sched, NEW l \in Lens, Dequeue(s, l)
  PROVE  TreeInv'
<1>1. PICK out : out = [k \in Lens |-> IF k = l THEN 1 ELSE 0]
  OBVIOUS
<1>2. MayStart(s) /\ Remove(s, out) /\ sched[s].queue[l] > 0
  BY <1>1 DEF Dequeue
<1>3. ASSUME NEW k \in Lens PROVE out[k] \in Nat /\ out[k] <= sched[s].queue[k]
  <2>1. sched[s].queue[k] \in Nat
    BY StepFacts
  <2> QED BY <1>1, <1>2, <2>1
<1> QED BY <1>2, <1>3, RemoveKeeps

LEMMA EvictKeeps ==
  ASSUME TreeInv, NEW s \in Sched, Evict(s)
  PROVE  TreeInv'
<1>1. PICK out \in {f \in [Lens -> 0..SchedLimit] :
                       \A l \in Lens : f[l] <= sched[s].queue[l]} : Remove(s, out)
  BY DEF Evict
<1>2. MayStart(s)
  BY DEF Evict
<1>3. \A l \in Lens : out[l] \in Nat /\ out[l] <= sched[s].queue[l]
  BY TreeAssumption
<1> QED BY <1>1, <1>2, <1>3, RemoveKeeps

LEMMA DeactivateKeeps ==
  ASSUME TreeInv, NEW s \in Sched, Deactivate(s)
  PROVE  TreeInv'
<1>1. ctl.todo = {} /\ ctl.gone = None
  BY DEF Deactivate, MayStart
<1>2. Still /\ Scheds'
  <2>1. sched' = [sched EXCEPT ![s].active = FALSE]
    BY DEF Deactivate
  <2>2. UNCHANGED <<live, agg, aggOf, ctl>>
    BY DEF Deactivate
  <2>3. sched[s].queue \in [Lens -> Nat]
    BY StepFacts
  <2> QED BY <2>1, <2>2, <2>3, OnlySched
<1>3. PICK j : j = IF sched[s].attach = None THEN Idle
                   ELSE Job("leaveW", sched[s].attach, 0)
  OBVIOUS
<1>4. JobOK(s, j)
  BY <1>3, StepFacts, JobMade
<1>5. job' = [job EXCEPT ![s] = j]
  BY <1>3, Zenon DEF Deactivate
<1> QED BY <1>1, <1>2, <1>4, <1>5, SteppedKeeps DEF Stepped

LEMMA JoinWeightKeeps ==
  ASSUME TreeInv, NEW s \in Sched, JoinWeight(s)
  PROVE  TreeInv'
<1>1. job[s].pc = "joinW" /\ job[s] # Idle
  BY DEF JoinWeight, Idle
<1>2. job[s].at \in Agg /\ sched[s].attach \in Agg
  BY <1>1, StepFacts
<1>3. Still /\ Scheds'
  <2>1. SameTree(agg, agg')
    BY <1>2, StepFacts, Touched DEF JoinWeight
  <2> QED BY <2>1, OnlyTier DEF JoinWeight
<1>4. PICK j : j = Job("joinN", job[s].at, 0)
  OBVIOUS
<1>5. JobOK(s, j)
  BY <1>2, <1>4, JobMade
<1>6. job' = [job EXCEPT ![s] = j]
  BY <1>4, Zenon DEF JoinWeight, Goto
<1> QED BY <1>1, <1>3, <1>5, <1>6, SteppedKeeps DEF Stepped

LEMMA JoinCountKeeps ==
  ASSUME TreeInv, NEW s \in Sched, JoinCount(s)
  PROVE  TreeInv'
<1>1. job[s].pc = "joinN" /\ job[s] # Idle
  BY DEF JoinCount, Idle
<1>2. job[s].at \in Agg /\ sched[s].attach \in Agg
  BY <1>1, StepFacts
<1>3. Still /\ Scheds'
  <2>1. SameTree(agg, agg')
    BY <1>2, StepFacts, Touched DEF JoinCount
  <2> QED BY <2>1, OnlyTier DEF JoinCount
<1>4. PICK a, up : a = job[s].at /\ up = agg[a].parent
  OBVIOUS
<1>5. PICK j : j = IF agg[a].nActive = 0 /\ up # None
                   THEN Job("joinW", up, 0) ELSE Idle
  OBVIOUS
<1>6. up \in Agg \cup {None}
  BY <1>2, <1>4, StepFacts
<1>7. JobOK(s, j)
  BY <1>2, <1>5, <1>6, JobMade
<1>8. job' = [job EXCEPT ![s] = j]
  BY <1>4, <1>5, Zenon DEF JoinCount
<1> QED BY <1>1, <1>3, <1>7, <1>8, SteppedKeeps DEF Stepped

LEMMA LeaveWeightKeeps ==
  ASSUME TreeInv, NEW s \in Sched, LeaveWeight(s)
  PROVE  TreeInv'
<1>1. job[s].pc = "leaveW" /\ job[s] # Idle
  BY DEF LeaveWeight, Idle
<1>2. job[s].at \in Agg /\ sched[s].attach \in Agg
  BY <1>1, StepFacts
<1>3. Still /\ Scheds'
  <2>1. SameTree(agg, agg')
    BY <1>2, StepFacts, Touched DEF LeaveWeight
  <2> QED BY <2>1, OnlyTier DEF LeaveWeight
<1>4. PICK j : j = Job("leaveN", job[s].at, 0)
  OBVIOUS
<1>5. JobOK(s, j)
  BY <1>2, <1>4, JobMade
<1>6. job' = [job EXCEPT ![s] = j]
  BY <1>4, Zenon DEF LeaveWeight, Goto
<1> QED BY <1>1, <1>3, <1>5, <1>6, SteppedKeeps DEF Stepped

LEMMA LeaveCountKeeps ==
  ASSUME TreeInv, NEW s \in Sched, LeaveCount(s)
  PROVE  TreeInv'
<1>1. job[s].pc = "leaveN" /\ job[s] # Idle
  BY DEF LeaveCount, Idle
<1>2. job[s].at \in Agg /\ sched[s].attach \in Agg
  BY <1>1, StepFacts
<1>3. Still /\ Scheds'
  <2>1. SameTree(agg, agg')
    BY <1>2, StepFacts, Touched DEF LeaveCount
  <2> QED BY <2>1, OnlyTier DEF LeaveCount
<1>4. PICK a, up : a = job[s].at /\ up = agg[a].parent
  OBVIOUS
<1>5. PICK j : j = IF agg[a].nActive = 1 /\ up # None
                   THEN Job("leaveW", up, 0) ELSE Idle
  OBVIOUS
<1>6. up \in Agg \cup {None}
  BY <1>2, <1>4, StepFacts
<1>7. JobOK(s, j)
  BY <1>2, <1>5, <1>6, JobMade
<1>8. job' = [job EXCEPT ![s] = j]
  BY <1>4, <1>5, Zenon DEF LeaveCount
<1> QED BY <1>1, <1>3, <1>7, <1>8, SteppedKeeps DEF Stepped

LEMMA WorkerKeeps ==
  ASSUME TreeInv, Worker
  PROVE  TreeInv'
<1>1. PICK s \in Sched :
        \/ \E l \in Lens : Enqueue(s, l) \/ Dequeue(s, l)
        \/ Filter(s) \/ Add(s) \/ Undo(s) \/ Unwind(s)
        \/ Commit(s) \/ RingFull(s) \/ Release(s) \/ Evict(s) \/ Deactivate(s)
        \/ JoinWeight(s) \/ JoinCount(s) \/ LeaveWeight(s) \/ LeaveCount(s)
  BY DEF Worker
<1> QED
  BY <1>1, EnqueueKeeps, DequeueKeeps, FilterKeeps, AddKeeps, UndoKeeps, UnwindKeeps,
     CommitKeeps, RingFullKeeps, ReleaseKeeps, EvictKeeps, DeactivateKeeps,
     JoinWeightKeeps, JoinCountKeeps, LeaveWeightKeeps, LeaveCountKeeps

-----------------------------------------------------------------------------
(* The control plane: no owner thread is inside an operation.               *)

Quiet == \A s \in Sched : job[s] = Idle

LEMMA QuietJobs ==
  ASSUME Jobs, Quiet, job' = job
  PROVE  Jobs'
<1>1. Idle.at = None /\ Idle.pc = "idle"
  BY DEF Idle
<1> QED BY <1>1 DEF Jobs, Quiet

LEMMA ControlFacts ==
  ASSUME TreeInv
  PROVE  /\ Tables /\ Scheds /\ Controls /\ Jobs /\ Ports /\ Svlans /\ Goner /\ Attached
         /\ Tiers(agg) /\ live \subseteq Agg /\ None \notin Agg
         /\ MainFree => Barrier /\ ctl.cascade = None
         /\ Barrier => Quiet /\ ctl.todo = {} /\ ctl.gone = None /\ Kept = live
         /\ ctl.todo # {} \/ ctl.gone # None => Quiet
<1>1. Tiers(agg) /\ live \subseteq Agg
  BY DEF TreeInv, Shapes, Tables, Tiers
<1>2. None \notin Agg
  BY TreeAssumption
<1>3. Barrier => Quiet /\ ctl.todo = {} /\ ctl.gone = None /\ Kept = live
  BY <1>1, <1>2 DEF Barrier, Quiet, Kept
<1>4. ctl.todo # {} \/ ctl.gone # None => Quiet
  BY DEF TreeInv, Jobs, Quiet
<1> QED BY <1>1, <1>2, <1>3, <1>4 DEF TreeInv, Shapes, MainFree

LEMMA EffectiveNat ==
  ASSUME NEW r \in Nat, NEW w \in Nat
  PROVE  EffectiveWeight(r, w) \in Nat
<1>1. ASSUME NEW x \in Nat, NEW y \in Nat PROVE x * y \in Nat
  BY <1>1
<1>2. PICK x, y : x = (IF r = 0 THEN 1 ELSE r) /\ y = (IF w = 0 THEN 1 ELSE w)
  OBVIOUS
<1>3. x \in Nat /\ y \in Nat
  BY <1>2
<1>4. EffectiveWeight(r, w) = x * y
  BY <1>2 DEF EffectiveWeight
<1> QED BY <1>1, <1>3, <1>4

\* A scheduler that is left alone, taken off, or hung where it belongs.
Rehung(s) ==
  \/ sched'[s] = sched[s] /\ (s \in ctl'.todo <=> s \in ctl.todo)
  \/ ~sched'[s].on /\ sched'[s].attach = None /\ s \notin ctl'.todo
  \/ sched'[s].on /\ sched'[s].attach = Resolve(s, aggOf, agg) /\ s \notin ctl'.todo

LEMMA RehungKeeps ==
  ASSUME TreeInv, Quiet, live' = live, aggOf' = aggOf, job' = job,
         SameLinks(agg, agg'), Rated(agg'), Scheds', Controls',
         ctl'.gone = ctl.gone,
         \A s \in Sched : Rehung(s)
  PROVE  TreeInv'
<1>1. Tables' /\ Ports' /\ Svlans' /\ Goner'
  BY TreeKept, ControlFacts
<1>2. Jobs'
  BY QuietJobs, ControlFacts
<1>3. Attached'
  <2>1. ctl'.todo \subseteq Sched
    BY DEF Controls
  <2>2. ASSUME NEW s \in Sched
        PROVE  /\ ~sched'[s].on => sched'[s].attach = None
               /\ s \in ctl'.todo => sched'[s].on
               /\ sched'[s].attach # None => sched'[s].attach \in live'
               /\ sched'[s].on /\ s \notin ctl'.todo =>
                    sched'[s].attach = Resolve(s, aggOf', agg')
    <3>1. Resolve(s, aggOf', agg') = Resolve(s, aggOf, agg)
      BY ResolveStill, ControlFacts
    <3>2. Resolve(s, aggOf, agg) \in live \cup {None}
      BY ResolveKept, ControlFacts DEF Kept
    <3>3. Rehung(s)
      OBVIOUS
    <3>4. Attached
      BY DEF TreeInv
    <3> HIDE DEF Resolve
    <3>5. CASE sched'[s] = sched[s] /\ (s \in ctl'.todo <=> s \in ctl.todo)
      BY <3>1, <3>4, <3>5 DEF Attached
    <3> QED BY <3>1, <3>2, <3>3, <3>5 DEF Rehung
  <2> QED BY <2>1, <2>2 DEF Attached
<1> QED BY <1>1, <1>2, <1>3 DEF TreeInv, Shapes

LEMMA EnableKeeps ==
  ASSUME TreeInv, NEW s \in Sched, NEW r \in Rates, NEW w \in Weights, Enable(s, r, w)
  PROVE  TreeInv'
<1>1. MainFree /\ UNCHANGED <<live, agg, aggOf, job, ctl>>
  BY DEF Enable
<1>2. Quiet /\ ctl.todo = {}
  BY <1>1, ControlFacts
<1>3. PICK x : x = Resolve(s, aggOf, agg)
  OBVIOUS
<1>4. x \in Agg \cup {None}
  BY <1>3, ResolveKept, ControlFacts DEF Kept
<1>5. PICK e : e = EffectiveWeight(r, w)
  OBVIOUS
<1>6. e \in Nat
  BY <1>5, EffectiveNat, TreeAssumption
<1>7. PICK d : d = [Disabled EXCEPT !.on = TRUE, !.attach = x, !.eweight = e]
  OBVIOUS
<1>8. /\ d \in [on : BOOLEAN, attach : Agg \cup {None}, eweight : Nat,
                active : BOOLEAN, queue : [Lens -> Nat]]
      /\ d.on /\ d.attach = x
  BY <1>4, <1>6, <1>7 DEF Disabled
<1>9. sched' = [sched EXCEPT ![s] = d]
  BY <1>3, <1>5, <1>7, Zenon DEF Enable
<1>10. Scheds'
  BY <1>8, <1>9, ControlFacts DEF Scheds
<1>11. \A q \in Sched : Rehung(q)
  <2>1. ASSUME NEW q \in Sched, q # s PROVE sched'[q] = sched[q]
    BY <1>9, <2>1, ControlFacts DEF Scheds
  <2>2. sched'[s] = d
    BY <1>9, ControlFacts DEF Scheds
  <2> QED BY <1>1, <1>2, <1>3, <1>8, <2>1, <2>2 DEF Rehung
<1>12. SameTree(agg, agg') /\ Controls'
  BY <1>1, SameTreeNone, ControlFacts DEF Controls
<1> QED BY <1>1, <1>2, <1>10, <1>11, <1>12, SameIsLinked, ControlFacts, RehungKeeps

LEMMA DisableKeeps ==
  ASSUME TreeInv, NEW s \in Sched, Disable(s)
  PROVE  TreeInv'
<1>1. MainFree /\ UNCHANGED <<live, aggOf, job, ctl>>
  BY DEF Disable
<1>2. Quiet /\ ctl.todo = {}
  BY <1>1, ControlFacts
<1>3. PICK drained : drained = [a \in Agg |->
        IF a \in ChainOf(sched[s].attach)
        THEN [agg[a] EXCEPT !.usage = @ - Queued(s)] ELSE agg[a]]
  OBVIOUS
<1>4. SameTree(agg, drained)
  <2>1. drained = [a \in Agg |-> drained[a]]
    BY <1>3
  <2>2. ASSUME NEW a \in Agg PROVE Tier(drained[a]) /\ Same(agg[a], drained[a])
    <3>1. Tier(agg[a]) /\ Same(agg[a], agg[a])
      BY ControlFacts DEF Tiers, Same
    <3>2. drained[a] = [agg[a] EXCEPT !.usage = @ - Queued(s)] \/ drained[a] = agg[a]
      BY <1>3
    <3> QED BY <3>1, <3>2, TierTouched, Zenon
  <2> QED BY <2>1, <2>2 DEF SameTree, Tiers
<1>5. agg' = IF sched[s].active
             THEN WeightSub(drained, sched[s].attach, sched[s].eweight) ELSE drained
  BY <1>3, Zenon DEF Disable
<1>6. SameTree(agg, agg')
  <2>1. sched[s].attach \in Agg \cup {None}
    BY ControlFacts DEF Scheds
  <2>2. SameTree(drained, WeightSub(drained, sched[s].attach, sched[s].eweight))
    BY <1>4, <2>1, WeightSubSame DEF SameTree
  <2> QED BY <1>4, <1>5, <2>2, SameTreeTwice
<1>7. sched' = [sched EXCEPT ![s] = Disabled]
  BY DEF Disable
<1>8. /\ Disabled \in [on : BOOLEAN, attach : Agg \cup {None}, eweight : Nat,
                       active : BOOLEAN, queue : [Lens -> Nat]]
      /\ ~Disabled.on /\ Disabled.attach = None
  BY DEF Disabled
<1>9. Scheds'
  BY <1>7, <1>8, ControlFacts DEF Scheds
<1>10. \A q \in Sched : Rehung(q)
  <2>1. ASSUME NEW q \in Sched, q # s PROVE sched'[q] = sched[q]
    BY <1>7, <2>1, ControlFacts DEF Scheds
  <2>2. sched'[s] = Disabled
    BY <1>7, ControlFacts DEF Scheds
  <2> QED BY <1>1, <1>2, <1>8, <2>1, <2>2 DEF Rehung
<1>11. Controls'
  BY <1>1, ControlFacts DEF Controls
<1> QED BY <1>1, <1>2, <1>6, <1>9, <1>10, <1>11, SameIsLinked, ControlFacts, RehungKeeps

LEMMA ReparentOneKeeps ==
  ASSUME TreeInv, NEW s \in Sched, ReparentOne(s)
  PROVE  TreeInv'
<1>1. s \in ctl.todo /\ UNCHANGED <<live, aggOf, job>>
  BY DEF ReparentOne
<1>2. Quiet
  BY <1>1, ControlFacts
<1>3. PICK old, new : old = sched[s].attach /\ new = Resolve(s, aggOf, agg)
  OBVIOUS
<1>4. new \in Agg \cup {None} /\ old \in Agg \cup {None}
  BY <1>3, ResolveKept, ControlFacts DEF Kept, Scheds
<1>5. PICK e : e = sched[s].eweight
  OBVIOUS
<1>6. PICK moved : moved = IF sched[s].active
                           THEN WeightAdd(WeightSub(agg, old, e), new, e) ELSE agg
  OBVIOUS
<1>7. SameTree(agg, moved)
  <2>1. PICK h : h = WeightSub(agg, old, e)
    OBVIOUS
  <2>2. SameTree(agg, h) /\ Tiers(h)
    BY <1>4, <2>1, WeightSubSame, ControlFacts DEF SameTree
  <2>3. SameTree(h, WeightAdd(h, new, e))
    BY <1>4, <2>2, WeightAddSame
  <2>4. SameTree(agg, agg)
    BY SameTreeNone, ControlFacts
  <2>5. SameTree(agg, WeightAdd(h, new, e))
    BY <2>2, <2>3, SameTreeTwice
  <2> QED BY <1>6, <2>1, <2>4, <2>5
<1>8. SameTree(agg, agg')
  <2>1. agg' = IF new = old THEN agg ELSE Recharge(moved, s, old, new)
    BY <1>3, <1>5, <1>6, Zenon DEF ReparentOne
  <2>2. SameTree(moved, Recharge(moved, s, old, new))
    BY <1>7, RechargeSame DEF SameTree
  <2> QED BY <1>7, <2>1, <2>2, SameTreeTwice, SameTreeNone, ControlFacts
<1>9. sched' = [sched EXCEPT ![s].attach = new]
  BY <1>3, Zenon DEF ReparentOne
<1>10. ctl' = [ctl EXCEPT !.todo = @ \ {s}]
  BY DEF ReparentOne
<1>11. Scheds'
  BY <1>4, <1>9, ControlFacts DEF Scheds
<1>12. Controls' /\ ctl'.gone = ctl.gone /\ ctl'.todo = ctl.todo \ {s}
  BY <1>10, ControlFacts DEF Controls
<1>13. \A q \in Sched : Rehung(q)
  <2>1. ASSUME NEW q \in Sched, q # s PROVE sched'[q] = sched[q]
    BY <1>9, <2>1, ControlFacts DEF Scheds
  <2>2. sched'[s].attach = new /\ sched'[s].on = sched[s].on
    BY <1>9, ControlFacts DEF Scheds
  <2>3. sched[s].on
    BY <1>1, ControlFacts DEF Attached
  <2> QED BY <1>3, <1>12, <2>1, <2>2, <2>3 DEF Rehung
<1> QED BY <1>1, <1>2, <1>8, <1>11, <1>12, <1>13, SameIsLinked, ControlFacts, RehungKeeps

LEMMA InterfaceDelKeeps ==
  ASSUME TreeInv, NEW p \in Port, InterfaceDel(p)
  PROVE  TreeInv'
<1>1. MainFree /\ aggOf[p] # None /\ UNCHANGED <<live, agg, aggOf, sched, job>>
  BY DEF InterfaceDel
<1>2. Quiet /\ Kept = live
  BY <1>1, ControlFacts
<1>3. PICK tags : tags = {agg[c].first : c \in Children(aggOf[p])}
  OBVIOUS
<1>4. tags \subseteq Tag
  <2>1. ASSUME NEW c \in Children(aggOf[p]) PROVE agg[c].first \in Tag
    BY <1>1, <1>2, ControlFacts DEF Children, Svlans, Svlan
  <2> QED BY <1>3, <2>1
<1>5. ctl' = [ctl EXCEPT !.cascade = p, !.tags = tags]
  BY <1>3, Zenon DEF InterfaceDel
<1>6. Controls' /\ ctl'.gone = ctl.gone /\ ctl'.todo = ctl.todo
  BY <1>4, <1>5, ControlFacts DEF Controls
<1>7. SameTree(agg, agg') /\ Scheds' /\ \A s \in Sched : Rehung(s)
  BY <1>1, <1>6, SameTreeNone, ControlFacts DEF Scheds, Rehung
<1> QED BY <1>1, <1>2, <1>6, <1>7, SameIsLinked, ControlFacts, RehungKeeps

\* Nobody hangs on the slot that is put, or looks at it.
LEMMA PutAggKeeps ==
  ASSUME TreeInv, PutAgg
  PROVE  TreeInv'
<1> DEFINE gone == ctl.gone
<1>1. /\ ctl.todo = {} /\ gone # None /\ live' = live \ {gone}
      /\ agg' = [agg EXCEPT ![gone] = FreeAgg] /\ ctl' = [ctl EXCEPT !.gone = None]
      /\ UNCHANGED <<aggOf, sched, job>>
  BY DEF PutAgg
<1>2. Quiet /\ gone \in live /\ live \subseteq Agg /\ None \notin Agg
  BY <1>1, ControlFacts DEF Goner
<1>3. Controls' /\ ctl'.gone = None /\ ctl'.todo = {} /\ Kept' = live' /\ live' = Kept
  BY <1>1, <1>2, ControlFacts DEF Controls, Kept
<1>4. Tier(FreeAgg)
  BY TreeAssumption DEF FreeAgg, NewAgg, Tier, TierFields
<1>5. \A a \in Agg : a # gone => agg'[a] = agg[a]
  BY <1>1, ControlFacts DEF Tables
<1>6. Tables'
  <2>1. agg' = [a \in Agg |-> agg'[a]]
    BY <1>1, ControlFacts DEF Tables
  <2>2. \A a \in Agg : Tier(agg'[a])
    <3>1. agg'[gone] = FreeAgg
      BY <1>1, <1>2, ControlFacts DEF Tables
    <3> QED BY <1>4, <1>5, <3>1, ControlFacts DEF Tables
  <2> QED BY <1>1, <2>1, <2>2, ControlFacts DEF Tables
<1>7. \A a \in Kept : a \in Agg /\ a # gone /\ agg'[a] = agg[a]
  BY <1>2, <1>5 DEF Kept
<1> HIDE DEF gone
<1>8. Ports'
  BY <1>1, <1>3, <1>7, ControlFacts DEF Ports
<1>9. Svlans'
  <2>1. ASSUME NEW a \in Kept, agg'[a].parent # None PROVE Svlan(a)'
    <3>1. Svlan(a) /\ agg'[a] = agg[a]
      BY <1>7, <2>1, ControlFacts DEF Svlans
    <3>2. PICK p : p = agg[a].parent
      OBVIOUS
    <3>3. p \in Kept /\ agg'[p] = agg[p]
      BY <1>7, <3>1, <3>2 DEF Svlan
    <3> QED BY <1>3, <3>1, <3>2, <3>3 DEF Svlan
  <2>2. ASSUME NEW a \in Kept, NEW t \in Tag, agg'[a].map[t] # None
        PROVE  agg'[a].map[t] \in Kept /\ agg'[agg'[a].map[t]].parent = a
    <3>1. agg'[a] = agg[a] /\ a \in live
      BY <1>7 DEF Kept
    <3>2. agg[a].map[t] \in Kept /\ agg[agg[a].map[t]].parent = a
      BY <2>2, <3>1, ControlFacts DEF Svlans
    <3> QED BY <1>7, <3>1, <3>2
  <2> QED BY <1>3, <2>1, <2>2 DEF Svlans
<1>10. Goner'
  BY <1>3 DEF Goner
<1>11. \A s \in Sched : Resolve(s, aggOf', agg') = Resolve(s, aggOf, agg)
  <2>1. ASSUME NEW s \in Sched PROVE Resolve(s, aggOf, agg') = Resolve(s, aggOf, agg)
    <3>1. \A p \in Port : aggOf[p] # None => agg'[aggOf[p]].map = agg[aggOf[p]].map
      BY <1>7, ControlFacts DEF Ports
    <3> QED BY <3>1, ResolveSame
  <2> QED BY <1>1, <2>1
<1>12. Attached'
  <2>1. ASSUME NEW s \in Sched
        PROVE  /\ ~sched[s].on => sched[s].attach = None
               /\ sched[s].attach # None => sched[s].attach \in Kept
               /\ sched[s].on => sched[s].attach = Resolve(s, aggOf', agg')
    <3>1. Resolve(s, aggOf, agg) \in Kept \cup {None}
      BY ResolveKept, ControlFacts
    <3>2. /\ ~sched[s].on => sched[s].attach = None
          /\ sched[s].on => sched[s].attach = Resolve(s, aggOf, agg)
      BY <1>1, ControlFacts DEF Attached
    <3> QED BY <1>11, <3>1, <3>2
  <2> QED BY <1>1, <1>3, <2>1 DEF Attached
<1>13. Jobs' /\ Scheds'
  BY <1>1, <1>2, QuietJobs, ControlFacts DEF Scheds
<1> QED BY <1>3, <1>6, <1>8, <1>9, <1>10, <1>12, <1>13 DEF TreeInv, Shapes

\* A change of the tree that sends every scheduler to be hung again.
LEMMA RestartKeeps ==
  ASSUME TreeInv, Quiet, UNCHANGED <<sched, job>>, ctl'.todo = Members,
         live \subseteq live', Controls', Tables', Ports', Svlans', Goner'
  PROVE  TreeInv'
<1>1. Jobs' /\ Scheds'
  BY QuietJobs, ControlFacts DEF Scheds
<1>2. Attached'
  <2>1. \A s \in Sched : sched[s].on <=> s \in Members
    BY DEF Members
  <2>2. Members \subseteq Sched
    BY DEF Members
  <2> QED BY <2>1, <2>2, ControlFacts DEF Attached
<1> QED BY <1>1, <1>2 DEF TreeInv, Shapes

LEMMA NewTier ==
  ASSUME NEW port \in Agg \cup {None}, NEW first, NEW last, NEW r \in Nat, NEW w, NEW n,
         NEW q, q = NewAgg(port, first, last, r, w, n)
  PROVE  /\ Tier(q) /\ q.parent = port /\ q.first = first /\ q.last = last /\ q.rate = r
         /\ \A t \in Tag : q.map[t] = None
BY DEF NewAgg, Tier, TierFields

\* StartReparent
LEMMA StartedOK ==
  ASSUME TreeInv, NEW g \in Agg \cup {None},
         ctl' = [ctl EXCEPT !.todo = Members, !.gone = g]
  PROVE  Controls' /\ ctl'.todo = Members /\ ctl'.gone = g
<1>1. Members \in SUBSET Sched
  BY DEF Members
<1>2. Controls
  BY ControlFacts
<1> QED BY <1>1, <1>2 DEF Controls

LEMMA CreatePortKeeps ==
  ASSUME TreeInv, NEW p \in Port, NEW r \in Rates, NEW w \in Weights, NEW n \in Limits,
         CreatePort(p, r, w, n)
  PROVE  TreeInv'
<1>1. MainFree /\ aggOf[p] = None /\ UNCHANGED <<sched, job>>
  BY DEF CreatePort
<1>2. Quiet /\ ctl.gone = None /\ Kept = live /\ live \subseteq Agg /\ None \notin Agg
  BY <1>1, ControlFacts
<1>3. PICK a \in Agg \ live :
        /\ live' = live \cup {a}
        /\ agg' = [agg EXCEPT ![a] = NewAgg(None, 0, 0, r, w, n)]
        /\ aggOf' = [aggOf EXCEPT ![p] = a]
  BY DEF CreatePort
<1>4. PICK q : q = NewAgg(None, 0, 0, r, w, n)
  OBVIOUS
<1>5. r \in Nat
  BY TreeAssumption
<1>6. Tier(q) /\ q.parent = None /\ \A t \in Tag : q.map[t] = None
  BY <1>4, <1>5, NewTier
<1>7. agg'[a] = q /\ \A b \in Agg : b # a => agg'[b] = agg[b]
  BY <1>3, <1>4, ControlFacts DEF Tables
<1>8. aggOf'[p] = a /\ \A x \in Port : x # p => aggOf'[x] = aggOf[x]
  BY <1>3, ControlFacts DEF Tables
<1>9. Tables'
  <2>1. agg' = [b \in Agg |-> agg'[b]]
    BY <1>3, ControlFacts DEF Tables
  <2>2. aggOf' \in [Port -> Agg \cup {None}]
    BY <1>3, ControlFacts DEF Tables
  <2> QED BY <1>2, <1>3, <1>6, <1>7, <2>1, <2>2, ControlFacts DEF Tables
<1>10. ctl' = [ctl EXCEPT !.todo = Members, !.gone = None]
  BY DEF CreatePort, StartReparent
<1>11. Controls' /\ ctl'.todo = Members /\ ctl'.gone = None
  BY <1>10, StartedOK, Zenon
<1>12. Kept' = live \cup {a} /\ a \notin live /\ a \in Agg
  BY <1>2, <1>3, <1>11 DEF Kept
<1>13. Ports'
  <2>1. ASSUME NEW x \in Port, aggOf'[x] # None
        PROVE  aggOf'[x] \in Kept' /\ agg'[aggOf'[x]].parent = None
    <3>1. CASE x = p
      BY <1>6, <1>7, <1>8, <1>12, <3>1
    <3>2. CASE x # p
      <4>1. aggOf[x] \in live /\ agg[aggOf[x]].parent = None
        BY <1>2, <1>8, <2>1, <3>2, ControlFacts DEF Ports
      <4> QED BY <1>2, <1>7, <1>8, <1>12, <3>2, <4>1
    <3> QED BY <3>1, <3>2
  <2>2. ASSUME NEW x \in Port, NEW y \in Port, aggOf'[x] = aggOf'[y], aggOf'[x] # None
        PROVE  x = y
    <3>1. \A z \in Port : aggOf[z] # a
      BY <1>2, <1>12, ControlFacts DEF Ports
    <3> QED BY <1>8, <2>2, <3>1, ControlFacts DEF Ports
  <2>3. ASSUME NEW b \in Kept', agg'[b].parent = None
        PROVE  \E x \in Port : aggOf'[x] = b
    <3>1. CASE b = a
      BY <1>8, <3>1
    <3>2. CASE b # a
      <4>1. b \in live /\ agg[b].parent = None
        BY <1>2, <1>7, <1>12, <2>3, <3>2
      <4>2. PICK x \in Port : aggOf[x] = b
        BY <1>2, <4>1, ControlFacts DEF Ports
      <4>3. x # p
        BY <1>1, <1>2, <4>1, <4>2
      <4> QED BY <1>8, <4>2, <4>3
    <3> QED BY <3>1, <3>2
  <2> QED BY <2>1, <2>2, <2>3 DEF Ports
<1>14. Svlans'
  <2>1. ASSUME NEW b \in Kept', agg'[b].parent # None PROVE Svlan(b)'
    <3>1. b # a /\ b \in live /\ agg'[b] = agg[b]
      BY <1>2, <1>6, <1>7, <1>12, <2>1
    <3>2. Svlan(b)
      BY <1>2, <2>1, <3>1, ControlFacts DEF Svlans
    <3>3. PICK u : u = agg[b].parent
      OBVIOUS
    <3>4. u \in live /\ u # a /\ agg'[u] = agg[u]
      BY <1>2, <1>7, <1>12, <3>2, <3>3 DEF Svlan
    <3> QED BY <1>12, <3>1, <3>2, <3>3, <3>4 DEF Svlan
  <2>2. ASSUME NEW b \in live', NEW t \in Tag, agg'[b].map[t] # None
        PROVE  agg'[b].map[t] \in Kept' /\ agg'[agg'[b].map[t]].parent = b
    <3>1. b # a /\ b \in live /\ agg'[b] = agg[b]
      BY <1>2, <1>3, <1>6, <1>7, <2>2
    <3>2. agg[b].map[t] \in live /\ agg[agg[b].map[t]].parent = b
      BY <1>2, <2>2, <3>1, ControlFacts DEF Svlans
    <3> QED BY <1>2, <1>7, <1>12, <3>1, <3>2
  <2> QED BY <2>1, <2>2 DEF Svlans
<1>15. Goner'
  BY <1>11 DEF Goner
<1>16. live \subseteq live'
  BY <1>3
<1> QED BY <1>1, <1>2, <1>9, <1>11, <1>13, <1>14, <1>15, <1>16, RestartKeeps

LEMMA CreateSvlanKeeps ==
  ASSUME TreeInv, NEW p \in Port, NEW first \in Tag, NEW last \in Tag,
         NEW r \in Rates, NEW w \in Weights, NEW n \in Limits,
         CreateSvlan(p, first, last, r, w, n)
  PROVE  TreeInv'
<1> DEFINE port == aggOf[p]
<1>2. /\ MainFree /\ port # None /\ r <= agg[port].rate
      /\ \A t \in Tag : t \in first..last => agg[port].map[t] = None
      /\ UNCHANGED <<aggOf, sched, job>>
  BY Zenon DEF CreateSvlan
<1>3. Quiet /\ ctl.gone = None /\ Kept = live /\ live \subseteq Agg /\ None \notin Agg
  BY <1>2, ControlFacts
<1>4. port \in live /\ port \in Agg /\ agg[port].parent = None
  BY <1>2, <1>3, ControlFacts DEF Ports
<1>5. PICK a \in Agg \ live :
        /\ live' = live \cup {a}
        /\ agg' = [agg EXCEPT
             ![a] = NewAgg(port, first, last, r, w, n),
             ![port].map = [t \in Tag |-> IF t \in first..last THEN a ELSE @[t]]]
  BY Zenon DEF CreateSvlan
<1> HIDE DEF port
<1>6. PICK q : q = NewAgg(port, first, last, r, w, n)
  OBVIOUS
<1>7. /\ Tier(q) /\ q.parent = port /\ q.first = first /\ q.last = last /\ q.rate = r
      /\ \A t \in Tag : q.map[t] = None
  <2>1. r \in Nat
    BY TreeAssumption
  <2> QED BY <1>4, <1>6, <2>1, NewTier
<1>8. PICK m : m = [t \in Tag |-> IF t \in first..last THEN a ELSE agg[port].map[t]]
  OBVIOUS
<1>9. a # port /\ a \in Agg /\ a \notin live
  BY <1>4, <1>5
<1>10. PICK u : u = [agg[port] EXCEPT !.map = m]
  OBVIOUS
<1>11. /\ agg' = [b \in Agg |-> agg'[b]]
       /\ agg'[a] = q /\ agg'[port] = u
       /\ \A b \in Agg : b # a /\ b # port => agg'[b] = agg[b]
  <2>1. PICK h : h = [agg EXCEPT ![a] = q]
    OBVIOUS
  <2>2. h[port] = agg[port] /\ h = [b \in Agg |-> h[b]]
        /\ h[a] = q /\ \A b \in Agg : b # a => h[b] = agg[b]
    BY <1>4, <1>9, <2>1, ControlFacts DEF Tables
  <2>3. agg' = [h EXCEPT ![port] = [h[port] EXCEPT !.map = m]]
    BY <1>5, <1>6, <1>8, <2>1
  <2>4. agg' = [h EXCEPT ![port] = u]
    BY <1>10, <2>2, <2>3
  <2> QED BY <1>4, <1>9, <2>2, <2>4
<1>12. /\ Tier(u) /\ u.parent = None /\ u.rate = agg[port].rate /\ u.map = m
       /\ u.first = agg[port].first /\ u.last = agg[port].last
  <2>1. Tier(agg[port])
    BY <1>4, ControlFacts DEF Tables
  <2>2. m \in [Tag -> Agg \cup {None}]
    BY <1>8, <1>9, <2>1 DEF Tier
  <2> QED BY <1>4, <1>10, <2>1, <2>2 DEF Tier, TierFields
<1>13. Tables'
  BY <1>2, <1>3, <1>5, <1>7, <1>11, <1>12, ControlFacts DEF Tables
<1>14. ctl' = [ctl EXCEPT !.todo = Members, !.gone = None]
  BY Zenon DEF CreateSvlan, StartReparent
<1>15. Controls' /\ ctl'.todo = Members /\ ctl'.gone = None
  BY <1>14, StartedOK, Zenon
<1>16. Kept' = live \cup {a} /\ live' = live \cup {a}
  BY <1>3, <1>5, <1>9, <1>15 DEF Kept
<1>17. \A b \in live : b \in Agg /\ agg'[b].parent = agg[b].parent /\ agg'[b].rate = agg[b].rate
                       /\ agg'[b].first = agg[b].first /\ agg'[b].last = agg[b].last
  BY <1>3, <1>4, <1>9, <1>11, <1>12
<1>18. Ports'
  <2>1. \A x \in Port : aggOf[x] # None => aggOf[x] \in live /\ agg[aggOf[x]].parent = None
    BY <1>3, ControlFacts DEF Ports
  <2>2. \A b \in Kept' : agg'[b].parent = None => b \in live /\ agg[b].parent = None
    BY <1>2, <1>7, <1>11, <1>16, <1>17
  <2>3. \A b \in live : agg[b].parent = None => \E x \in Port : aggOf[x] = b
    BY <1>3, ControlFacts DEF Ports
  <2>4. \A x, y \in Port : aggOf[x] = aggOf[y] /\ aggOf[x] # None => x = y
    BY ControlFacts DEF Ports
  <2>5. \A x \in Port : aggOf[x] # None => aggOf[x] \in Kept' /\ agg'[aggOf[x]].parent = None
    BY <1>16, <1>17, <2>1
  <2> QED BY <1>2, <2>2, <2>3, <2>4, <2>5 DEF Ports
<1>19. \A b \in live : b # port => agg'[b] = agg[b]
  BY <1>3, <1>9, <1>11
<1>20. Svlans'
  <2>1. ASSUME NEW b \in Kept', agg'[b].parent # None PROVE Svlan(b)'
    <3>1. CASE b = a
      <4>1. {t \in Tag : m[t] = a} = Tag \cap (first..last)
        <5>1. \A t \in Tag : agg[port].map[t] # a
          BY <1>3, <1>4, <1>9, ControlFacts DEF Svlans
        <5> QED BY <1>8, <5>1
      <4>2. first \in Tag
        OBVIOUS
      <4> QED BY <1>2, <1>4, <1>7, <1>11, <1>12, <1>16, <3>1, <4>1, <4>2 DEF Svlan
    <3>2. CASE b # a
      <4>1. b \in live /\ agg[b].parent # None
        BY <1>16, <1>17, <2>1, <3>2
      <4>2. Svlan(b)
        BY <1>3, <4>1, ControlFacts DEF Svlans
      <4>3. PICK v : v = agg[b].parent
        OBVIOUS
      <4>4. v \in live /\ agg[v].parent = None /\ agg[b].rate <= agg[v].rate
            /\ agg[b].first \in Tag
            /\ {t \in Tag : agg[v].map[t] = b} = Tag \cap (agg[b].first..agg[b].last)
        BY <1>3, <4>2, <4>3 DEF Svlan
      <4>5. {t \in Tag : agg'[v].map[t] = b} = {t \in Tag : agg[v].map[t] = b}
        <5>1. CASE v # port
          BY <1>19, <4>4, <5>1
        <5>2. CASE v = port
          <6>1. agg'[v].map = m
            BY <1>11, <1>12, <5>2
          <6>2. \A t \in Tag : m[t] = b <=> agg[port].map[t] = b
            BY <1>2, <1>3, <1>8, <3>2, <4>1
          <6> QED BY <5>2, <6>1, <6>2
        <5> QED BY <5>1, <5>2
      <4>6. PICK f, e : f = agg[b].first /\ e = agg[b].last
        OBVIOUS
      <4>7. agg'[b].first = f /\ agg'[b].last = e /\ agg'[b].parent = v
            /\ agg'[b].rate <= agg'[v].rate /\ agg'[v].parent = None
        BY <1>17, <4>1, <4>3, <4>4, <4>6
      <4> QED BY <1>16, <4>4, <4>5, <4>6, <4>7 DEF Svlan
    <3> QED BY <3>1, <3>2
  <2>2. ASSUME NEW b \in live', NEW t \in Tag, agg'[b].map[t] # None
        PROVE  agg'[b].map[t] \in Kept' /\ agg'[agg'[b].map[t]].parent = b
    <3>1. b \in live
      BY <1>5, <1>7, <1>11, <2>2
    <3>2. agg[b].map[t] # None => agg[b].map[t] \in live /\ agg[agg[b].map[t]].parent = b
      BY <1>3, <3>1, ControlFacts DEF Svlans
    <3>3. CASE b # port
      BY <1>16, <1>17, <1>19, <2>2, <3>1, <3>2, <3>3
    <3>4. CASE b = port
      <4>1. agg'[b].map[t] = IF t \in first..last THEN a ELSE agg[b].map[t]
        BY <1>8, <1>11, <1>12, <3>4
      <4>2. CASE t \in first..last
        BY <1>7, <1>11, <1>16, <3>4, <4>1, <4>2
      <4>3. CASE t \notin first..last
        BY <1>16, <1>17, <2>2, <3>2, <4>1, <4>3
      <4> QED BY <4>2, <4>3
    <3> QED BY <3>3, <3>4
  <2> QED BY <2>1, <2>2 DEF Svlans
<1>21. Goner'
  BY <1>15 DEF Goner
<1>22. live \subseteq live'
  BY <1>5
<1> QED BY <1>2, <1>3, <1>13, <1>15, <1>18, <1>20, <1>21, <1>22, RestartKeeps

\* The body of a delete of an S-VLAN, and the members' walk it starts.
LEMMA SvlanRemoved ==
  ASSUME TreeInv, Barrier, NEW p \in Port, NEW tag \in Tag, RemoveSvlan(p, tag),
         Controls', ctl'.todo = Members, ctl'.gone = agg[aggOf[p]].map[tag]
  PROVE  TreeInv'
<1> DEFINE port == aggOf[p]
           a == agg[port].map[tag]
<1>1. /\ port # None /\ a # None /\ UNCHANGED <<live, aggOf, sched, job>>
      /\ agg' = [agg EXCEPT ![port].map = [t \in Tag |-> IF @[t] = a THEN None ELSE @[t]]]
  BY Zenon DEF RemoveSvlan
<1>2. Quiet /\ ctl.gone = None /\ Kept = live /\ live \subseteq Agg /\ None \notin Agg
  BY ControlFacts
<1>3. port \in live /\ port \in Agg /\ agg[port].parent = None
  BY <1>1, <1>2, ControlFacts DEF Ports
<1>4. a \in live /\ a \in Agg /\ agg[a].parent = port
  BY <1>1, <1>2, <1>3, ControlFacts DEF Svlans
<1>5. ctl'.gone = a
  OBVIOUS
<1> HIDE DEF a, port
<1>6. PICK m : m = [t \in Tag |-> IF agg[port].map[t] = a THEN None ELSE agg[port].map[t]]
  OBVIOUS
<1>7. PICK u : u = [agg[port] EXCEPT !.map = m]
  OBVIOUS
<1>8. agg' = [agg EXCEPT ![port] = u]
  BY <1>1, <1>6, <1>7
<1>9. /\ Tier(u) /\ u.parent = None /\ u.rate = agg[port].rate /\ u.map = m
      /\ u.first = agg[port].first /\ u.last = agg[port].last
  <2>1. Tier(agg[port])
    BY <1>3, ControlFacts DEF Tables
  <2>2. m \in [Tag -> Agg \cup {None}]
    BY <1>6, <2>1 DEF Tier
  <2> QED BY <1>3, <1>7, <2>1, <2>2 DEF Tier, TierFields
<1>10. agg'[port] = u /\ \A b \in Agg : b # port => agg'[b] = agg[b]
  BY <1>3, <1>8, ControlFacts DEF Tables
<1>11. Tables'
  <2>1. agg' = [b \in Agg |-> agg'[b]]
    BY <1>8, ControlFacts DEF Tables
  <2> QED BY <1>1, <1>9, <1>10, <2>1, ControlFacts DEF Tables
<1>12. Kept' = live \ {a}
  BY <1>1, <1>5 DEF Kept
<1>13. \A b \in Agg : agg'[b].parent = agg[b].parent /\ agg'[b].rate = agg[b].rate
                       /\ agg'[b].first = agg[b].first /\ agg'[b].last = agg[b].last
  BY <1>3, <1>9, <1>10
<1>14. Ports'
  <2>1. \A x \in Port : aggOf[x] # None =>
          aggOf[x] \in live /\ aggOf[x] \in Agg /\ agg[aggOf[x]].parent = None
    BY <1>2, ControlFacts DEF Ports
  <2>2. \A x \in Port : aggOf[x] # None => aggOf[x] # a
    BY <1>2, <1>3, <1>4, <2>1
  <2>3. \A b \in live : agg[b].parent = None => \E x \in Port : aggOf[x] = b
    BY <1>2, ControlFacts DEF Ports
  <2>4. \A b \in Kept' : b \in live /\ agg'[b].parent = agg[b].parent
    BY <1>2, <1>12, <1>13
  <2>5. \A x, y \in Port : aggOf[x] = aggOf[y] /\ aggOf[x] # None => x = y
    BY ControlFacts DEF Ports
  <2>6. \A x \in Port : aggOf[x] # None => aggOf[x] \in Kept' /\ agg'[aggOf[x]].parent = None
    BY <1>12, <1>13, <2>1, <2>2
  <2> QED BY <1>1, <2>3, <2>4, <2>5, <2>6 DEF Ports
<1>15. \A b \in live : agg[b].parent # None =>
         /\ agg[b].parent \in live /\ agg[b].parent \in Agg /\ agg[b].parent # a
         /\ agg[agg[b].parent].parent = None /\ Svlan(b)
  BY <1>2, <1>3, <1>4, ControlFacts DEF Svlans, Svlan
<1>16. Svlans'
  <2>1. ASSUME NEW b \in Kept', agg'[b].parent # None PROVE Svlan(b)'
    <3>1. b \in live /\ b \in Agg /\ b # a /\ agg[b].parent # None
      BY <1>2, <1>12, <1>13, <2>1
    <3>2. PICK v : v = agg[b].parent
      OBVIOUS
    <3>3. v \in live /\ v \in Agg /\ v # a /\ agg[v].parent = None /\ Svlan(b)
      BY <1>15, <3>1, <3>2
    <3>4. PICK f, e : f = agg[b].first /\ e = agg[b].last
      OBVIOUS
    <3>5. agg[b].rate <= agg[v].rate /\ f \in Tag
          /\ {t \in Tag : agg[v].map[t] = b} = Tag \cap (f..e)
      BY <3>2, <3>3, <3>4 DEF Svlan
    <3>6. {t \in Tag : agg'[v].map[t] = b} = {t \in Tag : agg[v].map[t] = b}
      <4>1. CASE v # port
        BY <1>10, <3>3, <4>1
      <4>2. CASE v = port
        <5>1. agg'[v].map = m
          BY <1>9, <1>10, <4>2
        <5>2. \A t \in Tag : m[t] = b <=> agg[port].map[t] = b
          BY <1>2, <1>6, <3>1
        <5> QED BY <4>2, <5>1, <5>2
      <4> QED BY <4>1, <4>2
    <3>7. agg'[b].first = f /\ agg'[b].last = e /\ agg'[b].parent = v
          /\ agg'[b].rate <= agg'[v].rate /\ agg'[v].parent = None
      BY <1>13, <3>1, <3>2, <3>3, <3>4, <3>5
    <3> QED BY <1>12, <3>3, <3>5, <3>6, <3>7 DEF Svlan
  <2>2. ASSUME NEW b \in live, NEW t \in Tag, agg'[b].map[t] # None
        PROVE  agg'[b].map[t] \in Kept' /\ agg'[agg'[b].map[t]].parent = b
    <3>1. PICK c : c = agg'[b].map[t]
      OBVIOUS
    <3>2. c = agg[b].map[t] /\ c # a
      <4>1. CASE b = port
        BY <1>6, <1>9, <1>10, <2>2, <3>1, <4>1
      <4>2. CASE b # port
        <5>1. c = agg[b].map[t]
          BY <1>2, <1>10, <3>1, <4>2
        <5>2. agg[c].parent = b
          BY <2>2, <3>1, <5>1, ControlFacts DEF Svlans
        <5> QED BY <1>4, <4>2, <5>1, <5>2
      <4> QED BY <4>1, <4>2
    <3>3. c \in live /\ agg[c].parent = b
      BY <1>2, <2>2, <3>1, <3>2, ControlFacts DEF Svlans
    <3> QED BY <1>2, <1>12, <1>13, <3>1, <3>2, <3>3
  <2> QED BY <1>1, <2>1, <2>2 DEF Svlans
<1>17. Goner'
  <2>1. \A b \in live : agg'[b].parent # a
    BY <1>2, <1>4, <1>13, <1>15
  <2>2. agg'[a].parent = port /\ port \in Kept' /\ agg'[port].parent = None
    BY <1>1, <1>3, <1>4, <1>12, <1>13
  <2> QED BY <1>1, <1>4, <1>5, <2>1, <2>2 DEF Goner
<1>18. live \subseteq live' /\ UNCHANGED <<sched, job>>
  BY <1>1
<1> QED BY <1>2, <1>11, <1>14, <1>16, <1>17, <1>18, RestartKeeps

LEMMA PortRemoved ==
  ASSUME TreeInv, Barrier, NEW p \in Port, RemovePort(p),
         Controls', ctl'.todo = Members, ctl'.gone = aggOf[p]
  PROVE  TreeInv'
<1> DEFINE a == aggOf[p]
<1>1. /\ a # None /\ Children(a) = {} /\ UNCHANGED <<live, agg, sched, job>>
      /\ aggOf' = [aggOf EXCEPT ![p] = None]
  BY Zenon DEF RemovePort
<1>2. Quiet /\ ctl.gone = None /\ Kept = live /\ live \subseteq Agg /\ None \notin Agg
  BY ControlFacts
<1>3. a \in live /\ a \in Agg /\ agg[a].parent = None
  BY <1>1, <1>2, ControlFacts DEF Ports
<1>4. \A b \in live : agg[b].parent # a
  BY <1>1 DEF Children
<1>5. ctl'.gone = a /\ Kept' = live \ {a}
  BY <1>1 DEF Kept
<1>6. aggOf'[p] = None /\ \A x \in Port : x # p => aggOf'[x] = aggOf[x] /\ aggOf[x] # a
  BY <1>1, ControlFacts DEF Tables, Ports
<1>7. \A x \in Port : aggOf[x] = a => x = p
  BY <1>1, ControlFacts DEF Ports
<1> HIDE DEF a
<1>8. Tables'
  BY <1>1, ControlFacts DEF Tables
<1>9. Ports'
  <2>1. \A x \in Port : aggOf'[x] # None => aggOf'[x] \in Kept' /\ agg[aggOf'[x]].parent = None
    BY <1>2, <1>5, <1>6, ControlFacts DEF Ports
  <2>2. \A x, y \in Port : aggOf'[x] = aggOf'[y] /\ aggOf'[x] # None => x = y
    BY <1>6, ControlFacts DEF Ports
  <2>3. ASSUME NEW b \in Kept', agg[b].parent = None PROVE \E x \in Port : aggOf'[x] = b
    <3>1. b \in live /\ b # a
      BY <1>5
    <3>2. PICK x \in Port : aggOf[x] = b
      BY <1>2, <2>3, <3>1, ControlFacts DEF Ports
    <3>3. x # p
      BY <3>1, <3>2 DEF a
    <3> QED BY <1>6, <3>2, <3>3
  <2> QED BY <1>1, <2>1, <2>2, <2>3 DEF Ports
<1>10. Svlans'
  <2>1. ASSUME NEW b \in Kept', agg[b].parent # None PROVE Svlan(b)'
    <3>1. b \in live /\ Svlan(b) /\ agg[b].parent # a
      BY <1>2, <1>4, <1>5, <2>1, ControlFacts DEF Svlans
    <3> QED BY <1>1, <1>2, <1>5, <3>1 DEF Svlan
  <2>2. ASSUME NEW b \in live, NEW t \in Tag, agg[b].map[t] # None
        PROVE  agg[b].map[t] \in Kept' /\ agg[agg[b].map[t]].parent = b
    <3>1. agg[b].map[t] \in live /\ agg[agg[b].map[t]].parent = b
      BY <1>2, <2>2, ControlFacts DEF Svlans
    <3>2. agg[b].map[t] # a
      BY <1>2, <1>3, <3>1
    <3> QED BY <1>5, <3>1, <3>2
  <2> QED BY <1>1, <2>1, <2>2 DEF Svlans
<1>11. Goner'
  BY <1>1, <1>3, <1>4, <1>5 DEF Goner
<1>12. live \subseteq live' /\ UNCHANGED <<sched, job>>
  BY <1>1
<1> QED BY <1>2, <1>8, <1>9, <1>10, <1>11, <1>12, RestartKeeps

\* The slot a delete puts is a tier.
LEMMA NamedSlots ==
  ASSUME TreeInv, NEW p \in Port, aggOf[p] # None
  PROVE  aggOf[p] \in Agg /\ \A t \in Tag : agg[aggOf[p]].map[t] \in Agg \cup {None}
<1>1. aggOf[p] \in Agg
  BY ControlFacts DEF Tables
<1>2. Tier(agg[aggOf[p]])
  BY <1>1, ControlFacts DEF Tables
<1> QED BY <1>1, <1>2 DEF Tier

LEMMA DeleteSvlanKeeps ==
  ASSUME TreeInv, NEW p \in Port, NEW t \in Tag, DeleteSvlan(p, t)
  PROVE  TreeInv'
<1>1. MainFree /\ aggOf[p] # None /\ RemoveSvlan(p, t)
  BY DEF DeleteSvlan
<1>2. PICK a : a = agg[aggOf[p]].map[t]
  OBVIOUS
<1>3. a \in Agg \cup {None}
  BY <1>1, <1>2, NamedSlots
<1>4. ctl' = [ctl EXCEPT !.todo = Members, !.gone = a]
  BY <1>2, Zenon DEF DeleteSvlan, StartReparent
<1>5. Controls' /\ ctl'.todo = Members /\ ctl'.gone = a
  BY <1>3, <1>4, StartedOK, Zenon
<1>6. Barrier
  BY <1>1, ControlFacts
<1> QED BY <1>1, <1>2, <1>5, <1>6, SvlanRemoved

LEMMA DeletePortKeeps ==
  ASSUME TreeInv, NEW p \in Port, DeletePort(p)
  PROVE  TreeInv'
<1>1. MainFree /\ RemovePort(p) /\ aggOf[p] # None
  BY DEF DeletePort, RemovePort
<1>2. aggOf[p] \in Agg \cup {None}
  BY <1>1, NamedSlots
<1>3. ctl' = [ctl EXCEPT !.todo = Members, !.gone = aggOf[p]]
  BY DEF DeletePort, StartReparent
<1>4. Controls' /\ ctl'.todo = Members /\ ctl'.gone = aggOf[p]
  BY <1>2, <1>3, StartedOK, Zenon
<1>5. Barrier
  BY <1>1, ControlFacts
<1> QED BY <1>1, <1>4, <1>5, PortRemoved

LEMMA CascadeSvlanKeeps ==
  ASSUME TreeInv, CascadeSvlan
  PROVE  TreeInv'
<1>1. PICK t \in ctl.tags : RemoveSvlan(ctl.cascade, t)
        /\ Reattach(agg[aggOf[ctl.cascade]].map[t], ctl.tags \ {t})
  BY DEF CascadeSvlan
<1>2. PICK p : p = ctl.cascade
  OBVIOUS
<1>3. Barrier /\ p \in Port /\ t \in Tag
  BY <1>1, <1>2, ControlFacts DEF CascadeSvlan, Controls
<1>4. RemoveSvlan(p, t)
  BY <1>1, <1>2
<1>5. aggOf[p] # None
  BY <1>4, Zenon DEF RemoveSvlan
<1>6. PICK a : a = agg[aggOf[p]].map[t]
  OBVIOUS
<1>7. a \in Agg \cup {None}
  BY <1>3, <1>5, <1>6, NamedSlots
<1>8. ctl' = [ctl EXCEPT !.todo = Members, !.gone = a, !.tags = ctl.tags \ {t}]
  BY <1>1, <1>2, <1>6, Zenon DEF Reattach
<1>9. Members \in SUBSET Sched
  BY DEF Members
<1>10. Controls' /\ ctl'.todo = Members /\ ctl'.gone = a
  BY <1>7, <1>8, <1>9, ControlFacts DEF Controls
<1> QED BY <1>3, <1>4, <1>6, <1>10, SvlanRemoved

LEMMA CascadePortKeeps ==
  ASSUME TreeInv, CascadePort
  PROVE  TreeInv'
<1>1. PICK p : p = ctl.cascade
  OBVIOUS
<1>2. Barrier /\ p \in Port /\ RemovePort(p) /\ aggOf[p] # None
  BY <1>1, ControlFacts DEF CascadePort, Controls, RemovePort
<1>3. PICK a : a = aggOf[p]
  OBVIOUS
<1>4. a \in Agg
  BY <1>2, <1>3, NamedSlots
<1>5. ctl' = [NoCtl EXCEPT !.todo = Members, !.gone = a]
  BY <1>1, <1>3, Zenon DEF CascadePort
<1>6. Members \in SUBSET Sched
  BY DEF Members
<1>7. ctl' = [todo |-> Members, gone |-> a, cascade |-> None, tags |-> {}]
  BY <1>5 DEF NoCtl
<1>8. Controls' /\ ctl'.todo = Members /\ ctl'.gone = a
  BY <1>4, <1>6, <1>7 DEF Controls
<1> QED BY <1>2, <1>3, <1>8, PortRemoved

LEMMA UpdateKeeps ==
  ASSUME TreeInv, NEW p \in Port, NEW tag \in Tag \cup {None}, NEW r \in Rates \cup {0},
         NEW w \in Weights \cup {0}, NEW n \in Limits \cup {0}, Update(p, tag, r, w, n)
  PROVE  TreeInv'
<1> DEFINE port == aggOf[p]
           a == IF tag = None THEN port ELSE agg[port].map[tag]
           old == agg[a]
           new == [old EXCEPT !.rate = IF r = 0 THEN @ ELSE r,
                              !.weight = IF w = 0 THEN @ ELSE w,
                              !.limit = IF n = 0 THEN @ ELSE n]
           ew == EffectiveWeight(new.rate, new.weight)
<1>1. /\ MainFree /\ port # None /\ a # None /\ RateAllowed(a, r)
      /\ UNCHANGED <<live, aggOf, sched, job, ctl>>
  BY Zenon DEF Update
<1>2. agg' = [b \in Agg |->
        IF b = a THEN [new EXCEPT !.eweight = ew]
        ELSE IF b = old.parent /\ CountedAbove(a)
          THEN [agg[b] EXCEPT !.activeWeight = @ + ew - old.eweight]
        ELSE agg[b]]
  BY Zenon DEF Update
<1> HIDE DEF ew, new, old, a, port
<1>3. Quiet /\ Kept = live /\ live \subseteq Agg /\ None \notin Agg
  BY <1>1, ControlFacts
<1>4. port \in live
  BY <1>1, <1>3, ControlFacts DEF Ports, port
<1>5. a \in live
  <2>1. CASE tag = None
    BY <1>4, <2>1 DEF a
  <2>2. CASE tag # None
    <3>1. tag \in Tag /\ a = agg[port].map[tag]
      BY <2>2 DEF a
    <3> QED BY <1>1, <1>3, <1>4, <3>1, ControlFacts DEF Svlans
  <2> QED BY <2>1, <2>2
<1>6. r \in Nat
  BY TreeAssumption
<1>7. PICK q : q = [new EXCEPT !.eweight = ew]
  OBVIOUS
<1>8. PICK v : v = [b \in Agg |-> agg[b].activeWeight + ew - old.eweight]
  OBVIOUS
<1>9. agg'[a] = q /\ \A b \in Agg : b # a =>
        agg'[b] = agg[b] \/ agg'[b] = [agg[b] EXCEPT !.activeWeight = v[b]]
  <2>1. a \in Agg
    BY <1>3, <1>5
  <2> QED BY <1>2, <1>7, <1>8, <2>1
<1>10. agg' = [b \in Agg |-> agg'[b]]
  BY <1>2
<1>11. /\ Tier(q) /\ Linked(agg[a], q)
       /\ q.rate = IF r = 0 THEN agg[a].rate ELSE r
  <2>1. Tier(agg[a])
    BY <1>3, <1>5, ControlFacts DEF Tables
  <2> QED BY <1>6, <1>7, <2>1 DEF Tier, Linked, TierFields, new, old
<1>12. ASSUME NEW b \in Agg, b # a
       PROVE  Tier(agg'[b]) /\ Linked(agg[b], agg'[b]) /\ agg'[b].rate = agg[b].rate
  <2>1. Tier(agg[b]) /\ Same(agg[b], agg[b])
    BY ControlFacts DEF Tables, Same
  <2>2. Tier(agg'[b]) /\ Same(agg[b], agg'[b])
    BY <1>9, <1>12, <2>1, TierTouched, Zenon
  <2> QED BY <2>2 DEF Same, Linked
<1>13. SameLinks(agg, agg')
  <2>1. \A b \in Agg : Tier(agg'[b]) /\ Linked(agg[b], agg'[b])
    BY <1>9, <1>11, <1>12
  <2> QED BY <1>10, <2>1 DEF SameLinks, Tiers
<1>14. Rated(agg')
  <2>1. ASSUME NEW b \in live, agg[b].parent # None
        PROVE  agg'[b].rate <= agg'[agg[b].parent].rate
    <3>1. PICK u : u = agg[b].parent
      OBVIOUS
    <3>2. u \in live /\ agg[u].parent = None /\ agg[b].rate <= agg[u].rate
      BY <1>3, <2>1, <3>1, ControlFacts DEF Svlans, Svlan
    <3>3. b # u
      BY <2>1, <3>2
    <3>4. CASE b = a
      <4>1. r # 0 => r <= agg[u].rate
        BY <1>1, <2>1, <3>1, <3>4 DEF RateAllowed
      <4>2. agg'[u].rate = agg[u].rate
        BY <1>3, <1>12, <3>2, <3>3, <3>4
      <4> QED BY <1>9, <1>11, <3>1, <3>2, <3>4, <4>1, <4>2
    <3>5. CASE u = a
      <4>1. r # 0 => agg[b].rate <= r
        BY <1>1, <2>1, <3>1, <3>2, <3>5 DEF RateAllowed, Children
      <4>2. agg'[b].rate = agg[b].rate
        BY <1>3, <1>12, <3>3, <3>5
      <4> QED BY <1>9, <1>11, <3>1, <3>2, <3>5, <4>1, <4>2
    <3>6. CASE b # a /\ u # a
      BY <1>3, <1>12, <3>1, <3>2, <3>6
    <3> QED BY <3>4, <3>5, <3>6
  <2> QED BY <1>3, <2>1 DEF Rated
<1>15. Scheds' /\ Controls' /\ \A s \in Sched : Rehung(s)
  BY <1>1, ControlFacts DEF Scheds, Controls, Rehung
<1> QED BY <1>1, <1>3, <1>13, <1>14, <1>15, RehungKeeps

LEMMA ControlKeeps ==
  ASSUME TreeInv, Control
  PROVE  TreeInv'
<1>1. ASSUME \E s \in Sched, r \in Rates, w \in Weights : Enable(s, r, w) PROVE TreeInv'
  BY <1>1, EnableKeeps
<1>2. ASSUME \E s \in Sched : Disable(s) \/ ReparentOne(s) PROVE TreeInv'
  BY <1>2, DisableKeeps, ReparentOneKeeps
<1>3. ASSUME \E p \in Port, r \in Rates, w \in Weights, n \in Limits : CreatePort(p, r, w, n)
      PROVE  TreeInv'
  BY <1>3, CreatePortKeeps
<1>4. ASSUME \E p \in Port, f \in Tag, t \in Tag, r \in Rates, w \in Weights, n \in Limits :
               CreateSvlan(p, f, t, r, w, n)
      PROVE  TreeInv'
  BY <1>4, CreateSvlanKeeps
<1>5. ASSUME \E p \in Port, t \in Tag : DeleteSvlan(p, t) PROVE TreeInv'
  BY <1>5, DeleteSvlanKeeps
<1>6. ASSUME \E p \in Port : DeletePort(p) \/ InterfaceDel(p) PROVE TreeInv'
  BY <1>6, DeletePortKeeps, InterfaceDelKeeps
<1>7. ASSUME \E p \in Port, t \in Tag \cup {None}, r \in Rates \cup {0},
               w \in Weights \cup {0}, n \in Limits \cup {0} : Update(p, t, r, w, n)
      PROVE  TreeInv'
  BY <1>7, UpdateKeeps
<1> QED BY <1>1, <1>2, <1>3, <1>4, <1>5, <1>6, <1>7, PutAggKeeps, CascadeSvlanKeeps,
           CascadePortKeeps, Zenon DEF Control

LEMMA InitTree ==
  ASSUME Init
  PROVE  TreeInv
<1>1. Tier(FreeAgg)
  BY TreeAssumption DEF FreeAgg, NewAgg, Tier, TierFields
<1>2. Tables
  BY <1>1 DEF Init, Tables
<1>3. Scheds
  BY DEF Init, Scheds, Disabled
<1>4. Controls
  BY DEF Init, Controls, NoCtl
<1>5. Jobs
  BY DEF Init, Jobs, Idle
<1>6. Ports /\ Svlans
  BY DEF Init, Ports, Svlans, Kept
<1>7. Goner
  BY DEF Init, Goner, NoCtl
<1>8. Attached
  BY DEF Init, Attached, Disabled, NoCtl
<1> QED BY <1>2, <1>3, <1>4, <1>5, <1>6, <1>7, <1>8 DEF TreeInv, Shapes

LEMMA StepTree ==
  ASSUME TreeInv, [Next]_vars
  PROVE  TreeInv'
<1>1. CASE Worker
  BY <1>1, WorkerKeeps
<1>2. CASE Control
  BY <1>2, ControlKeeps
<1>3. CASE UNCHANGED vars
  <2>1. SameTree(agg, agg') /\ Still /\ Scheds'
    BY <1>3, SameTreeNone, ControlFacts DEF vars, Still, Scheds
  <2>2. Jobs'
    BY <1>3, ControlFacts DEF vars, Jobs
  <2> QED BY <2>1, <2>2, StillKeeps
<1> QED BY <1>1, <1>2, <1>3 DEF Next
-----------------------------------------------------------------------------
(* The theorems.                                                            *)

LEMMA TreeIsWellFormed ==
  ASSUME TreeInv
  PROVE  TreeWellFormed
<1>1. TypeOK
  <2>1. \A a \in Agg : agg[a].parent \in Agg \cup {None} /\ agg[a].map \in [Tag -> Agg \cup {None}]
    BY ControlFacts DEF Tables, Tier
  <2>2. live \subseteq Agg /\ aggOf \in [Port -> Agg \cup {None}]
    BY ControlFacts DEF Tables
  <2>3. \A s \in Sched : sched[s].attach \in Agg \cup {None} /\ sched[s].queue \in [Lens -> Nat]
    BY ControlFacts DEF Scheds
  <2>4. \A s \in Sched : job[s].at \in Agg \cup {None}
    BY ControlFacts DEF Jobs
  <2>5. ctl.todo \subseteq Sched /\ ctl.gone \in Agg \cup {None}
    BY ControlFacts DEF Controls
  <2> QED BY <2>1, <2>2, <2>3, <2>4, <2>5 DEF TypeOK
<1>2. \A a \in live : agg[a].parent # None => agg[a].parent \in live
  BY ControlFacts DEF Svlans, Svlan, Goner, Kept
<1>3. AttachmentFresh
  <2>1. ASSUME NEW s \in Sched, sched[s].on, s \notin ctl.todo
        PROVE  /\ sched[s].attach = Resolve(s, aggOf, agg)
               /\ sched[s].attach # ctl.gone \/ sched[s].attach = None
    <3>1. sched[s].attach = Resolve(s, aggOf, agg)
      BY <2>1, ControlFacts DEF Attached
    <3>2. Resolve(s, aggOf, agg) \in Kept \cup {None}
      BY ResolveKept, ControlFacts
    <3> QED BY <3>1, <3>2 DEF Kept
  <2>2. ASSUME NEW s \in Sched PROVE ChainOf(sched[s].attach) \subseteq live
    <3>1. sched[s].attach # None => sched[s].attach \in live
      BY ControlFacts DEF Attached
    <3> QED BY <1>2, <3>1 DEF ChainOf
  <2> QED BY <2>1, <2>2 DEF AttachmentFresh
<1>4. ASSUME NEW a \in live \ {ctl.gone}, agg[a].parent = None
      PROVE  \E p \in Port : aggOf[p] = a
  BY <1>4, ControlFacts DEF Ports, Kept
<1>5. ASSUME NEW a \in live \ {ctl.gone}, agg[a].parent # None
      PROVE  /\ agg[a].parent \in live /\ agg[a].parent # ctl.gone
             /\ agg[agg[a].parent].parent = None
             /\ agg[a].rate <= agg[agg[a].parent].rate
             /\ {t \in Tag : agg[agg[a].parent].map[t] = a} =
                  Tag \cap (agg[a].first..agg[a].last)
  BY <1>5, ControlFacts DEF Svlans, Svlan, Kept
<1> QED BY <1>1, <1>3, <1>4, <1>5, Zenon DEF TreeWellFormed

\* TreeInv holds in every reachable state (cake_sched_resolve_attachment,
\* cake_aggregate_create, _delete, _update, cake_svlan_aggregate_create,
\* _delete, cake_agg_reparent_all, cake_sw_interface_add_del).
THEOREM TreeInvariant == Spec => []TreeInv
<1>1. Init => TreeInv
  BY InitTree
<1>2. TreeInv /\ [Next]_vars => TreeInv'
  BY StepTree
<1> QED BY <1>1, <1>2, PTL DEF Spec

\* The tree is well formed whenever anything can look at it: S-VLANs are
\* disjoint and named for all their tags, none is faster than its port, and
\* every scheduler hangs where a fresh look would hang it, on a tier that is in
\* use, for any number of tiers and schedulers and however deletes cascade
\* (cake_sched_resolve_attachment, cake_agg_reparent_all).
THEOREM TreeAlwaysWellFormed == Spec => []TreeWellFormed
<1>1. TreeInv => TreeWellFormed
  BY TreeIsWellFormed
<1> QED BY <1>1, TreeInvariant, PTL
-----------------------------------------------------------------------------
(* The charge.  What the schedulers hold at a tier is a sum over all of     *)
(* them; a step moves the tier's count by as much as it moves what one of   *)
(* them holds.                                                              *)

\* A job that moves bytes is at a tier of the chain; what is to be queued is a
\* packet; what the port refused is let go where the chain starts.
Placed(j, own) ==
  /\ j.amt \in Nat
  /\ j.pc \in {"filter", "add", "admitted"} => j.amt \in Lens
  /\ j.pc \in {"filter", "add", "undo", "release"} => j.at \in ChainOf(own)
  /\ j.pc = "unwind" => j.at = own

JobsPlaced == \A s \in Sched : Placed(job[s], sched[s].attach)

\* Every slot's charge, a free one's too, is what the schedulers hold there.
HeldAt(a) == [s \in Sched |-> Held(s, a)]
Charges == \A a \in Agg : agg[a].usage = SumFunctionOnSet(HeldAt(a), Sched)

\* A packet admitted at its first tier that is on its way to the one above.
Waiting(j, own) == j.pc \in {"filter", "add"} /\ j.at # own

\* What a job was admitted with at tier a, whether or not above it.
Passed(j, own, a) ==
  IF j.pc = "admitted" \/ (Waiting(j, own) /\ a = own) THEN j.amt ELSE 0

Firm(s, a) ==
  IF a \in ChainOf(sched[s].attach)
  THEN Queued(s) + Passed(job[s], sched[s].attach, a) ELSE 0
FirmAt(a) == [s \in Sched |-> Firm(s, a)]

\* While a packet waits for the tier above, what was admitted where its
\* scheduler hangs is within the limit there.
Within ==
  \A s \in Sched : Waiting(job[s], sched[s].attach) =>
    SumFunctionOnSet(FirmAt(sched[s].attach), Sched) <= agg[sched[s].attach].limit

Limited == \A a \in Agg : agg[a].limit \in Nat

ChargeInv == JobsPlaced /\ Charges /\ Within /\ Limited

LEMMA Finite == IsFiniteSet(Lens) /\ IsFiniteSet(Sched)
  BY TreeAssumption

\* The bytes of a queue that a packet joins, or packets leave.
LEMMA LensTimes ==
  ASSUME NEW l \in Lens, NEW n \in Nat
  PROVE  l * n \in Nat /\ l \in Nat
<1>1. l \in Nat
  BY TreeAssumption
<1> QED BY <1>1

LEMMA BytesNat ==
  ASSUME NEW q \in [Lens -> Nat]
  PROVE  Bytes(q) \in Nat
<1> DEFINE f == [l \in Lens |-> l * q[l]]
<1>1. \A l \in Lens : f[l] \in Nat
  BY LensTimes
<1> HIDE DEF f
<1>2. SumFunctionOnSet(f, Lens) \in Nat
  BY <1>1, SumNat, Finite
<1> QED BY <1>2 DEF Bytes, f

LEMMA BytesNone == Bytes([l \in Lens |-> 0]) = 0
<1> DEFINE f == [l \in Lens |-> l * [k \in Lens |-> 0][l]]
<1>1. \A l \in Lens : f[l] = 0
  BY TreeAssumption
<1> HIDE DEF f
<1>2. SumFunctionOnSet(f, Lens) = 0
  BY <1>1, SumZero, Finite
<1> QED BY <1>2 DEF Bytes, f

LEMMA BytesJoin ==
  ASSUME NEW q \in [Lens -> Nat], NEW l \in Lens, NEW r, r = [q EXCEPT ![l] = @ + 1]
  PROVE  Bytes(r) = Bytes(q) + l
<1> DEFINE f == [k \in Lens |-> k * q[k]]
           g == [k \in Lens |-> k * r[k]]
<1>1. l \in Nat /\ q[l] \in Nat /\ r[l] = q[l] + 1 /\ r \in [Lens -> Nat]
  BY TreeAssumption
<1>2. g[l] = f[l] + l
  BY <1>1
<1>3. \A k \in Lens : f[k] \in Nat /\ g[k] \in Nat
  BY <1>1, LensTimes
<1>4. \A k \in Lens \ {l} : f[k] = g[k]
  OBVIOUS
<1> HIDE DEF f, g
<1>5. \A k \in Lens : f[k] \in Int /\ g[k] \in Int
  BY <1>3
<1>6. /\ SumFunctionOnSet(g, Lens) = SumFunctionOnSet(f, Lens) + (g[l] - f[l])
      /\ SumFunctionOnSet(f, Lens) \in Int
  BY <1>4, <1>5, SumChange, Finite
<1>7. SumFunctionOnSet(g, Lens) = SumFunctionOnSet(f, Lens) + l
  BY <1>1, <1>2, <1>5, <1>6
<1> QED BY <1>7 DEF Bytes, f, g

LEMMA BytesLeave ==
  ASSUME NEW q \in [Lens -> Nat], NEW out, NEW r, r = [l \in Lens |-> q[l] - out[l]],
         \A l \in Lens : out[l] \in Nat /\ out[l] <= q[l]
  PROVE  /\ Bytes(out) \in Nat /\ Bytes(r) \in Nat
         /\ Bytes(q) = Bytes(r) + Bytes(out)
<1> DEFINE f == [l \in Lens |-> l * r[l]]
           g == [l \in Lens |-> l * out[l]]
           h == [l \in Lens |-> l * q[l]]
<1>1. ASSUME NEW l \in Lens
      PROVE  f[l] \in Nat /\ g[l] \in Nat /\ h[l] = f[l] + g[l]
  <2>1. l \in Nat /\ q[l] \in Nat /\ out[l] \in Nat /\ r[l] \in Nat /\ q[l] = r[l] + out[l]
    BY TreeAssumption
  <2>2. \A x, y, z \in Nat : x * (y + z) = x * y + x * z /\ x * y \in Nat
    OBVIOUS
  <2> QED BY <2>1, <2>2
<1> HIDE DEF f, g, h
<1>2. SumFunctionOnSet(f, Lens) \in Nat /\ SumFunctionOnSet(g, Lens) \in Nat
  BY <1>1, SumNat, Finite
<1>3. SumFunctionOnSet(h, Lens) = SumFunctionOnSet(f, Lens) + SumFunctionOnSet(g, Lens)
  <2>1. \A l \in Lens : f[l] \in Int /\ g[l] \in Int /\ h[l] = f[l] + g[l]
    BY <1>1
  <2> QED BY <2>1, SumAdd, Finite
<1> QED BY <1>2, <1>3 DEF Bytes, f, g, h

\* The tiers of a scheduler, one or two.
LEMMA ChainFacts ==
  ASSUME TreeInv, NEW s \in Sched, NEW own, own = sched[s].attach
  PROVE  /\ own \in Agg \cup {None} /\ None \notin Agg
         /\ own = None => ChainOf(own) = {}
         /\ own # None =>
              own \in live /\ own \in ChainOf(own) /\ agg[own].parent # own
         /\ ChainOf(own) \subseteq live /\ live \subseteq Agg
         /\ \A a \in ChainOf(own) :
              a # own => a = agg[own].parent /\ agg[a].parent = None
         /\ own # None /\ agg[own].parent = None => ChainOf(own) = {own}
         /\ own # None /\ agg[own].parent # None =>
              ChainOf(own) = {own, agg[own].parent}
<1>1. own # None => own \in live
  BY ControlFacts DEF Attached
<1>2. own # None /\ agg[own].parent # None =>
        agg[own].parent \in live /\ agg[agg[own].parent].parent = None
  <2>1. CASE own = ctl.gone
    BY <1>1, <2>1, ControlFacts DEF Goner, Kept
  <2>2. CASE own # ctl.gone
    BY <1>1, <2>2, ControlFacts DEF Svlans, Svlan, Kept
  <2> QED BY <2>1, <2>2
<1>3. live \subseteq Agg /\ None \notin Agg
  BY ControlFacts
<1> QED BY <1>1, <1>2, <1>3 DEF ChainOf

\* What a job has charged, by the step it is at.
LEMMA UnderwayIs ==
  ASSUME NEW j, NEW own, NEW a
  PROVE  /\ j.pc \in {"filter", "add"} =>
              Underway(j, own, a) = IF j.at # own /\ a = own THEN j.amt ELSE 0
         /\ j.pc = "undo" => Underway(j, own, a) = IF a = j.at \/ a = own THEN j.amt ELSE 0
         /\ j.pc = "unwind" => Underway(j, own, a) = IF a = own THEN j.amt ELSE 0
         /\ j.pc = "admitted" => Underway(j, own, a) = j.amt
         /\ j.pc = "release" =>
              Underway(j, own, a) = IF a = own /\ j.at # own THEN 0 ELSE j.amt
         /\ j.pc \notin {"filter", "add", "undo", "unwind", "admitted", "release"} =>
              Underway(j, own, a) = 0
BY DEF Underway

LEMMA PassedLess ==
  ASSUME NEW j, NEW own, NEW a, j.amt \in Nat
  PROVE  /\ Underway(j, own, a) \in Nat /\ Passed(j, own, a) \in Nat
         /\ Passed(j, own, a) <= Underway(j, own, a)
BY UnderwayIs DEF Passed, Waiting

\* What is held and admitted are numbers.
HeldKnown(s, a) ==
  Scheds /\ job[s].amt \in Nat =>
    /\ Held(s, a) \in Nat /\ Firm(s, a) \in Nat /\ Firm(s, a) <= Held(s, a)
    /\ Queued(s) \in Nat

LEMMA HeldTyped ==
  ASSUME NEW s \in Sched, NEW a
  PROVE  HeldKnown(s, a)
<1>1. SUFFICES ASSUME Scheds, job[s].amt \in Nat
               PROVE  /\ Held(s, a) \in Nat /\ Firm(s, a) \in Nat /\ Firm(s, a) <= Held(s, a)
                      /\ Queued(s) \in Nat
  BY DEF HeldKnown
<1>2. Queued(s) \in Nat
  BY <1>1, BytesNat DEF Scheds, Queued
<1>3. PICK u \in Nat, p \in Nat :
        /\ u = Underway(job[s], sched[s].attach, a) /\ p = Passed(job[s], sched[s].attach, a)
        /\ p <= u
  BY <1>1, PassedLess
<1> QED BY <1>2, <1>3 DEF Held, Firm

LEMMA HeldTypedNext ==
  ASSUME NEW s \in Sched, NEW a
  PROVE  HeldKnown(s, a)'
<1>1. HeldKnown(s, a)
  BY HeldTyped
<1> QED BY <1>1, PTL

\* What is admitted is charged.
FirmKnown(a) ==
  Scheds /\ JobsPlaced /\ Charges =>
    /\ SumFunctionOnSet(FirmAt(a), Sched) \in Int /\ agg[a].usage \in Nat
    /\ SumFunctionOnSet(FirmAt(a), Sched) <= agg[a].usage

LEMMA FirmCharged ==
  ASSUME NEW a \in Agg
  PROVE  FirmKnown(a)
<1>1. SUFFICES ASSUME Scheds, JobsPlaced, Charges
               PROVE  /\ SumFunctionOnSet(FirmAt(a), Sched) \in Int /\ agg[a].usage \in Nat
                      /\ SumFunctionOnSet(FirmAt(a), Sched) <= agg[a].usage
  BY DEF FirmKnown
<1>2. PICK f, g : f = FirmAt(a) /\ g = HeldAt(a)
  OBVIOUS
<1>3. \A s \in Sched : f[s] \in Nat /\ g[s] \in Nat /\ f[s] <= g[s]
  <2>1. ASSUME NEW s \in Sched PROVE f[s] \in Nat /\ g[s] \in Nat /\ f[s] <= g[s]
    <3>1. job[s].amt \in Nat
      BY <1>1 DEF JobsPlaced, Placed
    <3>2. Held(s, a) \in Nat /\ Firm(s, a) \in Nat /\ Firm(s, a) <= Held(s, a)
      BY <1>1, <3>1, HeldTyped DEF HeldKnown
    <3> QED BY <1>2, <3>2 DEF FirmAt, HeldAt
  <2> QED BY <2>1
<1>4. \A s \in Sched : f[s] \in Int /\ g[s] \in Int /\ f[s] <= g[s]
  BY <1>3
<1>5. SumFunctionOnSet(f, Sched) <= SumFunctionOnSet(g, Sched)
  BY <1>4, SumNoMore, Finite
<1>6. SumFunctionOnSet(f, Sched) \in Int /\ SumFunctionOnSet(g, Sched) \in Nat
  BY <1>3, <1>4, SumInt, SumNat, Finite
<1> QED BY <1>1, <1>2, <1>5, <1>6 DEF Charges

LEMMA FirmChargedNext ==
  ASSUME NEW a \in Agg
  PROVE  FirmKnown(a)'
<1>1. FirmKnown(a)
  BY FirmCharged
<1> QED BY <1>1, PTL

LEMMA ChainStays ==
  ASSUME \A a \in Agg : agg'[a].parent = agg[a].parent
  PROVE  \A x \in Agg \cup {None} : ChainOf(x)' = ChainOf(x)
BY DEF ChainOf

LEMMA NextHeld ==
  ASSUME NEW s \in Sched, NEW x, x = sched'[s].attach, NEW j, j = job'[s], NEW a
  PROVE  /\ Held(s, a)' = IF a \in ChainOf(x)' THEN Queued(s)' + Underway(j, x, a) ELSE 0
         /\ Firm(s, a)' = IF a \in ChainOf(x)' THEN Queued(s)' + Passed(j, x, a) ELSE 0
<1>1. (a \in ChainOf(sched[s].attach))' <=> a \in ChainOf(x)'
  BY DEF ChainOf
<1>2. Underway(job[s], sched[s].attach, a)' = Underway(j, x, a)
  BY DEF Underway
<1>3. Passed(job[s], sched[s].attach, a)' = Passed(j, x, a)
  BY DEF Passed, Waiting
<1> QED BY <1>1, <1>2, <1>3 DEF Held, Firm

\* A step of s moves its job on to j and its queue by d bytes.  Each tier of
\* its chain is moved by what that makes of what s has there; and what is newly
\* admitted at a tier fits there.
Charged(s, own, j, d) ==
  /\ own = sched[s].attach /\ sched'[s].attach = own
  /\ job' = [job EXCEPT ![s] = j] /\ Placed(j, own)
  /\ Queued(s)' = Queued(s) + d
  /\ \A r \in Sched \ {s} : sched'[r] = sched[r]
  /\ \A a \in Agg : agg'[a].parent = agg[a].parent /\ agg'[a].limit = agg[a].limit
  /\ \A a \in Agg : agg'[a].usage = agg[a].usage +
       (IF a \in ChainOf(own) THEN d + (Underway(j, own, a) - Underway(job[s], own, a)) ELSE 0)
  /\ \A a \in ChainOf(own) : \/ d + Passed(j, own, a) <= Passed(job[s], own, a)
                             \/ agg'[a].usage <= agg[a].limit
  /\ Waiting(j, own) => Waiting(job[s], own) \/ agg'[own].usage <= agg[own].limit

LEMMA JobCharge ==
  ASSUME TreeInv, TreeInv', ChargeInv,
         NEW s \in Sched, NEW own, NEW j, NEW d \in Int, Charged(s, own, j, d)
  PROVE  ChargeInv'
<1> USE DEF Charged
<1>1. \A x \in Agg \cup {None} : ChainOf(x)' = ChainOf(x)
  BY ChainStays
<1>2. job'[s] = j /\ \A r \in Sched \ {s} : job'[r] = job[r]
  BY ControlFacts DEF Jobs
<1>3. /\ \A r \in Sched : sched[r].attach \in Agg \cup {None} /\ sched'[r].attach = sched[r].attach
      /\ Scheds /\ Scheds' /\ Jobs'
  <2>1. \A r \in Sched : sched[r].attach \in Agg \cup {None}
    BY ControlFacts DEF Scheds
  <2> QED BY <2>1 DEF TreeInv, Shapes
<1>4. JobsPlaced'
  <2>1. ASSUME NEW r \in Sched PROVE Placed(job[r], sched[r].attach)'
    <3>1. PICK k, x : k = job'[r] /\ x = sched[r].attach /\ x = sched'[r].attach
      BY <1>3
    <3>2. Placed(k, x) /\ x \in Agg \cup {None}
      BY <1>2, <1>3, <3>1 DEF ChargeInv, JobsPlaced
    <3> QED BY <1>1, <3>1, <3>2 DEF Placed
  <2> QED BY <2>1 DEF JobsPlaced
<1>5. \A r \in Sched : job[r].amt \in Nat /\ job'[r].amt \in Nat
  BY <1>4 DEF JobsPlaced, Placed, ChargeInv
<1>6. \A r \in Sched, a \in Agg :
        /\ Held(r, a) \in Nat /\ Firm(r, a) \in Nat /\ Held(r, a)' \in Nat /\ Firm(r, a)' \in Nat
  BY <1>3, <1>5, HeldTyped, HeldTypedNext DEF HeldKnown
<1>7. \A r \in Sched \ {s}, a \in Agg : Held(r, a)' = Held(r, a) /\ Firm(r, a)' = Firm(r, a)
  <2>1. ASSUME NEW r \in Sched \ {s}, NEW a \in Agg
        PROVE  Held(r, a)' = Held(r, a) /\ Firm(r, a)' = Firm(r, a)
    <3>1. sched'[r] = sched[r] /\ job'[r] = job[r] /\ sched[r].attach \in Agg \cup {None}
      BY <1>2, <1>3
    <3>2. PICK x : x = sched[r].attach /\ x = sched'[r].attach /\ ChainOf(x)' = ChainOf(x)
      BY <1>1, <3>1
    <3>3. Queued(r)' = Queued(r)
      BY <3>1 DEF Queued, Bytes
    <3>4. /\ Held(r, a) = IF a \in ChainOf(x) THEN Queued(r) + Underway(job[r], x, a) ELSE 0
          /\ Firm(r, a) = IF a \in ChainOf(x) THEN Queued(r) + Passed(job[r], x, a) ELSE 0
      BY <3>2 DEF Held, Firm
    <3>5. /\ Held(r, a)' = IF a \in ChainOf(x)' THEN Queued(r)' + Underway(job'[r], x, a) ELSE 0
          /\ Firm(r, a)' = IF a \in ChainOf(x)' THEN Queued(r)' + Passed(job'[r], x, a) ELSE 0
      BY <3>2, NextHeld
    <3> QED BY <3>1, <3>2, <3>3, <3>4, <3>5
  <2> QED BY <2>1
<1>8. ASSUME NEW a \in Agg
      PROVE  /\ agg'[a].usage = agg[a].usage + (Held(s, a)' - Held(s, a))
             /\ Firm(s, a)' <= Firm(s, a) \/ agg'[a].usage <= agg[a].limit
  <2>1. own \in Agg \cup {None} /\ ChainOf(own)' = ChainOf(own)
    BY <1>1, <1>3
  <2>2. /\ Held(s, a) = IF a \in ChainOf(own) THEN Queued(s) + Underway(job[s], own, a) ELSE 0
        /\ Firm(s, a) = IF a \in ChainOf(own) THEN Queued(s) + Passed(job[s], own, a) ELSE 0
    BY DEF Held, Firm
  <2>3. /\ Held(s, a)' = IF a \in ChainOf(own)' THEN Queued(s)' + Underway(j, own, a) ELSE 0
        /\ Firm(s, a)' = IF a \in ChainOf(own)' THEN Queued(s)' + Passed(j, own, a) ELSE 0
    BY <1>2, NextHeld
  <2>4. PICK q, u, v, p, f :
          /\ q \in Nat /\ q = Queued(s) /\ u = Underway(job[s], own, a) /\ v = Underway(j, own, a)
          /\ p = Passed(job[s], own, a) /\ f = Passed(j, own, a)
    BY <1>3, <1>5, HeldTyped DEF HeldKnown
  <2>5. q \in Nat /\ u \in Nat /\ v \in Nat /\ p \in Nat /\ f \in Nat
    BY <1>2, <1>5, <2>4, PassedLess
  <2>6. agg[a].usage \in Nat
    BY <1>3, FirmCharged DEF FirmKnown, ChargeInv
  <2>7. agg'[a].usage = agg[a].usage + (IF a \in ChainOf(own) THEN d + (v - u) ELSE 0)
    BY <2>4
  <2>8. a \in ChainOf(own) => d + f <= p \/ agg'[a].usage <= agg[a].limit
    BY <2>4
  <2>9. CASE a \in ChainOf(own)
    <3>1. /\ Held(s, a) = q + u /\ Firm(s, a) = q + p
          /\ Held(s, a)' = q + d + v /\ Firm(s, a)' = q + d + f
      BY <2>1, <2>2, <2>3, <2>4, <2>9
    <3>2. agg'[a].usage = agg[a].usage + (d + (v - u))
      BY <2>7, <2>9
    <3>3. Held(s, a)' - Held(s, a) = d + (v - u)
      BY <2>5, <3>1
    <3>4. d + f <= p => Firm(s, a)' <= Firm(s, a)
      BY <2>5, <3>1
    <3> QED BY <2>8, <2>9, <3>2, <3>3, <3>4
  <2>10. CASE a \notin ChainOf(own)
    <3>1. Held(s, a) = 0 /\ Firm(s, a) = 0 /\ Held(s, a)' = 0 /\ Firm(s, a)' = 0
      BY <2>1, <2>2, <2>3, <2>10
    <3> QED BY <2>6, <2>7, <2>10, <3>1
  <2> QED BY <2>9, <2>10
<1>9. ASSUME NEW a \in Agg PROVE agg'[a].usage = SumFunctionOnSet(HeldAt(a), Sched)'
  <2>1. PICK f, g : f = HeldAt(a) /\ g = HeldAt(a)'
    OBVIOUS
  <2>2. \A r \in Sched : f[r] = Held(r, a) /\ g[r] = Held(r, a)'
    BY <2>1 DEF HeldAt
  <2>3. \A r \in Sched : f[r] \in Int /\ g[r] \in Int
    BY <1>6, <2>2
  <2>4. \A r \in Sched \ {s} : f[r] = g[r]
    BY <1>7, <2>2
  <2>5. SumFunctionOnSet(g, Sched) = SumFunctionOnSet(f, Sched) + (g[s] - f[s])
    BY <2>3, <2>4, Finite, SumChange
  <2>6. agg[a].usage = SumFunctionOnSet(f, Sched)
    BY <2>1 DEF ChargeInv, Charges
  <2>7. SumFunctionOnSet(HeldAt(a), Sched)' = SumFunctionOnSet(g, Sched)
    BY <2>1
  <2> QED BY <1>8, <2>2, <2>5, <2>6, <2>7
<1>10. Charges'
  BY <1>9 DEF Charges
<1>11. Limited'
  BY DEF ChargeInv, Limited
<1>12. ASSUME NEW r \in Sched, NEW x, x = sched[r].attach, Waiting(job'[r], x)
       PROVE  SumFunctionOnSet(FirmAt(x), Sched)' <= agg'[x].limit
  <2>1. x \in Agg
    BY <1>3, <1>12 DEF Waiting, Jobs
  <2>2. agg'[x].limit = agg[x].limit /\ agg[x].limit \in Nat
    BY <2>1 DEF ChargeInv, Limited
  <2>3. CASE agg'[x].usage <= agg[x].limit
    <3>1. /\ SumFunctionOnSet(FirmAt(x), Sched)' \in Int /\ agg'[x].usage \in Nat
          /\ SumFunctionOnSet(FirmAt(x), Sched)' <= agg'[x].usage
      BY <1>3, <1>4, <1>10, <2>1, FirmChargedNext DEF FirmKnown
    <3> QED BY <2>2, <2>3, <3>1
  <2>4. CASE ~(agg'[x].usage <= agg[x].limit)
    <3>1. Waiting(job[r], x)
      BY <1>2, <1>12, <2>4
    <3>2. SumFunctionOnSet(FirmAt(x), Sched) <= agg[x].limit
      BY <1>12, <3>1 DEF ChargeInv, Within
    <3>3. PICK f, g : f = FirmAt(x) /\ g = FirmAt(x)'
      OBVIOUS
    <3>4. \A q \in Sched : f[q] = Firm(q, x) /\ g[q] = Firm(q, x)'
      BY <3>3 DEF FirmAt
    <3>5. \A q \in Sched : f[q] \in Int /\ g[q] \in Int /\ g[q] <= f[q]
      <4>1. ASSUME NEW q \in Sched PROVE f[q] \in Int /\ g[q] \in Int /\ g[q] <= f[q]
        <5>1. f[q] \in Nat /\ g[q] \in Nat
          BY <1>6, <2>1, <3>4
        <5>2. CASE q = s
          BY <1>8, <2>1, <2>4, <3>4, <5>1, <5>2
        <5>3. CASE q # s
          BY <1>7, <2>1, <3>4, <5>1, <5>3
        <5> QED BY <5>1, <5>2, <5>3
      <4> QED BY <4>1
    <3>6. /\ SumFunctionOnSet(g, Sched) <= SumFunctionOnSet(f, Sched)
          /\ SumFunctionOnSet(g, Sched) \in Int /\ SumFunctionOnSet(f, Sched) \in Int
      BY <3>5, Finite, SumNoMore, SumInt
    <3>7. SumFunctionOnSet(FirmAt(x), Sched)' = SumFunctionOnSet(g, Sched)
      BY <3>3
    <3> QED BY <2>2, <3>2, <3>3, <3>6, <3>7
  <2> QED BY <2>3, <2>4
<1>13. Within'
  <2>1. ASSUME NEW r \in Sched, Waiting(job[r], sched[r].attach)'
        PROVE  SumFunctionOnSet(FirmAt(sched[r].attach), Sched)' <= agg'[sched'[r].attach].limit
    <3>1. PICK x : x = sched[r].attach /\ x = sched'[r].attach
      BY <1>3
    <3>2. Waiting(job'[r], x)
      BY <2>1, <3>1, Zenon DEF Waiting
    <3>3. SumFunctionOnSet(FirmAt(x), Sched)' <= agg'[x].limit
      BY <1>12, <3>1, <3>2
    <3> QED BY <3>1, <3>3 DEF FirmAt, Firm
  <2> QED BY <2>1 DEF Within
<1> QED BY <1>4, <1>10, <1>11, <1>13 DEF ChargeInv

\* What a job made here has charged, and was admitted with.
LEMMA MadeJob ==
  ASSUME NEW own, NEW a, NEW pc, NEW at, NEW amt
  PROVE  /\ Job(pc, at, amt).pc = pc /\ Job(pc, at, amt).at = at /\ Job(pc, at, amt).amt = amt
         /\ Idle.pc = "idle" /\ Idle.at = None /\ Idle.amt = 0
         /\ Underway(Idle, own, a) = 0 /\ Passed(Idle, own, a) = 0
         /\ ~Waiting(Idle, own) /\ Placed(Idle, own)
BY DEF Job, Idle, Underway, Passed, Waiting, Placed

\* A step of s that leaves the tiers' charges and limits alone.
Uncharged(s, own, j) ==
  /\ own = sched[s].attach /\ sched'[s].attach = own
  /\ \A r \in Sched \ {s} : sched'[r] = sched[r]
  /\ job' = [job EXCEPT ![s] = j] /\ Placed(j, own)
  /\ \A a \in Agg : /\ agg'[a].parent = agg[a].parent /\ agg'[a].limit = agg[a].limit
                    /\ agg'[a].usage = agg[a].usage

LEMMA JobUncharged ==
  ASSUME TreeInv, TreeInv', ChargeInv,
         NEW s \in Sched, NEW own, NEW j, Uncharged(s, own, j),
         NEW d \in Int, Queued(s)' = Queued(s) + d,
         \A a \in ChainOf(own) : d + (Underway(j, own, a) - Underway(job[s], own, a)) = 0,
         \A a \in ChainOf(own) : d + Passed(j, own, a) <= Passed(job[s], own, a),
         Waiting(j, own) => Waiting(job[s], own)
  PROVE  ChargeInv'
<1>1. \A a \in Agg : agg[a].usage \in Nat
  BY FirmCharged DEF FirmKnown, ChargeInv, TreeInv, Shapes
<1>2. \A a \in Agg : agg'[a].usage = agg[a].usage +
        (IF a \in ChainOf(own) THEN d + (Underway(j, own, a) - Underway(job[s], own, a)) ELSE 0)
  <2>1. ASSUME NEW a \in Agg
        PROVE  agg'[a].usage = agg[a].usage +
          (IF a \in ChainOf(own) THEN d + (Underway(j, own, a) - Underway(job[s], own, a)) ELSE 0)
    <3>1. PICK z : z = d + (Underway(j, own, a) - Underway(job[s], own, a))
      OBVIOUS
    <3>2. a \in ChainOf(own) => z = 0
      BY <3>1
    <3>3. agg[a].usage \in Nat /\ agg'[a].usage = agg[a].usage
      BY <1>1 DEF Uncharged
    <3>4. agg'[a].usage = agg[a].usage + (IF a \in ChainOf(own) THEN z ELSE 0)
      BY <3>2, <3>3
    <3> QED BY <3>1, <3>4
  <2> QED BY <2>1
<1>3. Charged(s, own, j, d)
  BY <1>2, Zenon DEF Uncharged, Charged
<1> QED BY <1>3, JobCharge

\* A step of s that charges tier a of its chain e bytes, or releases them.
Paid(s, own, j, a, e) ==
  /\ own = sched[s].attach /\ sched' = sched
  /\ job' = [job EXCEPT ![s] = j] /\ Placed(j, own)
  /\ a \in ChainOf(own) /\ agg' = [agg EXCEPT ![a].usage = @ + e]
  /\ Underway(j, own, a) - Underway(job[s], own, a) = e
  /\ \A b \in ChainOf(own) \ {a} : Underway(j, own, b) = Underway(job[s], own, b)
  /\ \A b \in ChainOf(own) : \/ Passed(j, own, b) <= Passed(job[s], own, b)
                             \/ (b = a /\ agg[a].usage + e <= agg[a].limit)
  /\ Waiting(j, own) => Waiting(job[s], own) \/ (a = own /\ agg[a].usage + e <= agg[a].limit)

LEMMA JobPaid ==
  ASSUME TreeInv, TreeInv', ChargeInv,
         NEW s \in Sched, NEW own, NEW j, NEW a, NEW e \in Int, Paid(s, own, j, a, e)
  PROVE  ChargeInv'
<1> USE DEF Paid
<1>1. \A b \in Agg : agg[b].usage \in Nat
  BY FirmCharged DEF FirmKnown, ChargeInv, TreeInv, Shapes
<1>2. a \in Agg /\ own \in Agg /\ ChainOf(own) \subseteq Agg
  BY ChainFacts
<1>3. /\ \A b \in Agg : agg'[b].parent = agg[b].parent /\ agg'[b].limit = agg[b].limit
      /\ agg'[a].usage = agg[a].usage + e
      /\ \A b \in Agg \ {a} : agg'[b].usage = agg[b].usage
  <2>1. agg = [b \in Agg |-> agg[b]] /\ Tier(agg[a])
    BY <1>2, ControlFacts DEF Tables
  <2>2. PICK t : t = agg[a]
    OBVIOUS
  <2>3. PICK q : q = [t EXCEPT !.usage = @ + e]
    OBVIOUS
  <2>4. q.parent = t.parent /\ q.limit = t.limit /\ q.usage = t.usage + e
    BY <2>1, <2>2, <2>3 DEF Tier, TierFields
  <2>5. agg' = [agg EXCEPT ![a] = q]
    BY <2>2, <2>3
  <2>6. \A b \in Agg : agg'[b] = IF b = a THEN q ELSE agg[b]
    BY <1>2, <2>1, <2>5
  <2> QED BY <1>2, <2>2, <2>4, <2>6
<1>4. \A b \in ChainOf(own) : Underway(j, own, b) \in Nat /\ Underway(job[s], own, b) \in Nat
        /\ Passed(j, own, b) \in Nat /\ Passed(job[s], own, b) \in Nat
  <2>1. j.amt \in Nat /\ job[s].amt \in Nat
    BY DEF Placed, ChargeInv, JobsPlaced
  <2> QED BY <2>1, PassedLess
<1>5. ASSUME NEW b \in Agg
      PROVE  agg'[b].usage = agg[b].usage +
        (IF b \in ChainOf(own) THEN 0 + (Underway(j, own, b) - Underway(job[s], own, b)) ELSE 0)
  <2>1. agg[b].usage \in Nat
    BY <1>1
  <2>2. CASE b = a
    <3>1. PICK z : z = Underway(j, own, b) - Underway(job[s], own, b) /\ z = e
      BY <2>2
    <3> QED BY <1>3, <2>1, <2>2, <3>1
  <2>3. CASE b # a /\ b \in ChainOf(own)
    <3>1. PICK x : x = Underway(j, own, b) /\ x = Underway(job[s], own, b) /\ x \in Nat
      BY <1>4, <2>3
    <3> QED BY <1>3, <2>1, <2>3, <3>1
  <2>4. CASE b # a /\ b \notin ChainOf(own)
    BY <1>3, <2>1, <2>4
  <2> QED BY <2>2, <2>3, <2>4
<1>6. ASSUME NEW b \in ChainOf(own)
      PROVE  \/ 0 + Passed(j, own, b) <= Passed(job[s], own, b)
             \/ agg'[b].usage <= agg[b].limit
  <2>1. PICK x, y : x = Passed(j, own, b) /\ y = Passed(job[s], own, b) /\ x \in Nat /\ y \in Nat
    BY <1>4
  <2>2. x <= y \/ (b = a /\ agg[a].usage + e <= agg[a].limit)
    BY <2>1
  <2> QED BY <1>3, <2>1, <2>2
<1>7. /\ sched'[s].attach = own /\ \A r \in Sched \ {s} : sched'[r] = sched[r]
  OBVIOUS
<1>8. Waiting(j, own) => Waiting(job[s], own) \/ agg'[own].usage <= agg[own].limit
  BY <1>3
<1>9. Queued(s)' = Queued(s) + 0
  <2>1. Queued(s) \in Nat
    <3>1. job[s].amt \in Nat
      BY DEF ChargeInv, JobsPlaced, Placed
    <3> QED BY <3>1, HeldTyped DEF HeldKnown, TreeInv, Shapes
  <2>2. Queued(s)' = Queued(s)
    BY DEF Queued, Bytes
  <2> QED BY <2>1, <2>2
<1>10. Charged(s, own, j, 0)
  BY <1>3, <1>5, <1>6, <1>7, <1>8, <1>9, Zenon DEF Charged
<1> QED BY <1>10, JobCharge

\* What the owner threads read of the charges.
LEMMA ChargeFacts ==
  ASSUME TreeInv, ChargeInv, NEW s \in Sched, NEW own, own = sched[s].attach
  PROVE  /\ own \in Agg \cup {None} /\ None \notin Agg
         /\ Placed(job[s], own) /\ job[s].amt \in Nat /\ Queued(s) \in Nat
         /\ sched[s].queue \in [Lens -> Nat]
         /\ (sched'[s].queue = sched[s].queue => Queued(s)' = Queued(s) + 0)
<1>1. Placed(job[s], own) /\ job[s].amt \in Nat
  BY DEF ChargeInv, JobsPlaced, Placed
<1>2. Queued(s) \in Nat
  BY <1>1, HeldTyped DEF HeldKnown, TreeInv, Shapes
<1>3. sched'[s].queue = sched[s].queue => Queued(s)' = Queued(s)
  BY DEF Queued, Bytes
<1> QED BY <1>1, <1>2, <1>3, StepFacts

\* A job that moves no bytes: idle, or at a join or a leave.
Free(j) == j.amt \in Nat /\ j.pc \in {"idle", "joinW", "joinN", "leaveW", "leaveN"}

LEMMA FreeJob ==
  ASSUME NEW j, Free(j), NEW own
  PROVE  /\ Placed(j, own) /\ ~Waiting(j, own)
         /\ \A a : Underway(j, own, a) = 0 /\ Passed(j, own, a) = 0
BY UnderwayIs DEF Free, Placed, Waiting, Passed

LEMMA IdleFree == Free(Idle)
BY DEF Free, Idle

LEMMA EnqueueCharge ==
  ASSUME TreeInv, TreeInv', ChargeInv, NEW s \in Sched, NEW l \in Lens, Enqueue(s, l)
  PROVE  ChargeInv'
<1>1. PICK own : own = sched[s].attach
  OBVIOUS
<1>2. PICK j : j = Job(IF own = None THEN "admitted" ELSE "filter", own, l)
  OBVIOUS
<1>3. j.pc = (IF own = None THEN "admitted" ELSE "filter") /\ j.at = own /\ j.amt = l
  BY <1>2 DEF Job
<1>4. l \in Nat
  BY TreeAssumption
<1>5. Placed(j, own) /\ ~Waiting(j, own)
  BY <1>1, <1>3, <1>4, ChainFacts DEF Placed, Waiting
<1>6. Uncharged(s, own, j)
  <2>1. job' = [job EXCEPT ![s] = j]
    BY <1>1, <1>2 DEF Enqueue, Goto
  <2> QED BY <1>1, <1>5, <2>1 DEF Enqueue, Uncharged
<1>7. \A a \in ChainOf(own) : /\ 0 + (Underway(j, own, a) - Underway(job[s], own, a)) = 0
                              /\ 0 + Passed(j, own, a) <= Passed(job[s], own, a)
  <2>1. job[s] = Idle
    BY DEF Enqueue, MayStart
  <2>2. \A a : Underway(job[s], own, a) = 0 /\ Passed(job[s], own, a) = 0
    BY <2>1, FreeJob, IdleFree
  <2>3. \A a \in ChainOf(own) : Underway(j, own, a) = 0 /\ Passed(j, own, a) = 0
    BY <1>1, <1>3, UnderwayIs, ChainFacts DEF Passed, Waiting
  <2> QED BY <2>2, <2>3
<1>8. Queued(s)' = Queued(s) + 0
  BY <1>1, ChargeFacts DEF Enqueue
<1> QED BY <1>5, <1>6, <1>7, <1>8, JobUncharged

LEMMA FilterCharge ==
  ASSUME TreeInv, TreeInv', ChargeInv, NEW s \in Sched, Filter(s)
  PROVE  ChargeInv'
<1>1. PICK own, k, a : own = sched[s].attach /\ k = job[s] /\ a = k.at
  OBVIOUS
<1>2. k.pc = "filter" /\ a \in ChainOf(own) /\ own \in Agg /\ k.amt \in Lens /\ k.amt \in Nat
  BY <1>1, ChargeFacts, StepFacts DEF Filter, Placed
<1>3. PICK j : /\ job' = [job EXCEPT ![s] = j]
               /\ \/ j = Job("add", a, k.amt)
                  \/ a # own /\ j = Job("unwind", own, k.amt)
                  \/ a = own /\ j = Idle
  BY <1>1 DEF Filter, Refused
<1>4. /\ Placed(j, own) /\ (Waiting(j, own) => Waiting(k, own))
      /\ \A b \in ChainOf(own) : /\ Underway(j, own, b) = Underway(k, own, b)
                                 /\ Passed(j, own, b) <= Passed(k, own, b)
                                 /\ Underway(j, own, b) \in Nat /\ Passed(j, own, b) \in Nat
  <2>1. CASE j = Job("add", a, k.amt)
    <3>1. j.pc = "add" /\ j.at = a /\ j.amt = k.amt
      BY <2>1 DEF Job
    <3> QED BY <1>1, <1>2, <3>1, UnderwayIs DEF Placed, Waiting, Passed
  <2>2. CASE a # own /\ j = Job("unwind", own, k.amt)
    <3>1. j.pc = "unwind" /\ j.at = own /\ j.amt = k.amt
      BY <2>2 DEF Job
    <3>2. Placed(j, own) /\ ~Waiting(j, own)
      BY <1>2, <3>1 DEF Placed, Waiting
    <3>3. \A b : /\ Underway(j, own, b) = (IF b = own THEN k.amt ELSE 0)
                 /\ Underway(k, own, b) = (IF b = own THEN k.amt ELSE 0)
                 /\ Passed(j, own, b) = 0
                 /\ Passed(k, own, b) = (IF b = own THEN k.amt ELSE 0)
      BY <1>1, <1>2, <2>2, <3>1, UnderwayIs DEF Waiting, Passed
    <3> QED BY <1>2, <3>2, <3>3
  <2>3. CASE a = own /\ j = Idle
    <3>1. \A b : Underway(j, own, b) = 0 /\ Passed(j, own, b) = 0
      BY <2>3, FreeJob, IdleFree
    <3>2. \A b : Underway(k, own, b) = 0 /\ Passed(k, own, b) = 0
      <4>1. k.pc = "filter" /\ k.at = own
        BY <1>1, <1>2, <2>3
      <4>2. \A b : Underway(k, own, b) = 0
        BY <4>1, UnderwayIs
      <4> QED BY <4>1, <4>2 DEF Waiting, Passed
    <3>3. Placed(j, own) /\ ~Waiting(j, own)
      BY <2>3, FreeJob, IdleFree
    <3> QED BY <3>1, <3>2, <3>3
  <2> QED BY <1>3, <2>1, <2>2, <2>3
<1>5. Uncharged(s, own, j)
  BY <1>1, <1>3, <1>4 DEF Filter, Uncharged
<1>6. \A b \in ChainOf(own) : /\ 0 + (Underway(j, own, b) - Underway(job[s], own, b)) = 0
                              /\ 0 + Passed(j, own, b) <= Passed(job[s], own, b)
  BY <1>1, <1>4
<1>7. Queued(s)' = Queued(s) + 0
  BY <1>1, ChargeFacts DEF Filter
<1> QED BY <1>1, <1>4, <1>5, <1>6, <1>7, JobUncharged

LEMMA AddCharge ==
  ASSUME TreeInv, TreeInv', ChargeInv, NEW s \in Sched, Add(s)
  PROVE  ChargeInv'
<1>1. PICK own, k, a, l, up : /\ own = sched[s].attach /\ k = job[s] /\ a = k.at
                              /\ l = k.amt /\ up = agg[a].parent
  OBVIOUS
<1>2. /\ k.pc = "add" /\ a \in ChainOf(own) /\ own \in Agg /\ own # None
      /\ l \in Lens /\ l \in Nat /\ l \in Int
  BY <1>1, ChargeFacts, StepFacts DEF Add, Placed
<1>3. /\ a # own => a = agg[own].parent /\ up = None
      /\ up # None => a = own /\ up # own /\ ChainOf(own) = {own, up}
      /\ up = None => ChainOf(own) = {own, a}
      /\ own \in ChainOf(own) /\ agg[own].parent # own
  BY <1>1, <1>2, ChainFacts
<1>4. PICK fits \in BOOLEAN : fits <=> agg[a].usage + l <= agg[a].limit
  OBVIOUS
<1>5. PICK j : /\ job' = [job EXCEPT ![s] = j]
               /\ j = IF ~fits THEN Job("undo", a, l)
                      ELSE IF up = None THEN Job("admitted", own, l)
                      ELSE Job("filter", up, l)
  BY <1>1, <1>4 DEF Add, Fits
<1>6. agg' = [agg EXCEPT ![a].usage = @ + l] /\ sched' = sched
  BY <1>1 DEF Add
<1>7. /\ \A b : Underway(k, own, b) = IF a # own /\ b = own THEN l ELSE 0
      /\ \A b : Passed(k, own, b) = IF a # own /\ b = own THEN l ELSE 0
      /\ Waiting(k, own) <=> a # own
  BY <1>1, <1>2, UnderwayIs DEF Passed, Waiting
<1>8. /\ Placed(j, own)
      /\ Underway(j, own, a) - Underway(k, own, a) = l
      /\ \A b \in ChainOf(own) \ {a} : Underway(j, own, b) = Underway(k, own, b)
      /\ \A b \in ChainOf(own) : Passed(j, own, b) <= Passed(k, own, b) \/ (b = a /\ fits)
      /\ Waiting(j, own) => Waiting(k, own) \/ (a = own /\ fits)
  <2>1. CASE ~fits
    <3>1. j.pc = "undo" /\ j.at = a /\ j.amt = l
      BY <1>5, <2>1 DEF Job
    <3>2. \A b : Underway(j, own, b) = (IF b = a \/ b = own THEN l ELSE 0) /\ Passed(j, own, b) = 0
      BY <3>1, UnderwayIs DEF Passed, Waiting
    <3> QED BY <1>2, <1>3, <1>7, <3>1, <3>2 DEF Placed, Waiting
  <2>2. CASE fits /\ up = None
    <3>1. j.pc = "admitted" /\ j.at = own /\ j.amt = l
      BY <1>5, <2>2 DEF Job
    <3>2. \A b : Underway(j, own, b) = l /\ Passed(j, own, b) = l
      BY <3>1, UnderwayIs DEF Passed
    <3> QED BY <1>2, <1>3, <1>7, <2>2, <3>1, <3>2 DEF Placed, Waiting
  <2>3. CASE fits /\ up # None
    <3>1. j.pc = "filter" /\ j.at = up /\ j.amt = l
      BY <1>5, <2>3 DEF Job
    <3>2. \A b : /\ Underway(j, own, b) = (IF b = own THEN l ELSE 0)
                 /\ Passed(j, own, b) = (IF b = own THEN l ELSE 0)
      BY <1>3, <2>3, <3>1, UnderwayIs DEF Passed, Waiting
    <3> QED BY <1>2, <1>3, <1>7, <2>3, <3>1, <3>2 DEF Placed, Waiting
  <2> QED BY <2>1, <2>2, <2>3
<1>9. Paid(s, own, j, a, l)
  <2>1. \A b \in ChainOf(own) : \/ Passed(j, own, b) <= Passed(job[s], own, b)
                                \/ (b = a /\ agg[a].usage + l <= agg[a].limit)
    BY <1>1, <1>4, <1>8
  <2>2. Waiting(j, own) => Waiting(job[s], own) \/ (a = own /\ agg[a].usage + l <= agg[a].limit)
    BY <1>1, <1>4, <1>8
  <2> QED BY <1>1, <1>2, <1>5, <1>6, <1>8, <2>1, <2>2, Zenon DEF Paid
<1> QED BY <1>2, <1>9, JobPaid

LEMMA UndoCharge ==
  ASSUME TreeInv, TreeInv', ChargeInv, NEW s \in Sched, Undo(s)
  PROVE  ChargeInv'
<1>1. PICK own, k, a, l : own = sched[s].attach /\ k = job[s] /\ a = k.at /\ l = k.amt
  OBVIOUS
<1>2. k.pc = "undo" /\ a \in ChainOf(own) /\ own \in Agg /\ l \in Nat /\ -l \in Int
  BY <1>1, ChargeFacts, StepFacts DEF Undo, Placed
<1>3. PICK j : /\ job' = [job EXCEPT ![s] = j]
               /\ \/ a # own /\ j = Job("unwind", own, l)
                  \/ a = own /\ j = Idle
  BY <1>1 DEF Undo, Refused
<1>4. agg' = [agg EXCEPT ![a].usage = @ + (-l)]
  <2>1. agg[a].usage \in Nat
    BY <1>1, <1>2, ChainFacts, FirmCharged DEF FirmKnown, ChargeInv, TreeInv, Shapes
  <2>2. agg[a].usage - l = agg[a].usage + (-l)
    BY <1>2, <2>1
  <2> QED BY <1>1, <2>2 DEF Undo
<1>5. \A b : /\ Underway(k, own, b) = (IF b = a \/ b = own THEN l ELSE 0)
             /\ Passed(k, own, b) = 0
  BY <1>1, <1>2, UnderwayIs DEF Waiting, Passed
<1>6. /\ Placed(j, own) /\ ~Waiting(j, own)
      /\ \A b : /\ Underway(j, own, b) = (IF b = own /\ a # own THEN l ELSE 0)
                /\ Passed(j, own, b) = 0
  <2>1. CASE a # own /\ j = Job("unwind", own, l)
    <3>1. j.pc = "unwind" /\ j.at = own /\ j.amt = l
      BY <2>1 DEF Job
    <3>2. Placed(j, own) /\ ~Waiting(j, own)
      BY <1>2, <3>1 DEF Placed, Waiting
    <3> QED BY <2>1, <3>1, <3>2, UnderwayIs DEF Waiting, Passed
  <2>2. CASE a = own /\ j = Idle
    BY <2>2, FreeJob, IdleFree
  <2> QED BY <1>3, <2>1, <2>2
<1>7. Paid(s, own, j, a, -l)
  <2>1. Underway(j, own, a) - Underway(job[s], own, a) = -l
    BY <1>1, <1>2, <1>5, <1>6
  <2>2. \A b \in ChainOf(own) \ {a} : Underway(j, own, b) = Underway(job[s], own, b)
    BY <1>1, <1>5, <1>6
  <2>3. \A b \in ChainOf(own) : Passed(j, own, b) <= Passed(job[s], own, b)
    BY <1>1, <1>5, <1>6
  <2>4. sched' = sched
    BY DEF Undo
  <2> QED BY <1>1, <1>2, <1>3, <1>4, <1>6, <2>1, <2>2, <2>3, <2>4, Zenon DEF Paid
<1> QED BY <1>2, <1>7, JobPaid

LEMMA UnwindCharge ==
  ASSUME TreeInv, TreeInv', ChargeInv, NEW s \in Sched, Unwind(s)
  PROVE  ChargeInv'
<1>1. PICK own, k, l : own = sched[s].attach /\ k = job[s] /\ l = k.amt
  OBVIOUS
<1>2. k.pc = "unwind" /\ k.at = own /\ own \in Agg /\ l \in Nat /\ -l \in Int
  BY <1>1, ChargeFacts, StepFacts DEF Unwind, Placed
<1>3. own \in ChainOf(own)
  BY <1>1, <1>2, ChainFacts
<1>4. agg' = [agg EXCEPT ![own].usage = @ + (-l)]
  <2>1. agg[own].usage \in Nat
    BY <1>1, <1>2, FirmCharged DEF FirmKnown, ChargeInv, TreeInv, Shapes
  <2>2. agg[own].usage - l = agg[own].usage + (-l)
    BY <1>2, <2>1
  <2> QED BY <1>1, <1>2, <2>2 DEF Unwind
<1>5. \A b : Underway(k, own, b) = (IF b = own THEN l ELSE 0) /\ Passed(k, own, b) = 0
  BY <1>1, <1>2, UnderwayIs DEF Waiting, Passed
<1>6. /\ Placed(Idle, own) /\ ~Waiting(Idle, own)
      /\ \A b : Underway(Idle, own, b) = 0 /\ Passed(Idle, own, b) = 0
  BY FreeJob, IdleFree
<1>7. Paid(s, own, Idle, own, -l)
  <2>1. Underway(Idle, own, own) - Underway(job[s], own, own) = -l
    BY <1>1, <1>2, <1>5, <1>6
  <2>2. \A b \in ChainOf(own) \ {own} : Underway(Idle, own, b) = Underway(job[s], own, b)
    BY <1>1, <1>5, <1>6
  <2>3. \A b \in ChainOf(own) : Passed(Idle, own, b) <= Passed(job[s], own, b)
    BY <1>1, <1>5, <1>6
  <2>4. sched' = sched /\ job' = [job EXCEPT ![s] = Idle]
    BY DEF Unwind
  <2> QED BY <1>1, <1>3, <1>4, <1>6, <2>1, <2>2, <2>3, <2>4, Zenon DEF Paid
<1> QED BY <1>2, <1>7, JobPaid

LEMMA CommitCharge ==
  ASSUME TreeInv, TreeInv', ChargeInv, NEW s \in Sched, Commit(s)
  PROVE  ChargeInv'
<1>1. PICK own, k, l : own = sched[s].attach /\ k = job[s] /\ l = k.amt
  OBVIOUS
<1>2. k.pc = "admitted" /\ l \in Lens /\ l \in Nat /\ l \in Int
  BY <1>1, ChargeFacts DEF Commit, Placed
<1>3. PICK j : job' = [job EXCEPT ![s] = j] /\ (j = Job("joinW", own, 0) \/ j = Idle)
  BY <1>1 DEF Commit
<1>4. Free(j)
  BY <1>3, IdleFree DEF Free, Job
<1>5. /\ \A r \in Sched \ {s} : sched'[r] = sched[r]
      /\ sched'[s].attach = own
      /\ sched'[s].queue = [sched[s].queue EXCEPT ![l] = @ + 1]
  <2>1. Scheds
    BY ControlFacts
  <2> QED BY <1>1, <2>1 DEF Commit, Scheds
<1>6. Queued(s)' = Queued(s) + l
  <2>1. PICK q, r : q = sched[s].queue /\ r = [q EXCEPT ![l] = @ + 1]
    OBVIOUS
  <2>2. q \in [Lens -> Nat]
    BY <2>1, ChargeFacts
  <2>3. Bytes(r) = Bytes(q) + l
    BY <1>2, <2>1, <2>2, BytesJoin
  <2>4. Queued(s)' = Bytes(r)
    BY <1>5, <2>1 DEF Queued, Bytes
  <2> QED BY <2>1, <2>3, <2>4 DEF Queued
<1>7. Uncharged(s, own, j)
  BY <1>1, <1>3, <1>4, <1>5, FreeJob DEF Uncharged, Commit
<1>8. \A a \in ChainOf(own) : /\ l + (Underway(j, own, a) - Underway(job[s], own, a)) = 0
                              /\ l + Passed(j, own, a) <= Passed(job[s], own, a)
  <2>1. \A a : Underway(j, own, a) = 0 /\ Passed(j, own, a) = 0
    BY <1>4, FreeJob
  <2>2. \A a : Underway(k, own, a) = l /\ Passed(k, own, a) = l
    BY <1>1, <1>2, UnderwayIs DEF Passed
  <2> QED BY <1>1, <1>2, <2>1, <2>2
<1>9. ~Waiting(j, own)
  BY <1>4, FreeJob
<1> QED BY <1>2, <1>6, <1>7, <1>8, <1>9, JobUncharged

LEMMA RingFullCharge ==
  ASSUME TreeInv, TreeInv', ChargeInv, NEW s \in Sched, RingFull(s)
  PROVE  ChargeInv'
<1>1. PICK own, k, l : own = sched[s].attach /\ k = job[s] /\ l = k.amt
  OBVIOUS
<1>2. k.pc = "admitted" /\ l \in Lens /\ l \in Nat
  BY <1>1, ChargeFacts DEF RingFull, Placed
<1>3. PICK j : /\ job' = [job EXCEPT ![s] = j]
               /\ j = IF own = None THEN Idle ELSE Job("release", own, l)
  BY <1>1 DEF RingFull
<1>4. \A a : Underway(k, own, a) = l /\ Passed(k, own, a) = l
  BY <1>1, <1>2, UnderwayIs DEF Passed
<1>5. /\ Placed(j, own) /\ ~Waiting(j, own)
      /\ \A a \in ChainOf(own) : Underway(j, own, a) = l /\ Passed(j, own, a) = 0
  <2>1. CASE own = None
    BY <1>1, <1>3, <2>1, FreeJob, IdleFree, ChainFacts
  <2>2. CASE own # None
    <3>1. j.pc = "release" /\ j.at = own /\ j.amt = l
      BY <1>3, <2>2 DEF Job
    <3>2. own \in ChainOf(own)
      BY <1>1, <2>2, ChainFacts
    <3>3. Placed(j, own) /\ ~Waiting(j, own)
      BY <1>2, <3>1, <3>2 DEF Placed, Waiting
    <3> QED BY <3>1, <3>3, UnderwayIs DEF Passed, Waiting
  <2> QED BY <2>1, <2>2
<1>6. Uncharged(s, own, j)
  BY <1>1, <1>3, <1>5 DEF Uncharged, RingFull
<1>7. \A a \in ChainOf(own) : /\ 0 + (Underway(j, own, a) - Underway(job[s], own, a)) = 0
                              /\ 0 + Passed(j, own, a) <= Passed(job[s], own, a)
  BY <1>1, <1>2, <1>4, <1>5
<1>8. Queued(s)' = Queued(s) + 0
  BY <1>1, ChargeFacts DEF RingFull
<1> QED BY <1>5, <1>6, <1>7, <1>8, JobUncharged

LEMMA ReleaseCharge ==
  ASSUME TreeInv, TreeInv', ChargeInv, NEW s \in Sched, Release(s)
  PROVE  ChargeInv'
<1>1. PICK own, k, a, l, up : /\ own = sched[s].attach /\ k = job[s] /\ a = k.at
                              /\ l = k.amt /\ up = agg[a].parent
  OBVIOUS
<1>2. k.pc = "release" /\ a \in ChainOf(own) /\ own \in Agg /\ own # None /\ l \in Nat /\ -l \in Int
  BY <1>1, ChargeFacts, StepFacts DEF Release, Placed
<1>3. /\ a # own => a = agg[own].parent /\ up = None /\ ChainOf(own) = {own, a}
      /\ up # None => a = own /\ up # own /\ ChainOf(own) = {own, up}
      /\ a = own /\ up = None => ChainOf(own) = {own}
  BY <1>1, <1>2, ChainFacts
<1>4. agg' = [agg EXCEPT ![a].usage = @ + (-l)]
  <2>1. agg[a].usage \in Nat
    BY <1>1, <1>2, ChainFacts, FirmCharged DEF FirmKnown, ChargeInv, TreeInv, Shapes
  <2>2. agg[a].usage - l = agg[a].usage + (-l)
    BY <1>2, <2>1
  <2> QED BY <1>1, <2>2 DEF Release
<1>5. PICK j : /\ job' = [job EXCEPT ![s] = j]
               /\ j = IF up = None THEN Idle ELSE Job("release", up, l)
  BY <1>1 DEF Release
<1>6. \A b : /\ Underway(k, own, b) = (IF b = own /\ a # own THEN 0 ELSE l)
             /\ Passed(k, own, b) = 0
  BY <1>1, <1>2, UnderwayIs DEF Waiting, Passed
<1>7. /\ Placed(j, own) /\ ~Waiting(j, own)
      /\ \A b : Passed(j, own, b) = 0
      /\ \A b : Underway(j, own, b) = (IF up = None \/ b = own THEN 0 ELSE l)
  <2>1. CASE up = None
    BY <1>5, <2>1, FreeJob, IdleFree
  <2>2. CASE up # None
    <3>1. j.pc = "release" /\ j.at = up /\ j.amt = l
      BY <1>5, <2>2 DEF Job
    <3>2. Placed(j, own) /\ ~Waiting(j, own)
      BY <1>2, <1>3, <2>2, <3>1 DEF Placed, Waiting
    <3> QED BY <1>3, <2>2, <3>1, <3>2, UnderwayIs DEF Passed, Waiting
  <2> QED BY <2>1, <2>2
<1>8. Paid(s, own, j, a, -l)
  <2>1. Underway(j, own, a) - Underway(job[s], own, a) = -l
    BY <1>1, <1>2, <1>3, <1>6, <1>7
  <2>2. \A b \in ChainOf(own) \ {a} : Underway(j, own, b) = Underway(job[s], own, b)
    BY <1>1, <1>3, <1>6, <1>7
  <2>3. \A b \in ChainOf(own) : Passed(j, own, b) <= Passed(job[s], own, b)
    BY <1>1, <1>6, <1>7
  <2>4. sched' = sched
    BY DEF Release
  <2> QED BY <1>1, <1>2, <1>4, <1>5, <1>7, <2>1, <2>2, <2>3, <2>4, Zenon DEF Paid
<1> QED BY <1>2, <1>8, JobPaid

LEMMA RemoveCharge ==
  ASSUME TreeInv, TreeInv', ChargeInv, NEW s \in Sched, MayStart(s), NEW out, Remove(s, out),
         \A l \in Lens : out[l] \in Nat /\ out[l] <= sched[s].queue[l]
  PROVE  ChargeInv'
<1>1. PICK own, q, r : /\ own = sched[s].attach /\ q = sched[s].queue
                       /\ r = [l \in Lens |-> q[l] - out[l]]
  OBVIOUS
<1>2. PICK b : b = Bytes(out)
  OBVIOUS
<1>3. q \in [Lens -> Nat]
  BY <1>1, ChargeFacts
<1>4. b \in Nat /\ Bytes(r) \in Nat /\ Bytes(q) = Bytes(r) + b
  BY <1>1, <1>2, <1>3, BytesLeave
<1>5. PICK j : /\ job' = [job EXCEPT ![s] = j]
               /\ j = IF own = None THEN Idle ELSE Job("release", own, b)
  BY <1>1, <1>2 DEF Remove
<1>6. /\ \A x \in Sched \ {s} : sched'[x] = sched[x]
      /\ sched'[s].attach = own /\ sched'[s].queue = r
  <2>1. Scheds
    BY ControlFacts
  <2>2. sched' = [sched EXCEPT ![s].queue = r]
    BY <1>1 DEF Remove
  <2> QED BY <1>1, <2>1, <2>2 DEF Scheds
<1>7. Queued(s)' = Queued(s) + (-b)
  <2>1. Queued(s)' = Bytes(r)
    BY <1>6 DEF Queued, Bytes
  <2>2. Queued(s) = Bytes(q)
    BY <1>1 DEF Queued
  <2> QED BY <1>4, <2>1, <2>2
<1>8. \A a : Underway(job[s], own, a) = 0 /\ Passed(job[s], own, a) = 0
  BY FreeJob, IdleFree DEF MayStart
<1>9. /\ Placed(j, own) /\ ~Waiting(j, own)
      /\ \A a \in ChainOf(own) : Underway(j, own, a) = b /\ Passed(j, own, a) = 0
  <2>1. CASE own = None
    BY <1>1, <1>5, <2>1, FreeJob, IdleFree, ChainFacts
  <2>2. CASE own # None
    <3>1. j.pc = "release" /\ j.at = own /\ j.amt = b
      BY <1>5, <2>2 DEF Job
    <3>2. own \in ChainOf(own)
      BY <1>1, <2>2, ChainFacts
    <3>3. Placed(j, own) /\ ~Waiting(j, own)
      BY <1>4, <3>1, <3>2 DEF Placed, Waiting
    <3> QED BY <3>1, <3>3, UnderwayIs DEF Passed, Waiting
  <2> QED BY <2>1, <2>2
<1>10. Uncharged(s, own, j)
  BY <1>1, <1>5, <1>6, <1>9 DEF Uncharged, Remove
<1>11. \A a \in ChainOf(own) : /\ (-b) + (Underway(j, own, a) - Underway(job[s], own, a)) = 0
                               /\ (-b) + Passed(j, own, a) <= Passed(job[s], own, a)
  BY <1>4, <1>8, <1>9
<1>12. -b \in Int
  BY <1>4
<1> QED BY <1>7, <1>9, <1>10, <1>11, <1>12, JobUncharged

LEMMA DequeueCharge ==
  ASSUME TreeInv, TreeInv', ChargeInv, NEW s \in Sched, NEW l \in Lens, Dequeue(s, l)
  PROVE  ChargeInv'
<1>1. PICK out : out = [k \in Lens |-> IF k = l THEN 1 ELSE 0]
  OBVIOUS
<1>2. MayStart(s) /\ Remove(s, out) /\ sched[s].queue[l] > 0
  BY <1>1 DEF Dequeue
<1>3. ASSUME NEW k \in Lens PROVE out[k] \in Nat /\ out[k] <= sched[s].queue[k]
  <2>1. sched[s].queue[k] \in Nat
    BY StepFacts
  <2> QED BY <1>1, <1>2, <2>1
<1> QED BY <1>2, <1>3, RemoveCharge

LEMMA EvictCharge ==
  ASSUME TreeInv, TreeInv', ChargeInv, NEW s \in Sched, Evict(s)
  PROVE  ChargeInv'
<1>1. PICK out \in {f \in [Lens -> 0..SchedLimit] :
                       \A l \in Lens : f[l] <= sched[s].queue[l]} : Remove(s, out)
  BY DEF Evict
<1>2. MayStart(s)
  BY DEF Evict
<1>3. \A l \in Lens : out[l] \in Nat /\ out[l] <= sched[s].queue[l]
  BY TreeAssumption
<1> QED BY <1>1, <1>2, <1>3, RemoveCharge

\* The same charges; a move of the weight or of the count keeps them.
SameCharge(g, h) ==
  \A a \in Agg : h[a].parent = g[a].parent /\ h[a].limit = g[a].limit /\ h[a].usage = g[a].usage

LEMMA CounterMoved ==
  ASSUME NEW g, Tiers(g), NEW a \in Agg, NEW v, NEW h,
         \/ h = [g EXCEPT ![a].activeWeight = v]
         \/ h = [g EXCEPT ![a].nActive = v]
  PROVE  SameCharge(g, h)
<1>1. PICK t : t = g[a]
  OBVIOUS
<1>2. PICK q : /\ h = [g EXCEPT ![a] = q]
               /\ \/ q = [t EXCEPT !.activeWeight = v]
                  \/ q = [t EXCEPT !.nActive = v]
  BY <1>1
<1>3. Tier(t)
  BY <1>1 DEF Tiers
<1>4. q.parent = t.parent /\ q.limit = t.limit /\ q.usage = t.usage
  BY <1>2, <1>3 DEF Tier, TierFields
<1>5. \A b \in Agg : h[b] = IF b = a THEN q ELSE g[b]
  BY <1>2 DEF Tiers
<1> QED BY <1>1, <1>4, <1>5 DEF SameCharge

LEMMA MovedCharge ==
  ASSUME NEW g, Tiers(g), NEW a \in Agg, NEW w, NEW n, NEW h, h = Moved(g, a, w, n)
  PROVE  SameCharge(g, h)
<1>1. PICK t : t = g[a]
  OBVIOUS
<1>2. PICK q : /\ h = [g EXCEPT ![a] = q]
               /\ q = [t EXCEPT !.activeWeight = @ + n * w, !.nActive = @ + n]
  BY <1>1 DEF Moved
<1>3. Tier(t)
  BY <1>1 DEF Tiers
<1>4. q.parent = t.parent /\ q.limit = t.limit /\ q.usage = t.usage
  BY <1>2, <1>3 DEF Tier, TierFields
<1>5. \A b \in Agg : h[b] = IF b = a THEN q ELSE g[b]
  BY <1>2 DEF Tiers
<1> QED BY <1>1, <1>4, <1>5 DEF SameCharge

\* A step of s between jobs that move no bytes.
LEMMA FreeStep ==
  ASSUME TreeInv, TreeInv', ChargeInv, NEW s \in Sched, NEW j,
         Free(job[s]), Free(j), job' = [job EXCEPT ![s] = j], SameCharge(agg, agg'),
         \A r \in Sched \ {s} : sched'[r] = sched[r],
         sched'[s].attach = sched[s].attach, sched'[s].queue = sched[s].queue
  PROVE  ChargeInv'
<1>1. PICK own : own = sched[s].attach
  OBVIOUS
<1>2. \A a : /\ Underway(j, own, a) = 0 /\ Passed(j, own, a) = 0
             /\ Underway(job[s], own, a) = 0 /\ Passed(job[s], own, a) = 0
  BY FreeJob
<1>3. Placed(j, own) /\ ~Waiting(j, own)
  BY FreeJob
<1>4. Uncharged(s, own, j)
  BY <1>1, <1>3 DEF Uncharged, SameCharge
<1>5. Queued(s)' = Queued(s) + 0
  BY <1>1, ChargeFacts
<1>6. \A a \in ChainOf(own) : /\ 0 + (Underway(j, own, a) - Underway(job[s], own, a)) = 0
                              /\ 0 + Passed(j, own, a) <= Passed(job[s], own, a)
  BY <1>2
<1> QED BY <1>3, <1>4, <1>5, <1>6, JobUncharged

LEMMA DeactivateCharge ==
  ASSUME TreeInv, TreeInv', ChargeInv, NEW s \in Sched, Deactivate(s)
  PROVE  ChargeInv'
<1>1. PICK j : job' = [job EXCEPT ![s] = j] /\ (j = Idle \/ j = Job("leaveW", sched[s].attach, 0))
  BY DEF Deactivate
<1>2. Free(j) /\ Free(job[s])
  BY <1>1, IdleFree DEF Free, Job, Deactivate, MayStart
<1>3. /\ \A r \in Sched \ {s} : sched'[r] = sched[r]
      /\ sched'[s].attach = sched[s].attach /\ sched'[s].queue = sched[s].queue
  <2>1. Scheds
    BY ControlFacts
  <2> QED BY <2>1 DEF Deactivate, Scheds
<1>4. SameCharge(agg, agg')
  BY DEF SameCharge, Deactivate
<1> QED BY <1>1, <1>2, <1>3, <1>4, FreeStep

\* The steps that move a weight or a count.
Counting(s) == JoinWeight(s) \/ JoinCount(s) \/ LeaveWeight(s) \/ LeaveCount(s)

LEMMA CountingCharge ==
  ASSUME TreeInv, TreeInv', ChargeInv, NEW s \in Sched, Counting(s)
  PROVE  ChargeInv'
<1>1. job[s].pc \in {"joinW", "joinN", "leaveW", "leaveN"} /\ sched' = sched
  BY DEF Counting, JoinWeight, JoinCount, LeaveWeight, LeaveCount
<1>2. job[s].at \in Agg
  BY <1>1, StepFacts
<1>3. SameCharge(agg, agg')
  <2>1. PICK a, v : /\ a = job[s].at
                    /\ \/ agg' = [agg EXCEPT ![a].activeWeight = v]
                       \/ agg' = [agg EXCEPT ![a].nActive = v]
    BY DEF Counting, JoinWeight, JoinCount, LeaveWeight, LeaveCount
  <2> QED BY <1>2, <2>1, CounterMoved, ControlFacts
<1>4. PICK j : /\ job' = [job EXCEPT ![s] = j]
               /\ \/ j = Idle
                  \/ \E pc \in {"joinW", "joinN", "leaveW", "leaveN"} : \E at : j = Job(pc, at, 0)
  <2>1. CASE JoinWeight(s)
    BY <2>1 DEF JoinWeight, Goto
  <2>2. CASE JoinCount(s)
    BY <2>2 DEF JoinCount
  <2>3. CASE LeaveWeight(s)
    BY <2>3 DEF LeaveWeight, Goto
  <2>4. CASE LeaveCount(s)
    BY <2>4 DEF LeaveCount
  <2> QED BY <2>1, <2>2, <2>3, <2>4 DEF Counting
<1>5. Free(j) /\ Free(job[s])
  <2>1. job[s].amt \in Nat
    BY ChargeFacts
  <2> QED BY <1>1, <1>4, <2>1, IdleFree DEF Free, Job
<1> QED BY <1>1, <1>3, <1>4, <1>5, FreeStep

LEMMA WorkerCharge ==
  ASSUME TreeInv, TreeInv', ChargeInv, Worker
  PROVE  ChargeInv'
<1>1. PICK s \in Sched :
        \/ \E l \in Lens : Enqueue(s, l) \/ Dequeue(s, l)
        \/ Filter(s) \/ Add(s) \/ Undo(s) \/ Unwind(s)
        \/ Commit(s) \/ RingFull(s) \/ Release(s) \/ Evict(s) \/ Deactivate(s)
        \/ JoinWeight(s) \/ JoinCount(s) \/ LeaveWeight(s) \/ LeaveCount(s)
  BY DEF Worker
<1>2. Counting(s) => ChargeInv'
  BY CountingCharge
<1> QED
  BY <1>1, <1>2, EnqueueCharge, DequeueCharge, FilterCharge, AddCharge, UndoCharge,
     UnwindCharge, CommitCharge, RingFullCharge, ReleaseCharge, EvictCharge,
     DeactivateCharge DEF Counting

\* No owner thread is inside an operation: what a scheduler holds is its queue.
OnlyQueued(s, a) ==
  job[s] = Idle => Held(s, a) = IF a \in ChainOf(sched[s].attach) THEN Queued(s) ELSE 0

LEMMA HeldQueued ==
  ASSUME TreeInv, ChargeInv, NEW s \in Sched, NEW a
  PROVE  OnlyQueued(s, a)
<1>1. SUFFICES ASSUME job[s] = Idle
               PROVE  Held(s, a) = IF a \in ChainOf(sched[s].attach) THEN Queued(s) ELSE 0
  BY DEF OnlyQueued
<1>2. PICK u, q : u = Underway(job[s], sched[s].attach, a) /\ q = Queued(s)
  OBVIOUS
<1>3. u = 0
  BY <1>1, <1>2, FreeJob, IdleFree
<1>4. q \in Nat
  BY <1>2, ChargeFacts
<1>5. Held(s, a) = IF a \in ChainOf(sched[s].attach) THEN q + u ELSE 0
  BY <1>2 DEF Held
<1> QED BY <1>2, <1>3, <1>4, <1>5

\* The barrier keeps the jobs where they are: idle.
LEMMA QuietCharge ==
  ASSUME TreeInv, ChargeInv, Quiet, job' = job, Limited', Charges'
  PROVE  ChargeInv'
<1>1. \A s \in Sched : job'[s] = Idle
  BY DEF Quiet
<1>2. JobsPlaced'
  <2>1. ASSUME NEW s \in Sched PROVE Placed(job[s], sched[s].attach)'
    BY <1>1 DEF Placed, Idle
  <2> QED BY <2>1 DEF JobsPlaced
<1>3. Within'
  <2>1. ASSUME NEW s \in Sched PROVE ~Waiting(job[s], sched[s].attach)'
    BY <1>1 DEF Waiting, Idle
  <2> QED BY <2>1 DEF Within
<1> QED BY <1>2, <1>3 DEF ChargeInv

\* A free slot, and one that is to be put, is charged nothing.
LEMMA UnusedFree ==
  ASSUME TreeInv, ChargeInv, NEW a \in Agg, \A s \in Sched : a \notin ChainOf(sched[s].attach)
  PROVE  agg[a].usage = 0
<1>1. PICK f : f = HeldAt(a)
  OBVIOUS
<1>2. \A s \in Sched : f[s] = 0
  BY <1>1 DEF HeldAt, Held
<1>3. SumFunctionOnSet(f, Sched) = 0
  BY <1>2, SumZero, Finite
<1> QED BY <1>1, <1>3 DEF ChargeInv, Charges

\* No scheduler moves, and no charge.
Resting ==
  /\ Quiet /\ job' = job
  /\ \A s \in Sched :
       /\ sched'[s].attach = sched[s].attach /\ sched'[s].queue = sched[s].queue
       /\ sched[s].attach # None =>
            agg'[sched[s].attach].parent = agg[sched[s].attach].parent
  /\ \A a \in Agg : agg'[a].usage = agg[a].usage /\ agg'[a].limit \in Nat

LEMMA RestingCharge ==
  ASSUME TreeInv, ChargeInv, Resting
  PROVE  ChargeInv'
<1>1. ASSUME NEW s \in Sched, NEW a PROVE Held(s, a)' = Held(s, a)
  <2>1. PICK x : x = sched[s].attach /\ x = sched'[s].attach
    BY DEF Resting
  <2>2. ChainOf(x)' = ChainOf(x)
    BY <2>1 DEF Resting, ChainOf
  <2>3. Queued(s)' = Queued(s)
    BY DEF Resting, Queued, Bytes
  <2>4. PICK j : j = job[s] /\ j = job'[s]
    BY DEF Resting
  <2>5. Held(s, a) = IF a \in ChainOf(x) THEN Queued(s) + Underway(j, x, a) ELSE 0
    BY <2>1, <2>4 DEF Held
  <2>6. Held(s, a)' = IF a \in ChainOf(x)' THEN Queued(s)' + Underway(j, x, a) ELSE 0
    BY <2>1, <2>4, NextHeld
  <2> QED BY <2>2, <2>3, <2>5, <2>6
<1>2. ASSUME NEW a \in Agg PROVE agg'[a].usage = SumFunctionOnSet(HeldAt(a), Sched)'
  <2>1. HeldAt(a)' = HeldAt(a)
    BY <1>1 DEF HeldAt
  <2> QED BY <2>1 DEF Resting, ChargeInv, Charges
<1>3. Charges' /\ Limited'
  BY <1>2 DEF Charges, Limited, Resting
<1> QED BY <1>3, QuietCharge DEF Resting

\* One scheduler is hung elsewhere, with n bytes queued.
Hung(s, own, x, n) ==
  /\ Quiet /\ job' = job
  /\ own = sched[s].attach /\ x = sched'[s].attach /\ n = Queued(s)'
  /\ \A r \in Sched \ {s} : sched'[r] = sched[r]
  /\ \A a \in Agg : agg'[a].parent = agg[a].parent /\ agg'[a].limit = agg[a].limit
  /\ \A a \in Agg : agg'[a].usage = agg[a].usage + ((IF a \in ChainOf(x) THEN n ELSE 0)
                                       - (IF a \in ChainOf(own) THEN Queued(s) ELSE 0))

LEMMA HungCharge ==
  ASSUME TreeInv, TreeInv', ChargeInv, NEW s \in Sched, NEW own, NEW x, NEW n \in Nat,
         Hung(s, own, x, n)
  PROVE  ChargeInv'
<1>1. \A y \in Agg \cup {None} : ChainOf(y)' = ChainOf(y)
  BY ChainStays DEF Hung
<1>2. /\ \A r \in Sched : sched[r].attach \in Agg \cup {None} /\ sched'[r].attach \in Agg \cup {None}
      /\ \A r \in Sched : job[r] = Idle /\ job'[r] = Idle
      /\ \A r \in Sched : Queued(r) \in Nat
  <2>1. \A r \in Sched : sched[r].attach \in Agg \cup {None} /\ sched'[r].attach \in Agg \cup {None}
    BY DEF TreeInv, Shapes, Scheds
  <2> QED BY <2>1, ChargeFacts DEF Hung, Quiet
<1>3. \A j, a : j = Idle => \A y : Underway(j, y, a) = 0
  BY FreeJob, IdleFree
<1>4. ASSUME NEW r \in Sched \ {s}, NEW a PROVE Held(r, a)' = Held(r, a) /\ Held(r, a) \in Nat
  <2>1. PICK y : y = sched[r].attach /\ y = sched'[r].attach
    BY DEF Hung
  <2>2. ChainOf(y)' = ChainOf(y)
    BY <1>1, <1>2, <2>1
  <2>3. Queued(r)' = Queued(r)
    BY DEF Hung, Queued, Bytes
  <2>4. Held(r, a) = IF a \in ChainOf(y) THEN Queued(r) ELSE 0
    BY <1>2, <2>1, HeldQueued DEF OnlyQueued
  <2>5. Held(r, a)' = IF a \in ChainOf(y)' THEN Queued(r)' + Underway(Idle, y, a) ELSE 0
    BY <1>2, <2>1, NextHeld
  <2> QED BY <1>2, <1>3, <2>2, <2>3, <2>4, <2>5
<1>5. ASSUME NEW a
      PROVE  /\ Held(s, a) = IF a \in ChainOf(own) THEN Queued(s) ELSE 0
             /\ Held(s, a)' = IF a \in ChainOf(x) THEN n ELSE 0
  <2>1. ChainOf(x)' = ChainOf(x)
    BY <1>1, <1>2 DEF Hung
  <2>2. Held(s, a) = IF a \in ChainOf(own) THEN Queued(s) ELSE 0
    BY <1>2, HeldQueued DEF OnlyQueued, Hung
  <2>3. Held(s, a)' = IF a \in ChainOf(x)' THEN n + Underway(Idle, x, a) ELSE 0
    BY <1>2, NextHeld DEF Hung
  <2> QED BY <1>3, <2>1, <2>2, <2>3
<1>6. ASSUME NEW a \in Agg PROVE agg'[a].usage = SumFunctionOnSet(HeldAt(a), Sched)'
  <2>1. PICK f, g : f = HeldAt(a) /\ g = HeldAt(a)'
    OBVIOUS
  <2>2. \A r \in Sched : f[r] = Held(r, a) /\ g[r] = Held(r, a)'
    BY <2>1 DEF HeldAt
  <2>3. \A r \in Sched \ {s} : f[r] = g[r] /\ f[r] \in Int
    BY <1>4, <2>2
  <2>4. f[s] \in Nat /\ g[s] \in Nat
    BY <1>2, <1>5, <2>2
  <2>5. SumFunctionOnSet(g, Sched) = SumFunctionOnSet(f, Sched) + (g[s] - f[s])
    <3>1. \A r \in Sched : f[r] \in Int /\ g[r] \in Int
      <4>1. ASSUME NEW r \in Sched PROVE f[r] \in Int /\ g[r] \in Int
        <5>1. CASE r = s
          BY <2>4, <5>1
        <5>2. CASE r # s
          BY <2>3, <5>2
        <5> QED BY <5>1, <5>2
      <4> QED BY <4>1
    <3> QED BY <2>3, <3>1, Finite, SumChange
  <2>6. agg[a].usage = SumFunctionOnSet(f, Sched)
    BY <2>1 DEF ChargeInv, Charges
  <2>7. SumFunctionOnSet(HeldAt(a), Sched)' = SumFunctionOnSet(g, Sched)
    BY <2>1
  <2>8. agg'[a].usage = agg[a].usage + (g[s] - f[s])
    BY <1>5, <2>2 DEF Hung
  <2> QED BY <2>5, <2>6, <2>7, <2>8
<1>7. Charges' /\ Limited'
  BY <1>6 DEF Charges, Limited, Hung, ChargeInv
<1> QED BY <1>7, QuietCharge DEF Hung

LEMMA SameChargeTwice ==
  ASSUME NEW f, NEW g, NEW h, SameCharge(f, g), SameCharge(g, h)
  PROVE  SameCharge(f, h)
BY DEF SameCharge

\* A child's weight that comes or goes moves no charge.
LEMMA WeightCharge ==
  ASSUME NEW g, Tiers(g), NEW a \in Agg \cup {None}, NEW w
  PROVE  SameCharge(g, WeightAdd(g, a, w)) /\ SameCharge(g, WeightSub(g, a, w))
<1>1. CASE a = None
  BY <1>1 DEF WeightAdd, WeightSub, SameCharge
<1>2. CASE a # None
  <2>1. PICK p : p = g[a].parent
    OBVIOUS
  <2>2. a \in Agg /\ p \in Agg \cup {None}
    BY <1>2, <2>1 DEF Tiers, Tier
  <2>3. ASSUME NEW n, NEW h, h = Moved(g, a, w, n)
        PROVE  /\ SameCharge(g, h)
               /\ p # None => SameCharge(g, Moved(h, p, g[a].eweight, n))
    <3>1. SameTree(g, h) /\ Tiers(h)
      BY <2>2, <2>3, MovedSame DEF SameTree
    <3>2. SameCharge(g, h)
      BY <2>2, <2>3, MovedCharge
    <3>3. p # None => SameCharge(h, Moved(h, p, g[a].eweight, n))
      BY <2>2, <3>1, MovedCharge
    <3> QED BY <3>2, <3>3, SameChargeTwice
  <2>4. PICK h, k : h = Moved(g, a, w, 1) /\ k = Moved(g, a, w, -1)
    OBVIOUS
  <2>5. /\ WeightAdd(g, a, w) = IF g[a].nActive = 0 /\ p # None
                                THEN Moved(h, p, g[a].eweight, 1) ELSE h
        /\ WeightSub(g, a, w) = IF g[a].nActive = 1 /\ p # None
                                THEN Moved(k, p, g[a].eweight, -1) ELSE k
    BY <1>2, <2>1, <2>4, Zenon DEF WeightAdd, WeightSub
  <2> QED BY <2>3, <2>4, <2>5
<1> QED BY <1>1, <1>2

\* A control operation finds the owner threads idle and the charges exact.
LEMMA ControlCharge ==
  ASSUME TreeInv, ChargeInv
  PROVE  \A a \in Agg : agg[a].usage \in Nat /\ agg[a].limit \in Nat
BY FirmCharged DEF FirmKnown, ChargeInv, Limited, TreeInv, Shapes

LEMMA EnableCharge ==
  ASSUME TreeInv, TreeInv', ChargeInv, NEW s \in Sched, NEW r \in Rates, NEW w \in Weights,
         Enable(s, r, w)
  PROVE  ChargeInv'
<1>1. MainFree /\ ~sched[s].on /\ UNCHANGED <<live, agg, aggOf, job, ctl>>
  BY DEF Enable
<1>2. Quiet /\ sched[s].attach = None
  BY <1>1, ControlFacts DEF Attached
<1>3. PICK d : /\ d = [Disabled EXCEPT !.on = TRUE, !.attach = Resolve(s, aggOf, agg),
                                       !.eweight = EffectiveWeight(r, w)]
               /\ sched' = [sched EXCEPT ![s] = d]
  BY DEF Enable
<1>4. /\ \A q \in Sched \ {s} : sched'[q] = sched[q]
      /\ sched'[s] = d /\ d.queue = [l \in Lens |-> 0]
  BY <1>3, ControlFacts DEF Scheds, Disabled
<1>5. Queued(s)' = 0
  BY <1>4, BytesNone DEF Queued, Bytes
<1>6. ChainOf(None) = {}
  BY DEF ChainOf
<1>7. \A a \in Agg : agg'[a].usage = agg[a].usage + ((IF a \in ChainOf(d.attach) THEN 0 ELSE 0)
                                         - (IF a \in ChainOf(None) THEN Queued(s) ELSE 0))
  BY <1>1, <1>6, ControlCharge
<1>8. Hung(s, None, d.attach, 0)
  BY <1>1, <1>2, <1>4, <1>5, <1>7 DEF Hung
<1> QED BY <1>8, HungCharge

LEMMA DisableCharge ==
  ASSUME TreeInv, TreeInv', ChargeInv, NEW s \in Sched, Disable(s)
  PROVE  ChargeInv'
<1>1. MainFree /\ UNCHANGED <<live, aggOf, job, ctl>> /\ sched' = [sched EXCEPT ![s] = Disabled]
  BY DEF Disable
<1>2. Quiet
  BY <1>1, ControlFacts
<1>3. PICK own, n : own = sched[s].attach /\ n = Queued(s)
  OBVIOUS
<1>4. own \in Agg \cup {None} /\ n \in Nat
  BY <1>3, ChargeFacts
<1>5. PICK drained : drained = [a \in Agg |->
        IF a \in ChainOf(own) THEN [agg[a] EXCEPT !.usage = @ - n] ELSE agg[a]]
  OBVIOUS
<1>6. agg' = IF sched[s].active THEN WeightSub(drained, own, sched[s].eweight) ELSE drained
  BY <1>3, <1>5, Zenon DEF Disable
<1>7. Tiers(drained)
  <2>1. drained = [a \in Agg |-> drained[a]]
    BY <1>5
  <2>2. ASSUME NEW a \in Agg PROVE Tier(drained[a])
    <3>1. Tier(agg[a])
      BY ControlFacts DEF Tiers
    <3>2. drained[a] = [agg[a] EXCEPT !.usage = @ - n] \/ drained[a] = agg[a]
      BY <1>5
    <3> QED BY <3>1, <3>2, TierTouched, Zenon
  <2> QED BY <2>1, <2>2 DEF Tiers
<1>8. ASSUME NEW a \in Agg
      PROVE  /\ drained[a].parent = agg[a].parent /\ drained[a].limit = agg[a].limit
             /\ drained[a].usage = agg[a].usage - (IF a \in ChainOf(own) THEN n ELSE 0)
  <2>1. PICK t : t = agg[a]
    OBVIOUS
  <2>2. Tier(t) /\ t.usage \in Nat
    BY <2>1, ControlCharge, ControlFacts DEF Tiers
  <2>3. drained[a] = IF a \in ChainOf(own) THEN [t EXCEPT !.usage = @ - n] ELSE t
    BY <1>5, <2>1
  <2> QED BY <2>1, <2>2, <2>3 DEF Tier, TierFields
<1>9. SameCharge(drained, agg')
  BY <1>4, <1>6, <1>7, WeightCharge DEF SameCharge
<1>10. /\ \A q \in Sched \ {s} : sched'[q] = sched[q]
       /\ sched'[s].attach = None /\ sched'[s].queue = [l \in Lens |-> 0]
  BY <1>1, ControlFacts DEF Scheds, Disabled
<1>11. Queued(s)' = 0
  BY <1>10, BytesNone DEF Queued, Bytes
<1>12. ASSUME NEW a \in Agg
       PROVE  /\ agg'[a].parent = agg[a].parent /\ agg'[a].limit = agg[a].limit
              /\ agg'[a].usage = agg[a].usage + ((IF a \in ChainOf(None) THEN 0 ELSE 0)
                                        - (IF a \in ChainOf(own) THEN Queued(s) ELSE 0))
  <2>1. /\ agg'[a].parent = agg[a].parent /\ agg'[a].limit = agg[a].limit
        /\ agg'[a].usage = agg[a].usage - (IF a \in ChainOf(own) THEN n ELSE 0)
    BY <1>8, <1>9 DEF SameCharge
  <2>2. agg[a].usage \in Nat
    BY ControlCharge
  <2> QED BY <1>3, <1>4, <2>1, <2>2
<1>13. Hung(s, own, None, 0)
  BY <1>1, <1>2, <1>3, <1>10, <1>11, <1>12 DEF Hung
<1> QED BY <1>13, HungCharge

LEMMA ReparentOneCharge ==
  ASSUME TreeInv, TreeInv', ChargeInv, NEW s \in Sched, ReparentOne(s)
  PROVE  ChargeInv'
<1>1. s \in ctl.todo /\ UNCHANGED <<live, aggOf, job>>
  BY DEF ReparentOne
<1>2. Quiet
  BY <1>1, ControlFacts
<1>3. PICK old, new, n : /\ old = sched[s].attach /\ new = Resolve(s, aggOf, agg)
                         /\ n = Queued(s)
  OBVIOUS
<1>4. new \in Agg \cup {None} /\ old \in Agg \cup {None} /\ n \in Nat
  BY <1>3, ResolveKept, ControlFacts, ChargeFacts DEF Kept, Scheds
<1>5. PICK e : e = sched[s].eweight
  OBVIOUS
<1>6. PICK moved : moved = IF sched[s].active
                           THEN WeightAdd(WeightSub(agg, old, e), new, e) ELSE agg
  OBVIOUS
<1>7. SameCharge(agg, moved) /\ Tiers(moved)
  <2>1. PICK h : h = WeightSub(agg, old, e)
    OBVIOUS
  <2>2. SameTree(agg, h) /\ Tiers(h) /\ SameCharge(agg, h)
    BY <1>4, <2>1, WeightSubSame, WeightCharge, ControlFacts DEF SameTree
  <2>3. SameTree(h, WeightAdd(h, new, e)) /\ SameCharge(h, WeightAdd(h, new, e))
    BY <1>4, <2>2, WeightAddSame, WeightCharge
  <2>4. Tiers(agg) /\ SameCharge(agg, agg)
    BY ControlFacts DEF SameCharge
  <2>5. SameCharge(agg, WeightAdd(h, new, e)) /\ Tiers(WeightAdd(h, new, e))
    BY <2>2, <2>3, SameChargeTwice DEF SameTree
  <2> QED BY <1>6, <2>1, <2>4, <2>5
<1>8. agg' = IF new = old THEN agg ELSE Recharge(moved, s, old, new)
  BY <1>3, <1>5, <1>6, Zenon DEF ReparentOne
<1>9. ASSUME NEW a \in Agg
      PROVE  /\ agg'[a].parent = agg[a].parent /\ agg'[a].limit = agg[a].limit
             /\ agg'[a].usage = agg[a].usage + ((IF a \in ChainOf(new) THEN n ELSE 0)
                                       - (IF a \in ChainOf(old) THEN Queued(s) ELSE 0))
  <2>1. agg[a].usage \in Nat
    BY ControlCharge
  <2>2. PICK t : t = moved[a]
    OBVIOUS
  <2>3. /\ Tier(t) /\ t.parent = agg[a].parent /\ t.limit = agg[a].limit
        /\ t.usage = agg[a].usage
    BY <1>7, <2>2 DEF SameCharge, Tiers
  <2>4. CASE new = old
    BY <1>3, <1>4, <1>8, <2>1, <2>4
  <2>5. CASE new # old
    <3>1. PICK v : v = t.usage + (IF a \in ChainOf(new) \ ChainOf(old) THEN n ELSE 0)
                         - (IF a \in ChainOf(old) \ ChainOf(new) THEN n ELSE 0)
      OBVIOUS
    <3>2. agg'[a] = [t EXCEPT !.usage = v]
      BY <1>3, <1>8, <2>2, <2>5, <3>1 DEF Recharge
    <3>3. agg'[a].parent = t.parent /\ agg'[a].limit = t.limit /\ agg'[a].usage = v
      BY <2>3, <3>2 DEF Tier, TierFields
    <3>4. v = agg[a].usage + ((IF a \in ChainOf(new) THEN n ELSE 0)
                              - (IF a \in ChainOf(old) THEN n ELSE 0))
      BY <1>4, <2>1, <2>3, <3>1
    <3> QED BY <1>3, <2>3, <3>3, <3>4
  <2> QED BY <2>4, <2>5
<1>10. /\ \A q \in Sched \ {s} : sched'[q] = sched[q]
       /\ sched'[s].attach = new /\ sched'[s].queue = sched[s].queue
  <2>1. sched' = [sched EXCEPT ![s].attach = new]
    BY <1>3, Zenon DEF ReparentOne
  <2> QED BY <2>1, ControlFacts DEF Scheds
<1>11. Queued(s)' = n
  BY <1>3, <1>10 DEF Queued, Bytes
<1>12. Hung(s, old, new, n)
  BY <1>1, <1>2, <1>3, <1>9, <1>10, <1>11 DEF Hung
<1> QED BY <1>4, <1>12, HungCharge

\* A table that differs in no charge, nor in a tier somebody hangs on.
LEMMA OffTree ==
  ASSUME TreeInv, ChargeInv, Quiet, UNCHANGED <<sched, job>>, NEW h, agg' = h,
         \A a \in Agg : h[a].usage = agg[a].usage /\ h[a].limit \in Nat,
         \A a \in Kept : h[a].parent = agg[a].parent, ctl.todo = {}
  PROVE  ChargeInv'
<1>1. ASSUME NEW s \in Sched, sched[s].attach # None PROVE sched[s].attach \in Kept
  <2>1. Resolve(s, aggOf, agg) \in Kept \cup {None}
    BY ResolveKept, ControlFacts
  <2> QED BY <1>1, <2>1, ControlFacts DEF Attached
<1>2. Resting
  BY <1>1 DEF Resting
<1> QED BY <1>2, RestingCharge

\* A slot off the tree is charged nothing.
LEMMA OffTreeFree ==
  ASSUME TreeInv, ChargeInv, ctl.todo = {}, NEW a \in Agg \ Kept
  PROVE  agg[a].usage = 0
<1>1. ASSUME NEW s \in Sched PROVE a \notin ChainOf(sched[s].attach)
  <2>1. PICK own : own = sched[s].attach
    OBVIOUS
  <2>2. own \in Kept \cup {None}
    <3>1. Resolve(s, aggOf, agg) \in Kept \cup {None}
      BY ResolveKept, ControlFacts
    <3> QED BY <2>1, <3>1, ControlFacts DEF Attached
  <2>3. \A b \in Kept : agg[b].parent \in Kept \cup {None}
    BY ControlFacts DEF Svlans, Svlan
  <2> QED BY <2>1, <2>2, <2>3 DEF ChainOf
<1> QED BY <1>1, UnusedFree

LEMMA InterfaceDelCharge ==
  ASSUME TreeInv, ChargeInv, NEW p \in Port, InterfaceDel(p)
  PROVE  ChargeInv'
<1>1. MainFree /\ UNCHANGED <<agg, sched, job>>
  BY DEF InterfaceDel
<1> QED BY <1>1, ControlFacts, ControlCharge, OffTree

LEMMA PutAggCharge ==
  ASSUME TreeInv, ChargeInv, PutAgg
  PROVE  ChargeInv'
<1>1. /\ ctl.todo = {} /\ ctl.gone # None
      /\ agg' = [agg EXCEPT ![ctl.gone] = FreeAgg] /\ UNCHANGED <<sched, job>>
  BY DEF PutAgg
<1>2. Quiet /\ ctl.gone \in Agg \ Kept
  BY <1>1, ControlFacts DEF Goner, Kept
<1>3. agg[ctl.gone].usage = 0
  BY <1>1, <1>2, OffTreeFree
<1>4. FreeAgg.usage = 0 /\ FreeAgg.limit = 0
  BY DEF FreeAgg, NewAgg
<1>5. \A a \in Agg : agg'[a] = IF a = ctl.gone THEN FreeAgg ELSE agg[a]
  BY <1>1, <1>2, ControlFacts DEF Tables
<1>6. PICK h : h = agg'
  OBVIOUS
<1>7. \A a \in Agg : h[a].usage = agg[a].usage /\ h[a].limit \in Nat
  BY <1>3, <1>4, <1>5, <1>6, ControlCharge
<1>8. \A a \in Kept : h[a].parent = agg[a].parent
  BY <1>2, <1>5, <1>6, ControlFacts DEF Kept
<1> QED BY <1>1, <1>2, <1>6, <1>7, <1>8, OffTree, Zenon

LEMMA CreatePortCharge ==
  ASSUME TreeInv, ChargeInv, NEW p \in Port, NEW r \in Rates, NEW w \in Weights,
         NEW n \in Limits, CreatePort(p, r, w, n)
  PROVE  ChargeInv'
<1>1. MainFree /\ UNCHANGED <<sched, job>>
  BY DEF CreatePort
<1>2. Quiet /\ ctl.todo = {} /\ Kept = live
  BY <1>1, ControlFacts
<1>3. PICK a, q : /\ a \in Agg \ live /\ q = NewAgg(None, 0, 0, r, w, n)
                  /\ agg' = [agg EXCEPT ![a] = q]
  BY DEF CreatePort
<1>4. agg[a].usage = 0
  BY <1>2, <1>3, OffTreeFree
<1>5. q.usage = 0 /\ q.limit \in Nat
  BY <1>3, TreeAssumption DEF NewAgg
<1>6. PICK h : h = agg'
  OBVIOUS
<1>7. \A b \in Agg : h[b] = IF b = a THEN q ELSE agg[b]
  BY <1>3, <1>6, ControlFacts DEF Tables
<1>8. \A b \in Agg : h[b].usage = agg[b].usage /\ h[b].limit \in Nat
  BY <1>4, <1>5, <1>7, ControlCharge
<1>9. \A b \in Kept : h[b].parent = agg[b].parent
  BY <1>2, <1>3, <1>7, ControlFacts
<1> QED BY <1>1, <1>2, <1>6, <1>8, <1>9, OffTree

LEMMA CreateSvlanCharge ==
  ASSUME TreeInv, ChargeInv, NEW p \in Port, NEW first \in Tag, NEW last \in Tag,
         NEW r \in Rates, NEW w \in Weights, NEW n \in Limits,
         CreateSvlan(p, first, last, r, w, n)
  PROVE  ChargeInv'
<1> DEFINE port == aggOf[p]
<1>1. MainFree /\ port # None /\ UNCHANGED <<sched, job>>
  BY Zenon DEF CreateSvlan
<1>2. Quiet /\ ctl.todo = {} /\ Kept = live /\ port \in live /\ live \subseteq Agg
  BY <1>1, ControlFacts DEF Ports
<1>3. PICK a \in Agg \ live : agg' = [agg EXCEPT
        ![a] = NewAgg(port, first, last, r, w, n),
        ![port].map = [t \in Tag |-> IF t \in first..last THEN a ELSE @[t]]]
  BY Zenon DEF CreateSvlan
<1> HIDE DEF port
<1>4. PICK q, m, t : /\ q = NewAgg(port, first, last, r, w, n) /\ t = agg[port]
                     /\ m = [x \in Tag |-> IF x \in first..last THEN a ELSE t.map[x]]
  OBVIOUS
<1>5. a # port /\ a \in Agg /\ a \notin live
  BY <1>2, <1>3
<1>6. PICK h : h = agg'
  OBVIOUS
<1>7. PICK z : z = [t EXCEPT !.map = m]
  OBVIOUS
<1>8. \A b \in Agg : h[b] = IF b = a THEN q ELSE IF b = port THEN z ELSE agg[b]
  <2>1. PICK g : g = [agg EXCEPT ![a] = q]
    OBVIOUS
  <2>2. /\ g[port] = t /\ g = [b \in Agg |-> g[b]]
        /\ g[a] = q /\ \A b \in Agg : b # a => g[b] = agg[b]
    BY <1>2, <1>4, <1>5, <2>1, ControlFacts DEF Tables
  <2>3. agg' = [g EXCEPT ![port] = [g[port] EXCEPT !.map = m]]
    BY <1>3, <1>4, <1>5, <2>1, <2>2
  <2>4. agg' = [g EXCEPT ![port] = z]
    BY <1>7, <2>2, <2>3
  <2> QED BY <1>2, <1>5, <1>6, <2>2, <2>4
<1>9. Tier(t)
  BY <1>2, <1>4, ControlFacts DEF Tiers
<1>10. z.usage = t.usage /\ z.limit = t.limit /\ z.parent = t.parent
  BY <1>7, <1>9 DEF Tier, TierFields
<1>11. agg[a].usage = 0
  BY <1>2, <1>3, OffTreeFree
<1>12. q.usage = 0 /\ q.limit \in Nat
  BY <1>4, TreeAssumption DEF NewAgg
<1>13. \A b \in Agg : h[b].usage = agg[b].usage /\ h[b].limit \in Nat
  BY <1>4, <1>8, <1>10, <1>11, <1>12, ControlCharge
<1>14. \A b \in Kept : h[b].parent = agg[b].parent
  BY <1>2, <1>4, <1>5, <1>8, <1>10
<1> QED BY <1>1, <1>2, <1>6, <1>13, <1>14, OffTree

\* A delete changes nothing but the names of the S-VLAN in its port.
LEMMA RemoveSvlanCharge ==
  ASSUME TreeInv, ChargeInv, Barrier, NEW p \in Port, NEW t \in Tag, RemoveSvlan(p, t)
  PROVE  ChargeInv'
<1>1. aggOf[p] # None /\ UNCHANGED <<sched, job>>
  BY Zenon DEF RemoveSvlan
<1>2. PICK port : port = aggOf[p]
  OBVIOUS
<1>3. Quiet /\ ctl.todo = {} /\ Kept = live /\ port \in live /\ live \subseteq Agg
  BY <1>1, <1>2, ControlFacts DEF Ports
<1>4. PICK m, z : z = [agg[port] EXCEPT !.map = m] /\ agg' = [agg EXCEPT ![port] = z]
  BY <1>2 DEF RemoveSvlan
<1>5. Tier(agg[port])
  BY <1>3, ControlFacts DEF Tiers
<1>6. z.usage = agg[port].usage /\ z.limit = agg[port].limit /\ z.parent = agg[port].parent
  BY <1>4, <1>5 DEF Tier, TierFields
<1>7. PICK h : h = agg'
  OBVIOUS
<1>8. \A b \in Agg : h[b] = IF b = port THEN z ELSE agg[b]
  BY <1>3, <1>4, <1>7, ControlFacts DEF Tables
<1>9. \A b \in Agg : h[b].usage = agg[b].usage /\ h[b].limit \in Nat
  BY <1>6, <1>8, ControlCharge
<1>10. \A b \in Kept : h[b].parent = agg[b].parent
  BY <1>3, <1>6, <1>8
<1> QED BY <1>1, <1>3, <1>7, <1>9, <1>10, OffTree

LEMMA RemovePortCharge ==
  ASSUME TreeInv, ChargeInv, Barrier, NEW p, RemovePort(p)
  PROVE  ChargeInv'
<1>1. UNCHANGED <<agg, sched, job>>
  BY DEF RemovePort
<1> QED BY <1>1, ControlFacts, ControlCharge, OffTree

LEMMA UpdateCharge ==
  ASSUME TreeInv, ChargeInv, NEW p \in Port, NEW tag \in Tag \cup {None},
         NEW r \in Rates \cup {0}, NEW w \in Weights \cup {0}, NEW n \in Limits \cup {0},
         Update(p, tag, r, w, n)
  PROVE  ChargeInv'
<1> DEFINE port == aggOf[p]
           a == IF tag = None THEN port ELSE agg[port].map[tag]
           old == agg[a]
           new == [old EXCEPT !.rate = IF r = 0 THEN @ ELSE r,
                              !.weight = IF w = 0 THEN @ ELSE w,
                              !.limit = IF n = 0 THEN @ ELSE n]
           ew == EffectiveWeight(new.rate, new.weight)
<1>1. MainFree /\ UNCHANGED <<sched, job>>
  BY Zenon DEF Update
<1>2. agg' = [b \in Agg |->
        IF b = a THEN [new EXCEPT !.eweight = ew]
        ELSE IF b = old.parent /\ CountedAbove(a)
          THEN [agg[b] EXCEPT !.activeWeight = @ + ew - old.eweight]
        ELSE agg[b]]
  BY Zenon DEF Update
<1> HIDE DEF ew, new, old, a, port
<1>3. n \in Nat
  <2>1. Limits \subseteq Nat
    BY TreeAssumption
  <2> QED BY <2>1
<1>4. PICK h : h = agg'
  OBVIOUS
<1>5. ASSUME NEW b \in Agg
      PROVE  /\ h[b].usage = agg[b].usage /\ h[b].limit \in Nat
             /\ h[b].parent = agg[b].parent
  <2>1. PICK t : t = agg[b]
    OBVIOUS
  <2>2. Tier(t) /\ t.limit \in Nat
    BY <2>1, ControlFacts, ControlCharge DEF Tiers
  <2>3. CASE b = a
    <3>1. PICK q : q = [new EXCEPT !.eweight = ew]
      OBVIOUS
    <3>2. h[b] = q
      BY <1>2, <1>4, <2>3, <3>1
    <3>3. q.usage = t.usage /\ q.parent = t.parent /\ q.limit \in Nat
      BY <1>3, <2>1, <2>2, <2>3, <3>1 DEF Tier, TierFields, new, old
    <3> QED BY <2>1, <3>2, <3>3
  <2>4. CASE b # a
    <3>1. PICK v : v = t.activeWeight + ew - old.eweight
      OBVIOUS
    <3>2. h[b] = t \/ h[b] = [t EXCEPT !.activeWeight = v]
      BY <1>2, <1>4, <2>1, <2>4, <3>1
    <3> QED BY <2>1, <2>2, <3>2 DEF Tier, TierFields
  <2> QED BY <2>3, <2>4
<1> QED BY <1>1, <1>4, <1>5, ControlFacts, OffTree DEF Kept

LEMMA DeleteCharge ==
  ASSUME TreeInv, ChargeInv,
         \/ \E p \in Port, t \in Tag : DeleteSvlan(p, t)
         \/ \E p \in Port : DeletePort(p)
         \/ CascadeSvlan \/ CascadePort
  PROVE  ChargeInv'
<1>1. ASSUME NEW p \in Port, NEW t \in Tag, DeleteSvlan(p, t) PROVE ChargeInv'
  BY <1>1, RemoveSvlanCharge DEF DeleteSvlan, MainFree
<1>2. ASSUME NEW p \in Port, DeletePort(p) PROVE ChargeInv'
  BY <1>2, RemovePortCharge DEF DeletePort, MainFree
<1>3. CASE CascadeSvlan
  <2>1. PICK t \in ctl.tags : RemoveSvlan(ctl.cascade, t)
    BY <1>3 DEF CascadeSvlan
  <2>2. Barrier /\ ctl.cascade \in Port /\ t \in Tag
    BY <1>3, <2>1, ControlFacts DEF CascadeSvlan, Controls
  <2> QED BY <2>1, <2>2, RemoveSvlanCharge
<1>4. CASE CascadePort
  BY <1>4, RemovePortCharge DEF CascadePort
<1> QED BY <1>1, <1>2, <1>3, <1>4

LEMMA ChangeCharge ==
  ASSUME TreeInv, TreeInv', ChargeInv, Control
  PROVE  ChargeInv'
<1>1. ASSUME \E s \in Sched, r \in Rates, w \in Weights : Enable(s, r, w) PROVE ChargeInv'
  BY <1>1, EnableCharge
<1>2. ASSUME \E s \in Sched : Disable(s) \/ ReparentOne(s) PROVE ChargeInv'
  BY <1>2, DisableCharge, ReparentOneCharge
<1>3. ASSUME \E p \in Port, r \in Rates, w \in Weights, n \in Limits : CreatePort(p, r, w, n)
      PROVE  ChargeInv'
  BY <1>3, CreatePortCharge
<1>4. ASSUME \E p \in Port, f \in Tag, t \in Tag, r \in Rates, w \in Weights, n \in Limits :
               CreateSvlan(p, f, t, r, w, n)
      PROVE  ChargeInv'
  BY <1>4, CreateSvlanCharge
<1>5. ASSUME \E p \in Port : DeletePort(p) \/ InterfaceDel(p) PROVE ChargeInv'
  BY <1>5, DeleteCharge, InterfaceDelCharge
<1>6. ASSUME \E p \in Port, t \in Tag \cup {None}, r \in Rates \cup {0},
               w \in Weights \cup {0}, n \in Limits \cup {0} : Update(p, t, r, w, n)
      PROVE  ChargeInv'
  BY <1>6, UpdateCharge
<1>7. (\E p \in Port, t \in Tag : DeleteSvlan(p, t)) \/ CascadeSvlan \/ CascadePort => ChargeInv'
  BY DeleteCharge
<1> QED BY <1>1, <1>2, <1>3, <1>4, <1>5, <1>6, <1>7, PutAggCharge, Zenon DEF Control

LEMMA InitCharge ==
  ASSUME Init
  PROVE  ChargeInv
<1>1. /\ \A s \in Sched : job[s] = Idle /\ sched[s] = Disabled
      /\ \A a \in Agg : agg[a] = FreeAgg
  BY DEF Init
<1>2. JobsPlaced /\ Within
  BY <1>1 DEF JobsPlaced, Within, Placed, Waiting, Idle
<1>3. FreeAgg.usage = 0 /\ FreeAgg.limit = 0
  BY DEF FreeAgg, NewAgg
<1>4. ASSUME NEW a \in Agg PROVE agg[a].usage = SumFunctionOnSet(HeldAt(a), Sched)
  <2>1. PICK f : f = HeldAt(a)
    OBVIOUS
  <2>2. \A s \in Sched : f[s] = 0
    BY <1>1, <2>1 DEF HeldAt, Held, ChainOf, Disabled
  <2>3. SumFunctionOnSet(f, Sched) = 0
    BY <2>2, SumZero, Finite
  <2> QED BY <1>1, <1>3, <2>1, <2>3
<1> QED BY <1>1, <1>2, <1>3, <1>4 DEF ChargeInv, Charges, Limited

LEMMA StepCharge ==
  ASSUME TreeInv, TreeInv', ChargeInv, [Next]_vars
  PROVE  ChargeInv'
<1>1. CASE Worker
  BY <1>1, WorkerCharge
<1>2. CASE Control
  BY <1>2, ChangeCharge
<1>3. CASE UNCHANGED vars
  <2>1. JobsPlaced' /\ Limited'
    BY <1>3 DEF vars, ChargeInv, JobsPlaced, Limited, Placed, ChainOf
  <2>2. ASSUME NEW s \in Sched, NEW a
        PROVE  Held(s, a)' = Held(s, a) /\ Firm(s, a)' = Firm(s, a)
    <3>1. PICK x, j : x = sched[s].attach /\ j = job[s]
      OBVIOUS
    <3>2. ChainOf(x)' = ChainOf(x) /\ Queued(s)' = Queued(s)
      BY <1>3 DEF vars, ChainOf, Queued, Bytes
    <3>3. /\ Held(s, a)' = IF a \in ChainOf(x)' THEN Queued(s)' + Underway(j, x, a) ELSE 0
          /\ Firm(s, a)' = IF a \in ChainOf(x)' THEN Queued(s)' + Passed(j, x, a) ELSE 0
      BY <1>3, <3>1, NextHeld DEF vars
    <3> QED BY <3>1, <3>2, <3>3 DEF Held, Firm
  <2>3. \A a : HeldAt(a)' = HeldAt(a) /\ FirmAt(a)' = FirmAt(a)
    BY <2>2 DEF HeldAt, FirmAt
  <2>4. Charges'
    BY <1>3, <2>3 DEF vars, Charges, ChargeInv
  <2>5. Within'
    <3>1. ASSUME NEW s \in Sched, Waiting(job[s], sched[s].attach)'
          PROVE  SumFunctionOnSet(FirmAt(sched[s].attach), Sched)' <= agg'[sched'[s].attach].limit
      <4>1. PICK x : x = sched[s].attach /\ x = sched'[s].attach
        BY <1>3 DEF vars
      <4>2. SumFunctionOnSet(FirmAt(x), Sched) <= agg[x].limit
        BY <1>3, <3>1, <4>1 DEF vars, ChargeInv, Within, Waiting
      <4>3. FirmAt(sched[s].attach)' = FirmAt(x)
        <5>1. FirmAt(sched[s].attach)' = FirmAt(x)'
          BY <4>1 DEF FirmAt, Firm
        <5> QED BY <2>3, <5>1
      <4> QED BY <1>3, <4>1, <4>2, <4>3 DEF vars
    <3> QED BY <3>1 DEF Within
  <2> QED BY <2>1, <2>4, <2>5 DEF ChargeInv
<1> QED BY <1>1, <1>2, <1>3 DEF Next

\* What each tier has charged is what the schedulers beneath it hold, every
\* job is at a tier of its scheduler's chain, and while a packet waits for the
\* port what was admitted at its S-VLAN is within the limit there: inductive
\* for every operation of an owner thread and of the control plane
\* (cake_agg_admit, cake_agg_admit_chain, cake_agg_discharge,
\* cake_agg_reparent_all).
THEOREM ChargeInvariant == Spec => [](TreeInv /\ ChargeInv)
<1>1. Init => TreeInv /\ ChargeInv
  BY InitTree, InitCharge
<1>2. TreeInv /\ ChargeInv /\ [Next]_vars => TreeInv' /\ ChargeInv'
  BY StepTree, StepCharge
<1> QED BY <1>1, <1>2, PTL DEF Spec

\* A tier's buffer_usage never leaks a byte nor releases one twice, nor does
\* the unsigned count wrap, for any number of schedulers admitting at once and
\* whatever the tree went through (cake_agg_discharge, cake_agg_reparent_all).
THEOREM ChargeAlwaysExact == Spec => []ChargeExact
<1>1. TreeInv /\ ChargeInv => ChargeExact
  <2>1. SUFFICES ASSUME TreeInv, ChargeInv PROVE ChargeExact
    OBVIOUS
  <2>2. \A a \in Agg : agg[a].usage \in Nat
    BY <2>1, ControlCharge
  <2>3. \A s \in Sched : job[s].amt \in Nat
    BY <2>1 DEF ChargeInv, JobsPlaced, Placed
  <2>4. \A a \in live : agg[a].usage = SumFunctionOnSet(HeldAt(a), Sched)
    BY <2>1, ControlFacts DEF ChargeInv, Charges
  <2> QED BY <2>2, <2>3, <2>4 DEF ChargeExact, HeldAt
<1> QED BY <1>1, ChargeInvariant, PTL

\* What is admitted is firm at every tier of the chain.
AdmittedKnown(a) ==
  Scheds /\ JobsPlaced =>
    /\ Admitted(a) \in Int /\ SumFunctionOnSet(FirmAt(a), Sched) \in Int
    /\ Admitted(a) <= SumFunctionOnSet(FirmAt(a), Sched)

LEMMA AdmittedFirm ==
  ASSUME NEW a
  PROVE  AdmittedKnown(a)
<1>1. SUFFICES ASSUME Scheds, JobsPlaced
               PROVE  /\ Admitted(a) \in Int /\ SumFunctionOnSet(FirmAt(a), Sched) \in Int
                      /\ Admitted(a) <= SumFunctionOnSet(FirmAt(a), Sched)
  BY DEF AdmittedKnown
<1>2. PICK f : f = [s \in Sched |->
        IF a \in ChainOf(sched[s].attach)
        THEN Queued(s) + (IF job[s].pc = "admitted" THEN job[s].amt ELSE 0) ELSE 0]
  OBVIOUS
<1>3. PICK g : g = FirmAt(a)
  OBVIOUS
<1>4. ASSUME NEW s \in Sched PROVE f[s] \in Int /\ g[s] \in Int /\ f[s] <= g[s]
  <2>1. job[s].amt \in Nat
    BY <1>1 DEF JobsPlaced, Placed
  <2>2. Queued(s) \in Nat
    BY <1>1, <2>1, HeldTyped DEF HeldKnown
  <2>3. PICK p \in Nat : /\ p = Passed(job[s], sched[s].attach, a)
                         /\ (job[s].pc = "admitted" => p = job[s].amt)
    BY <2>1, PassedLess DEF Passed
  <2>4. g[s] = IF a \in ChainOf(sched[s].attach) THEN Queued(s) + p ELSE 0
    BY <1>3, <2>3 DEF FirmAt, Firm
  <2>5. f[s] = IF a \in ChainOf(sched[s].attach)
               THEN Queued(s) + (IF job[s].pc = "admitted" THEN job[s].amt ELSE 0) ELSE 0
    BY <1>2
  <2> QED BY <2>1, <2>2, <2>3, <2>4, <2>5
<1>5. /\ SumFunctionOnSet(f, Sched) \in Int /\ SumFunctionOnSet(g, Sched) \in Int
      /\ SumFunctionOnSet(f, Sched) <= SumFunctionOnSet(g, Sched)
  BY <1>4, SumInt, SumNoMore, Finite
<1>6. Admitted(a) = SumFunctionOnSet(f, Sched)
  BY <1>2 DEF Admitted
<1> QED BY <1>3, <1>5, <1>6

LEMMA AdmittedFirmNext ==
  ASSUME NEW a
  PROVE  AdmittedKnown(a)'
<1>1. AdmittedKnown(a)
  BY AdmittedFirm
<1> QED BY <1>1, PTL

\* A job becomes admitted only where its last tier let the packet in.
LEMMA AdmittedBy ==
  ASSUME TreeInv, [Next]_vars, NEW s \in Sched,
         job[s].pc # "admitted", job'[s].pc = "admitted"
  PROVE  \/ sched[s].attach = None
         \/ /\ Add(s) /\ Fits(job[s].at, job[s].amt) /\ agg[job[s].at].parent = None
            /\ job' = [job EXCEPT ![s] = Job("admitted", sched[s].attach, job[s].amt)]
<1>1. job' # job
  OBVIOUS
<1>2. ASSUME Control PROVE FALSE
  <2>1. \A p, t : RemoveSvlan(p, t) \/ RemovePort(p) => job' = job
    BY DEF RemoveSvlan, RemovePort
  <2>2. \A p, f, t, q, w, n : CreatePort(p, q, w, n) \/ CreateSvlan(p, f, t, q, w, n)
                               \/ Update(p, t, q, w, n) \/ InterfaceDel(p) => job' = job
    <3>1. ASSUME NEW p, NEW t, NEW q, NEW w, NEW n, Update(p, t, q, w, n) PROVE job' = job
      BY <3>1, Zenon DEF Update
    <3>2. ASSUME NEW p, NEW f, NEW t, NEW q, NEW w, NEW n, CreateSvlan(p, f, t, q, w, n)
          PROVE  UNCHANGED <<sched, job>>
      BY <3>2, Zenon DEF CreateSvlan
    <3> QED BY <3>1, <3>2 DEF CreatePort, InterfaceDel
  <2>3. \A r, q, w : Enable(r, q, w) \/ Disable(r) \/ ReparentOne(r) \/ PutAgg => job' = job
    BY Zenon DEF Enable, Disable, ReparentOne, PutAgg
  <2>4. \A p, t : DeleteSvlan(p, t) \/ DeletePort(p) \/ CascadeSvlan \/ CascadePort => job' = job
    BY <2>1, Zenon DEF DeleteSvlan, DeletePort, CascadeSvlan, CascadePort
  <2>5. job' = job
    BY <1>2, <2>2, <2>3, <2>4, Zenon DEF Control
  <2> QED BY <1>1, <2>5
<1>3. Worker
  BY <1>1, <1>2 DEF Next, vars
<1>4. PICK r \in Sched :
        \/ \E l \in Lens : Enqueue(r, l) \/ Dequeue(r, l)
        \/ Filter(r) \/ Add(r) \/ Undo(r) \/ Unwind(r)
        \/ Commit(r) \/ RingFull(r) \/ Release(r) \/ Evict(r) \/ Deactivate(r)
        \/ JoinWeight(r) \/ JoinCount(r) \/ LeaveWeight(r) \/ LeaveCount(r)
  BY <1>3 DEF Worker
<1>5. \A j : job' = [job EXCEPT ![r] = j] => r = s /\ j.pc = "admitted"
  BY ControlFacts DEF Jobs
<1>6. Idle.pc = "idle" /\ \A pc, at, amt : Job(pc, at, amt).pc = pc
  BY DEF Idle, Job
<1>7. ASSUME NEW l \in Lens, Enqueue(r, l) PROVE sched[s].attach = None
  <2>1. PICK j : /\ job' = [job EXCEPT ![r] = j]
                 /\ j = Job(IF sched[r].attach = None THEN "admitted" ELSE "filter",
                            sched[r].attach, l)
    BY <1>7 DEF Enqueue, Goto
  <2> QED BY <1>5, <1>6, <2>1
<1>8. CASE Add(r)
  <2>1. PICK j, fits : /\ job' = [job EXCEPT ![r] = j]
                       /\ fits <=> Fits(job[r].at, job[r].amt)
                       /\ j = IF ~fits THEN Job("undo", job[r].at, job[r].amt)
                              ELSE IF agg[job[r].at].parent = None
                                   THEN Job("admitted", sched[r].attach, job[r].amt)
                              ELSE Job("filter", agg[job[r].at].parent, job[r].amt)
    BY <1>8 DEF Add
  <2>2. r = s /\ j.pc = "admitted"
    BY <1>5, <2>1
  <2>3. fits /\ agg[job[r].at].parent = None
    BY <1>6, <2>1, <2>2
  <2> QED BY <1>8, <2>1, <2>2, <2>3
<1>9. ASSUME \/ \E l \in Lens : Dequeue(r, l)
             \/ Filter(r) \/ Undo(r) \/ Unwind(r)
             \/ Commit(r) \/ RingFull(r) \/ Release(r) \/ Evict(r) \/ Deactivate(r)
             \/ JoinWeight(r) \/ JoinCount(r) \/ LeaveWeight(r) \/ LeaveCount(r)
      PROVE  FALSE
  <2>1. ASSUME NEW l \in Lens, Dequeue(r, l) PROVE FALSE
    <3>1. PICK j : /\ job' = [job EXCEPT ![r] = j]
                   /\ (j = Idle \/ \E at, amt : j = Job("release", at, amt))
      BY <2>1 DEF Dequeue, Remove
    <3> QED BY <1>5, <1>6, <3>1
  <2>2. CASE Evict(r)
    <3>1. PICK out : Remove(r, out)
      BY <2>2 DEF Evict
    <3>2. PICK j : /\ job' = [job EXCEPT ![r] = j]
                   /\ (j = Idle \/ \E at, amt : j = Job("release", at, amt))
      BY <3>1 DEF Remove
    <3> QED BY <1>5, <1>6, <3>2
  <2>3. CASE Filter(r) \/ Undo(r) \/ Unwind(r)
    <3>1. PICK j : /\ job' = [job EXCEPT ![r] = j]
                   /\ (j = Idle \/ \E at, amt : j = Job("add", at, amt) \/ j = Job("unwind", at, amt))
      BY <2>3 DEF Filter, Undo, Unwind, Refused
    <3> QED BY <1>5, <1>6, <3>1
  <2>4. CASE Commit(r) \/ RingFull(r) \/ Release(r) \/ Deactivate(r)
    <3>1. PICK j : /\ job' = [job EXCEPT ![r] = j]
                   /\ \/ j = Idle
                      \/ \E at, amt : \/ j = Job("joinW", at, amt) \/ j = Job("release", at, amt)
                                      \/ j = Job("leaveW", at, amt)
      BY <2>4 DEF Commit, RingFull, Release, Deactivate
    <3> QED BY <1>5, <1>6, <3>1
  <2>5. CASE JoinWeight(r) \/ JoinCount(r) \/ LeaveWeight(r) \/ LeaveCount(r)
    <3>1. PICK j : /\ job' = [job EXCEPT ![r] = j]
                   /\ \/ j = Idle
                      \/ \E at, amt : \/ j = Job("joinW", at, amt) \/ j = Job("joinN", at, amt)
                                      \/ j = Job("leaveW", at, amt) \/ j = Job("leaveN", at, amt)
      BY <2>5 DEF JoinWeight, JoinCount, LeaveWeight, LeaveCount, Goto
    <3> QED BY <1>5, <1>6, <3>1
  <2> QED BY <1>9, <2>1, <2>2, <2>3, <2>4, <2>5
<1> QED BY <1>4, <1>7, <1>8, <1>9

\* At the tier that let it in the packet fits; below, it was let in before and
\* the step adds nothing to what is admitted there.
LEMMA AdmitFits ==
  ASSUME TreeInv, ChargeInv, TreeInv', ChargeInv', NEW s \in Sched, Add(s),
         Fits(job[s].at, job[s].amt), agg[job[s].at].parent = None,
         job' = [job EXCEPT ![s] = Job("admitted", sched[s].attach, job[s].amt)],
         NEW a \in ChainOf(sched[s].attach)
  PROVE  SumFunctionOnSet(FirmAt(a), Sched)' <= agg[a].limit
<1>1. PICK own, k, at, l : own = sched[s].attach /\ k = job[s] /\ at = k.at /\ l = k.amt
  OBVIOUS
<1>2. k.pc = "add" /\ at \in ChainOf(own) /\ own \in Agg /\ l \in Nat
  BY <1>1, ChargeFacts, StepFacts DEF Add, Placed
<1>3. a = own \/ a = at
  BY <1>1, <1>2, ChainFacts
<1>4. a \in Agg /\ at \in Agg /\ ChainOf(own) \subseteq Agg
  BY <1>1, <1>2, ChainFacts
<1>5. CASE a = at
  <2>1. agg'[at].usage <= agg[at].limit
    <3>1. PICK t : t = agg[at]
      OBVIOUS
    <3>2. Tier(t)
      BY <1>4, <3>1, ControlFacts DEF Tables
    <3>3. PICK q : q = [t EXCEPT !.usage = @ + l]
      OBVIOUS
    <3>4. agg' = [agg EXCEPT ![at] = q]
      BY <1>1, <3>1, <3>3 DEF Add
    <3>5. q.usage = t.usage + l
      BY <3>2, <3>3 DEF Tier, TierFields
    <3>6. agg'[at] = q
      BY <1>4, <3>4, ControlFacts DEF Tables
    <3> QED BY <1>1, <3>1, <3>5, <3>6 DEF Fits
  <2>2. /\ SumFunctionOnSet(FirmAt(a), Sched)' \in Int /\ agg'[a].usage \in Nat
        /\ SumFunctionOnSet(FirmAt(a), Sched)' <= agg'[a].usage
    BY <1>4, FirmChargedNext DEF FirmKnown, TreeInv, Shapes, ChargeInv
  <2>3. agg[a].limit \in Nat
    BY <1>4, ControlCharge
  <2> QED BY <1>5, <2>1, <2>2, <2>3
<1>6. CASE a # at
  <2>1. a = own /\ at # own
    BY <1>3, <1>6
  <2>2. Waiting(k, own)
    BY <1>1, <1>2, <2>1 DEF Waiting
  <2>3. SumFunctionOnSet(FirmAt(own), Sched) <= agg[own].limit
    BY <1>1, <2>2 DEF ChargeInv, Within
  <2>4. \A r \in Sched : sched'[r] = sched[r] /\ (r # s => job'[r] = job[r])
    BY ControlFacts DEF Add, Jobs
  <2>5. PICK j : j = job'[s] /\ j.pc = "admitted" /\ j.amt = l
    <3>1. job'[s] = Job("admitted", own, l)
      BY <1>1, ControlFacts DEF Jobs
    <3> QED BY <3>1 DEF Job
  <2>6. \A b \in Agg : agg'[b].parent = agg[b].parent
    <3>1. SameTree(agg, agg')
      BY <1>1, <1>4, ControlFacts, Touched DEF Add
    <3> QED BY <3>1 DEF SameTree, Same
  <2>7. \A x \in Agg \cup {None} : ChainOf(x)' = ChainOf(x)
    BY <2>6, ChainStays
  <2>8. ASSUME NEW r \in Sched PROVE Firm(r, own)' = Firm(r, own)
    <3>1. PICK x, i : x = sched[r].attach /\ i = job'[r] /\ x = sched'[r].attach
      BY <2>4
    <3>2. x \in Agg \cup {None}
      BY <3>1, ControlFacts DEF Scheds
    <3>3. Queued(r)' = Queued(r)
      BY <2>4 DEF Queued, Bytes
    <3>4. Firm(r, own)' = IF own \in ChainOf(x)' THEN Queued(r)' + Passed(i, x, own) ELSE 0
      BY <3>1, NextHeld
    <3>5. Passed(i, x, own) = Passed(job[r], x, own)
      <4>1. CASE r = s
        BY <1>1, <1>2, <2>2, <2>5, <3>1, <4>1 DEF Passed, Waiting
      <4>2. CASE r # s
        BY <2>4, <3>1, <4>2
      <4> QED BY <4>1, <4>2
    <3> QED BY <2>7, <3>1, <3>2, <3>3, <3>4, <3>5 DEF Firm
  <2>9. FirmAt(own)' = FirmAt(own)
    BY <2>8 DEF FirmAt
  <2>10. SumFunctionOnSet(FirmAt(own), Sched)' = SumFunctionOnSet(FirmAt(own), Sched)
    BY <2>9
  <2> QED BY <2>1, <2>3, <2>10
<1> QED BY <1>5, <1>6

\* No admission takes a tier over its limit, at the port or at the S-VLAN whose
\* own test came before it, for any number of owner threads between their
\* tests (cake_agg_admit, cake_agg_admit_chain).
THEOREM AdmitsWithinLimit == Spec => AdmitWithinLimit
<1>1. ASSUME TreeInv, ChargeInv, TreeInv', ChargeInv', [Next]_vars
      PROVE  [\A s \in Sched : job[s].pc # "admitted" /\ job'[s].pc = "admitted" =>
                \A a \in ChainOf(sched[s].attach) : Admitted(a)' <= agg[a].limit]_vars
  <2>1. ASSUME NEW s \in Sched, job[s].pc # "admitted", job'[s].pc = "admitted",
               NEW a \in ChainOf(sched[s].attach)
        PROVE  Admitted(a)' <= agg[a].limit
    <3>1. sched[s].attach # None
      BY <2>1, <1>1, ChainFacts
    <3>2. /\ Add(s) /\ Fits(job[s].at, job[s].amt) /\ agg[job[s].at].parent = None
          /\ job' = [job EXCEPT ![s] = Job("admitted", sched[s].attach, job[s].amt)]
      BY <1>1, <2>1, <3>1, AdmittedBy
    <3>3. SumFunctionOnSet(FirmAt(a), Sched)' <= agg[a].limit
      BY <1>1, <2>1, <3>2, AdmitFits
    <3>4. /\ Admitted(a)' \in Int /\ SumFunctionOnSet(FirmAt(a), Sched)' \in Int
          /\ Admitted(a)' <= SumFunctionOnSet(FirmAt(a), Sched)'
      BY <1>1, AdmittedFirmNext DEF AdmittedKnown, TreeInv, Shapes, ChargeInv
    <3>5. agg[a].limit \in Nat
      BY <1>1, <2>1, ChainFacts, ControlCharge
    <3> QED BY <3>3, <3>4, <3>5
  <2> QED BY <2>1
<1> QED BY <1>1, ChargeInvariant, PTL DEF Spec, AdmitWithinLimit
-----------------------------------------------------------------------------
(* The weights.  A tier's two counters are sums over the schedulers and    *)
(* over the tiers; an atomic step of a join or leave changes one scheduler  *)
(* and at most one tier.                                                    *)

Joins == {"joinW", "joinN"}
Leaves == {"leaveW", "leaveN"}

\* A join or leave is at a tier of the chain, for a scheduler that is active,
\* or that no longer is.
Carrier(sc, j) ==
  /\ j.pc \in Joins \cup Leaves => j.at \in ChainOf(sc.attach)
  /\ j.pc \in Joins => sc.active
  /\ j.pc \in Leaves => ~sc.active

Carriers == \A s \in Sched : Carrier(sched[s], job[s])

\* Only one scheduler carries the first join of an S-VLAN to the port: the
\* S-VLAN counts it until it leaves.
JoinsUp(sc, j) == j.pc \in Joins /\ j.at # sc.attach
OneUp ==
  \A s, r \in Sched :
    JoinsUp(sched[s], job[s]) /\ JoinsUp(sched[r], job[r])
      /\ sched[s].attach = sched[r].attach => s = r

Weighted == \A a \in Agg : agg[a].weight \in Nat /\ agg[a].eweight \in Nat

NumbersAt(a) == [s \in Sched |-> Numbered(s, a)]
WeightsAt(a) == [s \in Sched |-> Weighed(s, a)]
BusyAt(a) == [c \in Agg |-> IF Busy(c, a) THEN 1 ELSE 0]
BusyWeightsAt(a) == [c \in Agg |-> IF Busy(c, a) THEN agg[c].eweight ELSE 0]

\* Every slot's counters, a free one's too, are these sums.
Tallied ==
  \A a \in Agg :
    /\ agg[a].nActive =
         SumFunctionOnSet(NumbersAt(a), Sched) + SumFunctionOnSet(BusyAt(a), Agg)
    /\ agg[a].activeWeight =
         SumFunctionOnSet(WeightsAt(a), Sched) + SumFunctionOnSet(BusyWeightsAt(a), Agg)

WeightInv == Carriers /\ OneUp /\ Weighted /\ Tallied

\* What a scheduler brings to a tier.  It is negative only at the port its
\* S-VLAN joins, and then the S-VLAN counts it.
Brought(s, own, a) ==
  /\ Numbered(s, a) \in {-1, 0, 1} /\ Weighed(s, a) \in Int
  /\ Numbered(s, a) < 0 \/ Weighed(s, a) < 0 =>
       /\ JoinsUp(sched[s], job[s]) /\ own \in live /\ a = agg[own].parent
       /\ Weighed(s, a) + agg[own].eweight >= 0
       /\ Numbered(s, own) = 1

LEMMA BroughtHere ==
  ASSUME TreeInv, Carriers, Weighted, NEW s \in Sched, NEW own, own = sched[s].attach,
         NEW a \in Agg
  PROVE  Brought(s, own, a)
<1>1. PICK sc, j : sc = sched[s] /\ j = job[s]
  OBVIOUS
<1>2. /\ own \in Agg \cup {None} /\ None \notin Agg
      /\ own = None => ChainOf(own) = {}
      /\ own # None => own \in live
      /\ live \subseteq Agg
      /\ \A b \in ChainOf(own) : b # own => b = agg[own].parent
  BY ChainFacts
<1>3. /\ j.pc \in Joins \cup Leaves => j.at \in ChainOf(own)
      /\ j.pc \in Joins => sc.active
      /\ own = sc.attach /\ sc.eweight \in Nat
  BY <1>1, ControlFacts DEF Carriers, Carrier, Scheds
<1>4. own \in Agg => agg[own].eweight \in Nat
  BY DEF Weighted
<1>5. PICK n, k : /\ n = Share(sc, j, a, {"joinW", "joinN"}, {"leaveW", "leaveN"})
                  /\ k = Share(sc, j, a, {"joinW"}, {"leaveW"})
  OBVIOUS
<1>6. Numbered(s, a) = n
  BY <1>1, <1>5 DEF Numbered
<1>7. Weighed(s, a) = IF k = 1 THEN IF own = a THEN sc.eweight ELSE agg[own].eweight
                      ELSE IF k = -1 THEN -(IF own = a THEN sc.eweight ELSE agg[own].eweight)
                      ELSE 0
  BY <1>1, <1>3, <1>5 DEF Weighed
<1>8. /\ n \in {-1, 0, 1} /\ k \in {-1, 0, 1}
      /\ n = -1 \/ k = -1 => own # a /\ j.at = a /\ j.pc \in Joins
      /\ k # 0 /\ own # a => j.at = a /\ j.pc \in Joins \cup Leaves
  BY <1>3, <1>5 DEF Share, Joins, Leaves
<1>9. k # 0 /\ own # a => own \in Agg
  BY <1>2, <1>3, <1>8
<1>10. Weighed(s, a) \in Int /\ (Weighed(s, a) < 0 => k = -1 /\ Weighed(s, a) = -agg[own].eweight)
  BY <1>3, <1>4, <1>7, <1>8, <1>9
<1>11. ASSUME n = -1 \/ k = -1
       PROVE  /\ JoinsUp(sched[s], job[s]) /\ own \in live /\ a = agg[own].parent
              /\ Numbered(s, own) = 1
  <2>1. own # a /\ j.at = a /\ j.pc \in Joins /\ a \in ChainOf(own)
    BY <1>3, <1>8, <1>11
  <2>2. own \in live /\ a = agg[own].parent
    BY <1>2, <2>1
  <2>3. Share(sc, j, own, {"joinW", "joinN"}, {"leaveW", "leaveN"}) = 1
    BY <1>3, <2>1 DEF Share, Joins
  <2> QED BY <1>1, <1>3, <2>1, <2>2, <2>3 DEF JoinsUp, Numbered
<1>12. n = -1 \/ k = -1 => Weighed(s, a) + agg[own].eweight >= 0
  <2>1. n = -1 \/ k = -1 => own \in Agg
    BY <1>2, <1>11
  <2>2. PICK v : v = agg[own].eweight
    OBVIOUS
  <2>3. ASSUME n = -1 \/ k = -1 PROVE Weighed(s, a) + v >= 0
    <3>1. v \in Nat /\ own # a
      BY <1>4, <1>8, <2>1, <2>2, <2>3
    <3>2. Weighed(s, a) = v \/ Weighed(s, a) = -v \/ Weighed(s, a) = 0
      BY <1>7, <1>8, <2>2, <3>1
    <3> QED BY <3>1, <3>2
  <2> QED BY <2>2, <2>3
<1>13. Numbered(s, a) < 0 \/ Weighed(s, a) < 0 => n = -1 \/ k = -1
  BY <1>6, <1>8, <1>10
<1> QED BY <1>6, <1>8, <1>10, <1>11, <1>12, <1>13 DEF Brought

\* The counters are unsigned, and an S-VLAN's number is no less than what any
\* scheduler brings to it.
LEMMA AtSvlan ==
  ASSUME TreeInv, WeightInv, NEW c \in Agg, c \in live, agg[c].parent # None
  PROVE  \A s \in Sched : Numbered(s, c) \in Nat /\ agg[c].nActive >= Numbered(s, c)
<1>1. \A s \in Sched : Numbered(s, c) \in Nat
  <2>1. ASSUME NEW s \in Sched PROVE Numbered(s, c) \in Nat
    <3>1. PICK own : own = sched[s].attach
      OBVIOUS
    <3>2. Brought(s, own, c)
      BY <3>1, BroughtHere DEF WeightInv
    <3>3. Numbered(s, c) < 0 => own \in live /\ c = agg[own].parent /\ own \in Agg
      BY <3>2, ControlFacts DEF Brought
    <3>4. own \in live /\ agg[own].parent # None => agg[agg[own].parent].parent = None
      BY <3>1, ChainFacts DEF ChainOf
    <3> QED BY <3>2, <3>3, <3>4, TreeAssumption DEF Brought
  <2> QED BY <2>1
<1>2. PICK f, g : f = NumbersAt(c) /\ g = BusyAt(c)
  OBVIOUS
<1>3. /\ \A s \in Sched : f[s] = Numbered(s, c) /\ f[s] \in Nat
      /\ \A b \in Agg : g[b] \in Nat
  BY <1>1, <1>2 DEF NumbersAt, BusyAt
<1>4. agg[c].nActive = SumFunctionOnSet(f, Sched) + SumFunctionOnSet(g, Agg)
  BY <1>2 DEF WeightInv, Tallied
<1>5. SumFunctionOnSet(g, Agg) \in Nat /\ SumFunctionOnSet(f, Sched) \in Nat
  BY <1>3, SumNat, TreeAssumption
<1>6. \A s \in Sched : SumFunctionOnSet(f, Sched) >= f[s]
  BY <1>3, SumHas, TreeAssumption
<1> QED BY <1>1, <1>3, <1>4, <1>5, <1>6

LEMMA CountersNat ==
  ASSUME TreeInv, WeightInv, NEW a \in Agg
  PROVE  agg[a].nActive \in Nat /\ agg[a].activeWeight \in Nat
<1>1. PICK m : m = [s \in Sched |-> sched[s].attach]
  OBVIOUS
<1>2. PICK f, g, h, k : /\ f = NumbersAt(a) /\ g = BusyAt(a)
                        /\ h = WeightsAt(a) /\ k = BusyWeightsAt(a)
  OBVIOUS
<1>3. ASSUME NEW s \in Sched
      PROVE  /\ f[s] \in Int /\ h[s] \in Int
             /\ f[s] < 0 \/ h[s] < 0 =>
                  /\ m[s] \in Agg /\ f[s] + g[m[s]] >= 0 /\ h[s] + k[m[s]] >= 0
                  /\ JoinsUp(sched[s], job[s])
  <2>1. PICK own : own = sched[s].attach
    OBVIOUS
  <2>2. Brought(s, own, a)
    BY <2>1, BroughtHere DEF WeightInv
  <2>3. f[s] = Numbered(s, a) /\ h[s] = Weighed(s, a) /\ m[s] = own
    BY <1>1, <1>2, <2>1 DEF NumbersAt, WeightsAt
  <2>4. ASSUME Numbered(s, a) < 0 \/ Weighed(s, a) < 0
        PROVE  own \in Agg /\ Busy(own, a)
    <3>1. own \in live /\ a = agg[own].parent /\ Numbered(s, own) = 1 /\ own \in Agg
      BY <2>2, <2>4, ControlFacts DEF Brought
    <3>2. agg[own].nActive >= 1
      BY <3>1, AtSvlan, TreeAssumption
    <3>3. agg[own].nActive > 0
      <4>1. agg[own].nActive \in Int
        <5>1. \A b \in Agg : BusyAt(own)[b] \in Int
          BY DEF BusyAt
        <5>2. \A r \in Sched : NumbersAt(own)[r] \in Int
          BY <3>1, AtSvlan, TreeAssumption DEF NumbersAt
        <5>3. /\ SumFunctionOnSet(BusyAt(own), Agg) \in Int
              /\ SumFunctionOnSet(NumbersAt(own), Sched) \in Int
          BY <5>1, <5>2, SumInt, TreeAssumption
        <5> QED BY <3>1, <5>3 DEF WeightInv, Tallied
      <4> QED BY <3>2, <4>1
    <3> QED BY <3>1, <3>3 DEF Busy
  <2>5. ASSUME Numbered(s, a) < 0 \/ Weighed(s, a) < 0
        PROVE  g[own] = 1 /\ k[own] = agg[own].eweight
    BY <1>2, <2>4, <2>5 DEF BusyAt, BusyWeightsAt
  <2>6. f[s] \in Int /\ h[s] \in Int /\ (f[s] < 0 => f[s] = -1)
    BY <2>2, <2>3 DEF Brought
  <2>7. ASSUME f[s] < 0 \/ h[s] < 0
        PROVE  /\ m[s] \in Agg /\ f[s] + g[m[s]] >= 0 /\ h[s] + k[m[s]] >= 0
               /\ JoinsUp(sched[s], job[s])
    <3>1. own \in Agg /\ g[own] = 1 /\ k[own] = agg[own].eweight
      BY <2>3, <2>4, <2>5, <2>7
    <3>2. JoinsUp(sched[s], job[s]) /\ Weighed(s, a) + agg[own].eweight >= 0
      BY <2>2, <2>3, <2>7 DEF Brought
    <3>3. f[s] + 1 >= 0
      BY <2>6
    <3> QED BY <2>3, <3>1, <3>2, <3>3
  <2> QED BY <2>6, <2>7
<1>4. \A s, r \in Sched :
        (f[s] < 0 \/ h[s] < 0) /\ (f[r] < 0 \/ h[r] < 0) /\ m[s] = m[r] => s = r
  BY <1>1, <1>3 DEF WeightInv, OneUp
<1>5. \A b \in Agg : g[b] \in Nat /\ k[b] \in Nat
  BY <1>2 DEF BusyAt, BusyWeightsAt, WeightInv, Weighted
<1>6. SumFunctionOnSet(f, Sched) + SumFunctionOnSet(g, Agg) \in Nat
  BY <1>3, <1>4, <1>5, SumMatched, TreeAssumption
<1>7. SumFunctionOnSet(h, Sched) + SumFunctionOnSet(k, Agg) \in Nat
  BY <1>3, <1>4, <1>5, SumMatched, TreeAssumption
<1> QED BY <1>2, <1>6, <1>7 DEF WeightInv, Tallied

-----------------------------------------------------------------------------
(* What a step does to the tallies: of the sums over the schedulers one     *)
(* term changes, and of the sums over the tiers that of one tier c.         *)

Kids(g, L, a) ==
  [c \in Agg |-> IF c \in L /\ g[c].parent = a /\ g[c].nActive > 0 THEN 1 ELSE 0]
KidWeights(g, L, a) ==
  [c \in Agg |-> IF c \in L /\ g[c].parent = a /\ g[c].nActive > 0 THEN g[c].eweight ELSE 0]

\* The table g of aggregates counts N, and weighs W, of each scheduler.
Tally(g, L, N, W) ==
  \A a \in Agg :
    /\ g[a].nActive =
         SumFunctionOnSet(N[a], Sched) + SumFunctionOnSet(Kids(g, L, a), Agg)
    /\ g[a].activeWeight =
         SumFunctionOnSet(W[a], Sched) + SumFunctionOnSet(KidWeights(g, L, a), Agg)

Nums == [a \in Agg |-> NumbersAt(a)]
Wts == [a \in Agg |-> WeightsAt(a)]

LEMMA TalliedIs == Tallied <=> Tally(agg, live, Nums, Wts)
<1>1. \A a \in Agg : /\ Kids(agg, live, a) = BusyAt(a)
                     /\ KidWeights(agg, live, a) = BusyWeightsAt(a)
                     /\ Nums[a] = NumbersAt(a) /\ Wts[a] = WeightsAt(a)
  BY DEF Kids, KidWeights, BusyAt, BusyWeightsAt, Busy, Nums, Wts
<1> QED BY <1>1, Zenon DEF Tallied, Tally

LEMMA TalliedIsNext == Tallied' <=> Tally(agg', live', Nums', Wts')
<1>1. Tallied <=> Tally(agg, live, Nums, Wts)
  BY TalliedIs
<1>2. (Tallied <=> Tally(agg, live, Nums, Wts))'
  BY <1>1, PTL
<1> QED BY <1>2 DEF Tally, Kids, KidWeights

\* Tables that differ, but for counters, in the weight of tier c at most; no
\* other S-VLAN has its first child come or its last one leave.
AllBut(g, h, L, c) ==
  /\ \A x \in Agg : g[x].eweight \in Nat /\ h[x].eweight \in Nat /\ h[x].parent = g[x].parent
  /\ \A x \in Agg : x # c =>
       /\ h[x].eweight = g[x].eweight
       /\ x \in L /\ g[x].parent # None => (h[x].nActive > 0 <=> g[x].nActive > 0)

\* The counters of h are those of g and what the schedulers, and c, bring more.
Shifted(g, h, L, c, dn, dw) ==
  \A a \in Agg :
    /\ h[a].nActive = g[a].nActive + (dn[a] + (Kids(h, L, a)[c] - Kids(g, L, a)[c]))
    /\ h[a].activeWeight =
         g[a].activeWeight + (dw[a] + (KidWeights(h, L, a)[c] - KidWeights(g, L, a)[c]))

LEMMA KidMoves ==
  ASSUME NEW g, NEW h, NEW L, NEW N, NEW W, NEW N2, NEW W2, NEW dn, NEW dw, NEW c \in Agg,
         Tally(g, L, N, W), AllBut(g, h, L, c), Shifted(g, h, L, c, dn, dw),
         \A a \in Agg :
           /\ SumFunctionOnSet(N[a], Sched) \in Int /\ SumFunctionOnSet(W[a], Sched) \in Int
           /\ dn[a] \in Int /\ dw[a] \in Int
           /\ SumFunctionOnSet(N2[a], Sched) = SumFunctionOnSet(N[a], Sched) + dn[a]
           /\ SumFunctionOnSet(W2[a], Sched) = SumFunctionOnSet(W[a], Sched) + dw[a]
  PROVE  Tally(h, L, N2, W2)
<1>1. SUFFICES ASSUME NEW a \in Agg
               PROVE  /\ h[a].nActive =
                           SumFunctionOnSet(N2[a], Sched) + SumFunctionOnSet(Kids(h, L, a), Agg)
                      /\ h[a].activeWeight =
                           SumFunctionOnSet(W2[a], Sched)
                           + SumFunctionOnSet(KidWeights(h, L, a), Agg)
  BY DEF Tally
<1>2. PICK k, k2, v, v2 : /\ k = Kids(g, L, a) /\ k2 = Kids(h, L, a)
                          /\ v = KidWeights(g, L, a) /\ v2 = KidWeights(h, L, a)
  OBVIOUS
<1>3. \A x \in Agg : /\ k[x] \in Int /\ k2[x] \in Int /\ v[x] \in Int /\ v2[x] \in Int
                     /\ x # c => k[x] = k2[x] /\ v[x] = v2[x]
  <2>1. ASSUME NEW x \in Agg
        PROVE  /\ k[x] \in Int /\ k2[x] \in Int /\ v[x] \in Int /\ v2[x] \in Int
               /\ x # c => k[x] = k2[x] /\ v[x] = v2[x]
    <3>1. PICK b, b2 : /\ b = (x \in L /\ g[x].parent = a /\ g[x].nActive > 0)
                       /\ b2 = (x \in L /\ h[x].parent = a /\ h[x].nActive > 0)
      OBVIOUS
    <3>2. /\ k[x] = IF b THEN 1 ELSE 0
          /\ k2[x] = IF b2 THEN 1 ELSE 0
          /\ v[x] = IF b THEN g[x].eweight ELSE 0
          /\ v2[x] = IF b2 THEN h[x].eweight ELSE 0
      BY <1>2, <3>1 DEF Kids, KidWeights
    <3>3. /\ g[x].eweight \in Nat /\ h[x].eweight \in Nat
          /\ x # c => h[x].eweight = g[x].eweight /\ (b <=> b2)
      <4>1. a # None
        BY TreeAssumption
      <4> QED BY <3>1, <4>1 DEF AllBut
    <3> QED BY <3>2, <3>3
  <2> QED BY <2>1
<1>4. /\ SumFunctionOnSet(k2, Agg) = SumFunctionOnSet(k, Agg) + (k2[c] - k[c])
      /\ SumFunctionOnSet(k, Agg) \in Int
  BY <1>3, SumChange, TreeAssumption
<1>5. /\ SumFunctionOnSet(v2, Agg) = SumFunctionOnSet(v, Agg) + (v2[c] - v[c])
      /\ SumFunctionOnSet(v, Agg) \in Int
  BY <1>3, SumChange, TreeAssumption
<1>6. PICK n, w, n2, w2 :
        /\ n = SumFunctionOnSet(N[a], Sched) /\ w = SumFunctionOnSet(W[a], Sched)
        /\ n2 = SumFunctionOnSet(N2[a], Sched) /\ w2 = SumFunctionOnSet(W2[a], Sched)
  OBVIOUS
<1>7. n \in Int /\ w \in Int /\ dn[a] \in Int /\ dw[a] \in Int /\ n2 = n + dn[a] /\ w2 = w + dw[a]
  BY <1>6
<1>8. /\ g[a].nActive = n + SumFunctionOnSet(k, Agg)
      /\ g[a].activeWeight = w + SumFunctionOnSet(v, Agg)
  BY <1>2, <1>6 DEF Tally
<1>9. /\ h[a].nActive = g[a].nActive + (dn[a] + (k2[c] - k[c]))
      /\ h[a].activeWeight = g[a].activeWeight + (dw[a] + (v2[c] - v[c]))
  BY <1>2 DEF Shifted
<1>10. k[c] \in Int /\ k2[c] \in Int /\ v[c] \in Int /\ v2[c] \in Int
  BY <1>3
<1>11. h[a].nActive = n2 + SumFunctionOnSet(k2, Agg)
  BY <1>4, <1>7, <1>8, <1>9, <1>10
<1>12. h[a].activeWeight = w2 + SumFunctionOnSet(v2, Agg)
  BY <1>5, <1>7, <1>8, <1>9, <1>10
<1> QED BY <1>2, <1>6, <1>11, <1>12

\* Numbers, and weights, that differ in what scheduler s brings.
Numeric(N, W) == \A a \in Agg : \A r \in Sched : N[a][r] \in Int /\ W[a][r] \in Int
ButOne(N, N2, s) == \A a \in Agg : \A r \in Sched : r # s => N2[a][r] = N[a][r]
By(N, N2, s) == [a \in Agg |-> N2[a][s] - N[a][s]]

LEMMA OneMoves ==
  ASSUME NEW g, NEW h, NEW L, NEW N, NEW W, NEW N2, NEW W2, NEW s \in Sched, NEW c \in Agg,
         Tally(g, L, N, W), AllBut(g, h, L, c),
         Numeric(N, W), Numeric(N2, W2), ButOne(N, N2, s), ButOne(W, W2, s),
         Shifted(g, h, L, c, By(N, N2, s), By(W, W2, s))
  PROVE  Tally(h, L, N2, W2)
<1>1. PICK dn, dw : dn = By(N, N2, s) /\ dw = By(W, W2, s)
  OBVIOUS
<1>2. \A a \in Agg :
        /\ SumFunctionOnSet(N[a], Sched) \in Int /\ SumFunctionOnSet(W[a], Sched) \in Int
        /\ dn[a] \in Int /\ dw[a] \in Int
        /\ SumFunctionOnSet(N2[a], Sched) = SumFunctionOnSet(N[a], Sched) + dn[a]
        /\ SumFunctionOnSet(W2[a], Sched) = SumFunctionOnSet(W[a], Sched) + dw[a]
  <2>1. ASSUME NEW a \in Agg
        PROVE  /\ SumFunctionOnSet(N[a], Sched) \in Int /\ SumFunctionOnSet(W[a], Sched) \in Int
               /\ dn[a] \in Int /\ dw[a] \in Int
               /\ SumFunctionOnSet(N2[a], Sched) = SumFunctionOnSet(N[a], Sched) + dn[a]
               /\ SumFunctionOnSet(W2[a], Sched) = SumFunctionOnSet(W[a], Sched) + dw[a]
    <3>1. PICK f, f2, v, v2 : f = N[a] /\ f2 = N2[a] /\ v = W[a] /\ v2 = W2[a]
      OBVIOUS
    <3>2. \A r \in Sched : f[r] \in Int /\ f2[r] \in Int /\ v[r] \in Int /\ v2[r] \in Int
      BY <3>1 DEF Numeric
    <3>3. \A r \in Sched \ {s} : f[r] = f2[r] /\ v[r] = v2[r]
      BY <3>1 DEF ButOne
    <3>4. /\ SumFunctionOnSet(f2, Sched) = SumFunctionOnSet(f, Sched) + (f2[s] - f[s])
          /\ SumFunctionOnSet(f, Sched) \in Int
      BY <3>2, <3>3, SumChange, TreeAssumption
    <3>5. /\ SumFunctionOnSet(v2, Sched) = SumFunctionOnSet(v, Sched) + (v2[s] - v[s])
          /\ SumFunctionOnSet(v, Sched) \in Int
      BY <3>2, <3>3, SumChange, TreeAssumption
    <3>6. dn[a] = f2[s] - f[s] /\ dw[a] = v2[s] - v[s]
      BY <1>1, <3>1 DEF By
    <3> QED BY <3>1, <3>2, <3>4, <3>5, <3>6
  <2> QED BY <2>1
<1>3. Shifted(g, h, L, c, dn, dw)
  BY <1>1
<1> QED BY <1>2, <1>3, KidMoves

\* The same numbers: counters that stay count the same, as long as what is
\* counted keeps its weight and its place.
Alike(g, h, L, M) ==
  /\ \A a \in Agg : /\ h[a].nActive = g[a].nActive /\ h[a].activeWeight = g[a].activeWeight
  /\ \A x \in Agg : g[x].nActive > 0 =>
       /\ x \in L <=> x \in M
       /\ h[x].parent = g[x].parent /\ h[x].eweight = g[x].eweight

LEMMA NoneMoves ==
  ASSUME NEW g, NEW h, NEW L, NEW M, NEW N, NEW W, NEW N2, NEW W2,
         Tally(g, L, N, W), Alike(g, h, L, M),
         \A a \in Agg : \A r \in Sched : N2[a][r] = N[a][r] /\ W2[a][r] = W[a][r]
  PROVE  Tally(h, M, N2, W2)
<1>1. SUFFICES ASSUME NEW a \in Agg
               PROVE  /\ h[a].nActive =
                           SumFunctionOnSet(N2[a], Sched) + SumFunctionOnSet(Kids(h, M, a), Agg)
                      /\ h[a].activeWeight =
                           SumFunctionOnSet(W2[a], Sched)
                           + SumFunctionOnSet(KidWeights(h, M, a), Agg)
  BY DEF Tally
<1>2. Kids(h, M, a) = Kids(g, L, a) /\ KidWeights(h, M, a) = KidWeights(g, L, a)
  <2>1. ASSUME NEW x \in Agg
        PROVE  /\ Kids(h, M, a)[x] = Kids(g, L, a)[x]
               /\ KidWeights(h, M, a)[x] = KidWeights(g, L, a)[x]
    BY DEF Kids, KidWeights, Alike
  <2>2. /\ Kids(h, M, a) = [x \in Agg |-> Kids(h, M, a)[x]]
        /\ Kids(g, L, a) = [x \in Agg |-> Kids(g, L, a)[x]]
        /\ KidWeights(h, M, a) = [x \in Agg |-> KidWeights(h, M, a)[x]]
        /\ KidWeights(g, L, a) = [x \in Agg |-> KidWeights(g, L, a)[x]]
    BY DEF Kids, KidWeights
  <2> QED BY <2>1, <2>2
<1>3. /\ SumFunctionOnSet(N2[a], Sched) = SumFunctionOnSet(N[a], Sched)
      /\ SumFunctionOnSet(W2[a], Sched) = SumFunctionOnSet(W[a], Sched)
  <2>1. PICK f, f2, v, v2 : f = N[a] /\ f2 = N2[a] /\ v = W[a] /\ v2 = W2[a]
    OBVIOUS
  <2>2. \A r \in Sched : f2[r] = f[r] /\ v2[r] = v[r]
    BY <2>1
  <2>3. /\ SumFunctionOnSet(f2, Sched) = SumFunctionOnSet(f, Sched)
        /\ SumFunctionOnSet(v2, Sched) = SumFunctionOnSet(v, Sched)
    BY <2>2, SumSame, TreeAssumption
  <2> QED BY <2>1, <2>3
<1>4. /\ g[a].nActive = SumFunctionOnSet(N[a], Sched) + SumFunctionOnSet(Kids(g, L, a), Agg)
      /\ g[a].activeWeight =
           SumFunctionOnSet(W[a], Sched) + SumFunctionOnSet(KidWeights(g, L, a), Agg)
  BY DEF Tally
<1> QED BY <1>2, <1>3, <1>4 DEF Alike

\* What a scheduler sc with job j brings to tier a; ew is its parent's weight.
NumOf(sc, j, a) == Share(sc, j, a, {"joinW", "joinN"}, {"leaveW", "leaveN"})
WtOf(sc, j, a, ew) ==
  LET share == Share(sc, j, a, {"joinW"}, {"leaveW"})
      w == IF sc.attach = a THEN sc.eweight ELSE ew
  IN IF share = 1 THEN w ELSE IF share = -1 THEN -w ELSE 0

LEMMA Brings ==
  ASSUME NEW s, NEW a
  PROVE  /\ Numbered(s, a) = NumOf(sched[s], job[s], a)
         /\ Weighed(s, a) = WtOf(sched[s], job[s], a, agg[sched[s].attach].eweight)
BY DEF Numbered, Weighed, NumOf, WtOf

LEMMA BringsNext ==
  ASSUME NEW s, NEW a
  PROVE  /\ Numbered(s, a)' = NumOf(sched'[s], job'[s], a)
         /\ Weighed(s, a)' = WtOf(sched'[s], job'[s], a, agg'[sched'[s].attach].eweight)
BY DEF Numbered, Weighed, NumOf, WtOf

LEMMA BringsInt ==
  ASSUME NEW sc, NEW j, NEW a, NEW ew, sc.eweight \in Nat,
         j.pc \in Joins \cup Leaves => ew \in Nat
  PROVE  NumOf(sc, j, a) \in Int /\ WtOf(sc, j, a, ew) \in Int
<1>1. PICK k : k = Share(sc, j, a, {"joinW"}, {"leaveW"})
  OBVIOUS
<1>2. /\ NumOf(sc, j, a) \in Int /\ k \in {-1, 0, 1}
      /\ k # 0 /\ sc.attach # a => j.pc \in Joins \cup Leaves
  BY <1>1 DEF NumOf, Share, Joins, Leaves
<1>3. WtOf(sc, j, a, ew) = IF k = 1 THEN IF sc.attach = a THEN sc.eweight ELSE ew
                           ELSE IF k = -1 THEN -(IF sc.attach = a THEN sc.eweight ELSE ew)
                           ELSE 0
  BY <1>1 DEF WtOf
<1> QED BY <1>2, <1>3

\* A scheduler that no job carries anywhere is one child where it hangs.
LEMMA BringsRest ==
  ASSUME NEW sc, NEW j, NEW a, NEW ew, j.pc \notin Joins \cup Leaves
  PROVE  /\ NumOf(sc, j, a) = IF sc.attach = a /\ sc.active THEN 1 ELSE 0
         /\ WtOf(sc, j, a, ew) = IF sc.attach = a /\ sc.active THEN sc.eweight ELSE 0
BY DEF NumOf, WtOf, Share, Joins, Leaves

\* A step of s, to sc and job j, that changes neither tree nor weights.
Onward(s, own, sc, j) ==
  /\ own = sched[s].attach /\ sc.attach = own /\ sc.eweight = sched[s].eweight
  /\ sched'[s] = sc /\ job'[s] = j /\ live' = live
  /\ \A r \in Sched \ {s} : sched'[r] = sched[r] /\ job'[r] = job[r]
  /\ \A x \in Agg : /\ agg'[x].parent = agg[x].parent
                    /\ agg'[x].weight = agg[x].weight /\ agg'[x].eweight = agg[x].eweight
  /\ Carrier(sc, j)
  /\ JoinsUp(sc, j) =>
       \/ JoinsUp(sched[s], job[s])
       \/ \A r \in Sched : JoinsUp(sched[r], job[r]) => sched[r].attach # own

LEMMA OnwardKeeps ==
  ASSUME TreeInv, WeightInv, NEW s \in Sched, NEW own, NEW sc, NEW j, Onward(s, own, sc, j)
  PROVE  Carriers' /\ OneUp' /\ Weighted'
<1>1. \A x \in Agg \cup {None} : ChainOf(x)' = ChainOf(x)
  BY ChainStays DEF Onward
<1>2. \A r \in Sched : sched[r].attach \in Agg \cup {None}
  BY StepFacts
<1>3. ASSUME NEW r \in Sched
      PROVE  /\ Carrier(sched'[r], job'[r])
             /\ sched'[r].attach = sched[r].attach
  <2>1. CASE r = s
    BY <2>1 DEF Onward
  <2>2. CASE r # s
    BY <2>2 DEF Onward, WeightInv, Carriers
  <2> QED BY <2>1, <2>2
<1>4. Carriers'
  <2>1. ASSUME NEW r \in Sched PROVE Carrier(sched[r], job[r])'
    <3>1. ChainOf(sched[r].attach)' = ChainOf(sched'[r].attach)
      <4>1. PICK x : x = sched'[r].attach
        OBVIOUS
      <4>2. x \in Agg \cup {None}
        BY <1>2, <1>3, <4>1
      <4>3. ChainOf(sched[r].attach)' = ChainOf(x)'
        BY <4>1 DEF ChainOf
      <4> QED BY <1>1, <4>1, <4>2, <4>3
    <3> QED BY <1>3, <3>1 DEF Carrier
  <2> QED BY <2>1 DEF Carriers
<1>5. OneUp'
  <2>1. ASSUME NEW r \in Sched \ {s}, JoinsUp(sched'[s], job'[s]), JoinsUp(sched'[r], job'[r]),
               sched'[s].attach = sched'[r].attach
        PROVE  FALSE
    <3>1. JoinsUp(sc, j) /\ JoinsUp(sched[r], job[r]) /\ sched[r].attach = own
      BY <2>1 DEF Onward
    <3>2. JoinsUp(sched[s], job[s]) /\ own = sched[s].attach
      BY <3>1 DEF Onward
    <3> QED BY <3>1, <3>2 DEF WeightInv, OneUp
  <2>2. ASSUME NEW q \in Sched, NEW r \in Sched, JoinsUp(sched'[q], job'[q]),
               JoinsUp(sched'[r], job'[r]), sched'[q].attach = sched'[r].attach
        PROVE  q = r
    <3>1. CASE q = s \/ r = s
      BY <2>1, <2>2, <3>1
    <3>2. CASE q # s /\ r # s
      BY <2>2, <3>2 DEF Onward, WeightInv, OneUp
    <3> QED BY <3>1, <3>2
  <2> QED BY <2>2 DEF OneUp, JoinsUp
<1>6. Weighted'
  BY DEF Onward, WeightInv, Weighted
<1> QED BY <1>4, <1>5, <1>6

LEMMA OnwardNumbers ==
  ASSUME TreeInv, WeightInv, NEW s \in Sched, NEW own, NEW sc, NEW j, Onward(s, own, sc, j),
         NEW ew, ew = agg[own].eweight
  PROVE  /\ Numeric(Nums, Wts) /\ Numeric(Nums', Wts')
         /\ ButOne(Nums, Nums', s) /\ ButOne(Wts, Wts', s)
         /\ \A a \in Agg : /\ Nums[a][s] = NumOf(sched[s], job[s], a)
                           /\ Nums'[a][s] = NumOf(sc, j, a)
                           /\ Wts[a][s] = WtOf(sched[s], job[s], a, ew)
                           /\ Wts'[a][s] = WtOf(sc, j, a, ew)
<1>1. ASSUME NEW r \in Sched
      PROVE  /\ sched[r].attach \in Agg \cup {None} /\ sched[r].eweight \in Nat
             /\ job[r].pc \in Joins \cup Leaves => sched[r].attach \in Agg
  BY StepFacts, ControlFacts DEF Scheds, Joins, Leaves
<1>2. ASSUME NEW r \in Sched, NEW a \in Agg
      PROVE  /\ Nums[a][r] = Numbered(r, a) /\ Wts[a][r] = Weighed(r, a)
             /\ Nums'[a][r] = Numbered(r, a)' /\ Wts'[a][r] = Weighed(r, a)'
  BY <1>2 DEF Nums, Wts, NumbersAt, WeightsAt
<1>3. j.pc \in Joins \cup Leaves => own \in Agg
  <2>1. j.pc \in Joins \cup Leaves => \E x : x \in ChainOf(own)
    BY DEF Onward, Carrier
  <2> QED BY <1>1, <2>1 DEF Onward, ChainOf
<1>4. \A x \in Agg : agg[x].eweight \in Nat /\ agg'[x].eweight = agg[x].eweight
  BY DEF WeightInv, Weighted, Onward
<1>5. ASSUME NEW a \in Agg
      PROVE  /\ Nums[a][s] = NumOf(sched[s], job[s], a) /\ Nums[a][s] \in Int
             /\ Nums'[a][s] = NumOf(sc, j, a) /\ Nums'[a][s] \in Int
             /\ Wts[a][s] = WtOf(sched[s], job[s], a, ew) /\ Wts[a][s] \in Int
             /\ Wts'[a][s] = WtOf(sc, j, a, ew) /\ Wts'[a][s] \in Int
  <2>1. own = sched[s].attach /\ sched'[s] = sc /\ job'[s] = j /\ sc.attach = own
        /\ sc.eweight = sched[s].eweight
    BY DEF Onward
  <2>2. /\ Nums[a][s] = NumOf(sched[s], job[s], a)
        /\ Wts[a][s] = WtOf(sched[s], job[s], a, ew)
        /\ Nums'[a][s] = NumOf(sc, j, a)
    BY <1>2, <2>1, Brings, BringsNext
  <2>3. Wts'[a][s] = WtOf(sc, j, a, agg'[own].eweight)
    BY <1>2, <2>1, BringsNext
  <2>4. CASE own \in Agg
    <3>1. agg'[own].eweight = ew /\ ew \in Nat
      BY <1>4, <2>4
    <3>2. /\ NumOf(sched[s], job[s], a) \in Int /\ WtOf(sched[s], job[s], a, ew) \in Int
          /\ NumOf(sc, j, a) \in Int /\ WtOf(sc, j, a, ew) \in Int
      BY <1>1, <2>1, <3>1, BringsInt
    <3> QED BY <2>2, <2>3, <3>1, <3>2
  <2>5. CASE own \notin Agg
    <3>1. j.pc \notin Joins \cup Leaves /\ job[s].pc \notin Joins \cup Leaves
      BY <1>1, <1>3, <2>1, <2>5
    <3>2. WtOf(sc, j, a, agg'[own].eweight) = WtOf(sc, j, a, ew)
      BY <3>1, BringsRest
    <3>3. /\ NumOf(sched[s], job[s], a) \in Int /\ WtOf(sched[s], job[s], a, ew) \in Int
          /\ NumOf(sc, j, a) \in Int /\ WtOf(sc, j, a, ew) \in Int
      BY <1>1, <2>1, <3>1, BringsInt
    <3> QED BY <2>2, <2>3, <3>2, <3>3
  <2> QED BY <2>4, <2>5
<1>6. ASSUME NEW a \in Agg, NEW r \in Sched, r # s
      PROVE  /\ Nums'[a][r] = Nums[a][r] /\ Nums[a][r] \in Int
             /\ Wts'[a][r] = Wts[a][r] /\ Wts[a][r] \in Int
  <2>1. PICK q, k : q = sched[r] /\ k = job[r] /\ q = sched'[r] /\ k = job'[r]
    BY <1>6 DEF Onward
  <2>2. /\ Nums[a][r] = NumOf(q, k, a) /\ Nums'[a][r] = NumOf(q, k, a)
        /\ Wts[a][r] = WtOf(q, k, a, agg[q.attach].eweight)
        /\ Wts'[a][r] = WtOf(q, k, a, agg'[q.attach].eweight)
    <3>1. Nums[a][r] = NumOf(q, k, a) /\ Wts[a][r] = WtOf(q, k, a, agg[q.attach].eweight)
      <4>1. /\ Numbered(r, a) = NumOf(sched[r], job[r], a)
            /\ Weighed(r, a) = WtOf(sched[r], job[r], a, agg[sched[r].attach].eweight)
        BY Brings
      <4>2. sched[r] = q /\ job[r] = k
        BY <2>1
      <4> QED BY <1>2, <4>1, <4>2
    <3>2. /\ Nums'[a][r] = NumOf(q, k, a)
          /\ Wts'[a][r] = WtOf(q, k, a, agg'[q.attach].eweight)
      BY <1>2, <2>1, BringsNext
    <3> QED BY <3>1, <3>2
  <2>3. CASE q.attach \in Agg
    <3>1. agg'[q.attach].eweight = agg[q.attach].eweight /\ agg[q.attach].eweight \in Nat
      BY <1>4, <2>3
    <3>2. NumOf(q, k, a) \in Int /\ WtOf(q, k, a, agg[q.attach].eweight) \in Int
      BY <1>1, <2>1, <3>1, BringsInt
    <3> QED BY <2>2, <3>1, <3>2
  <2>4. CASE q.attach \notin Agg
    <3>1. k.pc \notin Joins \cup Leaves
      BY <1>1, <2>1, <2>4
    <3>2. WtOf(q, k, a, agg'[q.attach].eweight) = WtOf(q, k, a, agg[q.attach].eweight)
      BY <3>1, BringsRest
    <3>3. NumOf(q, k, a) \in Int /\ WtOf(q, k, a, agg[q.attach].eweight) \in Int
      BY <1>1, <2>1, <3>1, BringsInt
    <3> QED BY <2>2, <3>2, <3>3
  <2> QED BY <2>3, <2>4
<1>7. Numeric(Nums, Wts) /\ Numeric(Nums', Wts')
  <2>1. ASSUME NEW a \in Agg, NEW r \in Sched
        PROVE  /\ Nums[a][r] \in Int /\ Wts[a][r] \in Int
               /\ Nums'[a][r] \in Int /\ Wts'[a][r] \in Int
    <3>1. CASE r = s
      BY <1>5, <3>1
    <3>2. CASE r # s
      BY <1>6, <3>2
    <3> QED BY <3>1, <3>2
  <2> QED BY <2>1 DEF Numeric
<1>8. ButOne(Nums, Nums', s) /\ ButOne(Wts, Wts', s)
  BY <1>6 DEF ButOne
<1> QED BY <1>5, <1>7, <1>8

\* A step that moves the counters by what it makes of what s brings, and c.
Carried(s, own, sc, j, c) ==
  /\ Onward(s, own, sc, j)
  /\ \A x \in Agg : x # c /\ x \in live /\ agg[x].parent # None =>
       (agg'[x].nActive > 0 <=> agg[x].nActive > 0)
  /\ \A a \in Agg :
       /\ agg'[a].nActive = agg[a].nActive
            + ((NumOf(sc, j, a) - NumOf(sched[s], job[s], a))
               + (Kids(agg', live, a)[c] - Kids(agg, live, a)[c]))
       /\ agg'[a].activeWeight = agg[a].activeWeight
            + ((WtOf(sc, j, a, agg[own].eweight) - WtOf(sched[s], job[s], a, agg[own].eweight))
               + (KidWeights(agg', live, a)[c] - KidWeights(agg, live, a)[c]))

LEMMA CarriedTallies ==
  ASSUME TreeInv, WeightInv, NEW s \in Sched, NEW own, NEW sc, NEW j, NEW c \in Agg,
         Carried(s, own, sc, j, c)
  PROVE  WeightInv'
<1>1. Onward(s, own, sc, j)
  BY DEF Carried
<1>2. PICK ew : ew = agg[own].eweight
  OBVIOUS
<1>3. PICK N, W, N2, W2 : N = Nums /\ W = Wts /\ N2 = Nums' /\ W2 = Wts'
  OBVIOUS
<1>4. /\ Numeric(N, W) /\ Numeric(N2, W2) /\ ButOne(N, N2, s) /\ ButOne(W, W2, s)
      /\ \A a \in Agg : /\ N[a][s] = NumOf(sched[s], job[s], a)
                        /\ N2[a][s] = NumOf(sc, j, a)
                        /\ W[a][s] = WtOf(sched[s], job[s], a, ew)
                        /\ W2[a][s] = WtOf(sc, j, a, ew)
  BY <1>1, <1>2, <1>3, OnwardNumbers
<1>5. AllBut(agg, agg', live, c)
  BY <1>1 DEF AllBut, Carried, Onward, WeightInv, Weighted
<1>6. Shifted(agg, agg', live, c, By(N, N2, s), By(W, W2, s))
  <2>1. \A a \in Agg :
          /\ By(N, N2, s)[a] = NumOf(sc, j, a) - NumOf(sched[s], job[s], a)
          /\ By(W, W2, s)[a] = WtOf(sc, j, a, ew) - WtOf(sched[s], job[s], a, ew)
    BY <1>4 DEF By
  <2> QED BY <1>2, <2>1, Zenon DEF Shifted, Carried
<1>7. Tally(agg, live, N, W)
  BY <1>3, TalliedIs DEF WeightInv
<1>8. Tally(agg', live, N2, W2)
  BY <1>4, <1>5, <1>6, <1>7, OneMoves
<1>9. Tallied'
  BY <1>1, <1>3, <1>8, TalliedIsNext DEF Onward
<1> QED BY <1>1, <1>9, OnwardKeeps DEF WeightInv

\* A step that moves no counter, and leaves what s brings as it is.
LEMMA OnwardTallies ==
  ASSUME TreeInv, WeightInv, NEW s \in Sched, NEW own, NEW sc, NEW j, Onward(s, own, sc, j),
         \A a \in Agg : /\ agg'[a].nActive = agg[a].nActive
                        /\ agg'[a].activeWeight = agg[a].activeWeight,
         \A a \in Agg : \A ew :
           /\ NumOf(sc, j, a) = NumOf(sched[s], job[s], a)
           /\ WtOf(sc, j, a, ew) = WtOf(sched[s], job[s], a, ew)
  PROVE  WeightInv'
<1>1. PICK ew : ew = agg[own].eweight
  OBVIOUS
<1>2. PICK N, W, N2, W2 : N = Nums /\ W = Wts /\ N2 = Nums' /\ W2 = Wts'
  OBVIOUS
<1>3. /\ ButOne(N, N2, s) /\ ButOne(W, W2, s)
      /\ \A a \in Agg : N2[a][s] = N[a][s] /\ W2[a][s] = W[a][s]
  BY <1>1, <1>2, OnwardNumbers
<1>4. \A a \in Agg : \A r \in Sched : N2[a][r] = N[a][r] /\ W2[a][r] = W[a][r]
  BY <1>3 DEF ButOne
<1>5. Alike(agg, agg', live, live)
  BY DEF Alike, Onward
<1>6. Tally(agg, live, N, W)
  BY <1>2, TalliedIs DEF WeightInv
<1>7. Tally(agg', live, N2, W2)
  BY <1>4, <1>5, <1>6, NoneMoves
<1>8. Tallied'
  BY <1>2, <1>7, TalliedIsNext DEF Onward
<1> QED BY <1>8, OnwardKeeps DEF WeightInv

SameWeights(g, h) ==
  \A a \in Agg : /\ h[a].parent = g[a].parent /\ h[a].weight = g[a].weight
                 /\ h[a].eweight = g[a].eweight /\ h[a].nActive = g[a].nActive
                 /\ h[a].activeWeight = g[a].activeWeight

LEMMA UsageMoved ==
  ASSUME NEW g, Tiers(g), NEW a \in Agg, NEW v, NEW h, h = [g EXCEPT ![a].usage = v]
  PROVE  SameWeights(g, h)
<1>1. PICK t : t = g[a]
  OBVIOUS
<1>2. PICK q : h = [g EXCEPT ![a] = q] /\ q = [t EXCEPT !.usage = v]
  BY <1>1
<1>3. Tier(t)
  BY <1>1 DEF Tiers
<1>4. /\ q.parent = t.parent /\ q.weight = t.weight /\ q.eweight = t.eweight
      /\ q.nActive = t.nActive /\ q.activeWeight = t.activeWeight
  BY <1>2, <1>3 DEF Tier, TierFields
<1>5. \A b \in Agg : h[b] = IF b = a THEN q ELSE g[b]
  BY <1>2 DEF Tiers
<1> QED BY <1>1, <1>4, <1>5 DEF SameWeights

\* The steps that carry no weight.
Plain == {"idle", "filter", "add", "undo", "unwind", "admitted", "release"}
PlainJob(j) == j = Idle \/ \E pc \in Plain : \E at, amt : j = Job(pc, at, amt)
PlainStep(s) ==
  \/ \E l \in Lens : Enqueue(s, l) \/ Dequeue(s, l)
  \/ Filter(s) \/ Add(s) \/ Undo(s) \/ Unwind(s) \/ RingFull(s) \/ Release(s) \/ Evict(s)

LEMMA PlainIs ==
  ASSUME NEW j, PlainJob(j)
  PROVE  j.pc \in Plain /\ j.pc \notin Joins \cup Leaves
BY DEF PlainJob, Plain, Job, Idle, Joins, Leaves

LEMMA PlainHas ==
  /\ PlainJob(Idle) /\ Idle.pc = "idle"
  /\ \A pc \in Plain : \A at, amt : PlainJob(Job(pc, at, amt))
BY DEF PlainJob, Idle

LEMMA PlainMade ==
  ASSUME TreeInv, NEW s \in Sched, PlainStep(s)
  PROVE  /\ live' = live /\ job[s].pc \in Plain
         /\ \E j : PlainJob(j) /\ job' = [job EXCEPT ![s] = j]
         /\ SameWeights(agg, agg')
<1>1. SameWeights(agg, agg)
  BY DEF SameWeights
<1>2. ASSUME NEW l \in Lens, Enqueue(s, l)
      PROVE  /\ live' = live /\ agg' = agg /\ job[s].pc \in Plain
             /\ \E j : PlainJob(j) /\ job' = [job EXCEPT ![s] = j]
  <2>1. PICK j : j = Job(IF sched[s].attach = None THEN "admitted" ELSE "filter",
                         sched[s].attach, l)
    OBVIOUS
  <2>2. PlainJob(j)
    BY <2>1, PlainHas DEF Plain
  <2>3. job' = [job EXCEPT ![s] = j] /\ live' = live /\ agg' = agg
    BY <1>2, <2>1 DEF Enqueue, Goto
  <2>4. job[s].pc \in Plain
    BY <1>2, PlainHas DEF Enqueue, MayStart, Plain
  <2> QED BY <2>2, <2>3, <2>4
<1>3. ASSUME NEW out, Remove(s, out), MayStart(s)
      PROVE  /\ live' = live /\ agg' = agg /\ job[s].pc \in Plain
             /\ \E j : PlainJob(j) /\ job' = [job EXCEPT ![s] = j]
  <2>1. PICK j : j = IF sched[s].attach = None THEN Idle
                     ELSE Job("release", sched[s].attach, Bytes(out))
    OBVIOUS
  <2>2. PlainJob(j)
    BY <2>1, PlainHas DEF Plain
  <2>3. job' = [job EXCEPT ![s] = j] /\ live' = live /\ agg' = agg
    BY <1>3, <2>1 DEF Remove
  <2>4. job[s].pc \in Plain
    BY <1>3, PlainHas DEF MayStart, Plain
  <2> QED BY <2>2, <2>3, <2>4
<1>4. ASSUME NEW l \in Lens, Dequeue(s, l)
      PROVE  /\ live' = live /\ agg' = agg /\ job[s].pc \in Plain
             /\ \E j : PlainJob(j) /\ job' = [job EXCEPT ![s] = j]
  BY <1>3, <1>4 DEF Dequeue
<1>5. ASSUME Evict(s)
      PROVE  /\ live' = live /\ agg' = agg /\ job[s].pc \in Plain
             /\ \E j : PlainJob(j) /\ job' = [job EXCEPT ![s] = j]
  BY <1>3, <1>5 DEF Evict
<1>6. ASSUME Filter(s) \/ RingFull(s)
      PROVE  /\ live' = live /\ agg' = agg /\ job[s].pc \in Plain
             /\ \E j : PlainJob(j) /\ job' = [job EXCEPT ![s] = j]
  BY <1>6 DEF Filter, RingFull, Refused, Plain, PlainJob
<1>7. ASSUME Add(s) \/ Undo(s) \/ Unwind(s) \/ Release(s)
      PROVE  /\ live' = live /\ job[s].pc \in Plain /\ job[s].pc \notin {"idle", "admitted"}
             /\ \E j : PlainJob(j) /\ job' = [job EXCEPT ![s] = j]
             /\ \E a, v : a = job[s].at /\ agg' = [agg EXCEPT ![a].usage = v]
  <2>1. CASE Add(s)
    BY <2>1 DEF Add, Plain, PlainJob
  <2>2. CASE Undo(s)
    BY <2>2 DEF Undo, Refused, Plain, PlainJob
  <2>3. CASE Unwind(s)
    BY <2>3 DEF Unwind, Plain, PlainJob
  <2>4. CASE Release(s)
    BY <2>4 DEF Release, Plain, PlainJob
  <2> QED BY <1>7, <2>1, <2>2, <2>3, <2>4
<1>8. ASSUME Add(s) \/ Undo(s) \/ Unwind(s) \/ Release(s)
      PROVE  SameWeights(agg, agg')
  <2>1. PICK a, v : a = job[s].at /\ agg' = [agg EXCEPT ![a].usage = v]
    BY <1>7, <1>8
  <2>2. a \in Agg /\ Tiers(agg)
    BY <1>7, <1>8, <2>1, StepFacts
  <2> QED BY <2>1, <2>2, UsageMoved
<1>9. CASE \E l \in Lens : Enqueue(s, l) \/ Dequeue(s, l)
  BY <1>1, <1>2, <1>4, <1>9
<1>10. CASE Filter(s) \/ RingFull(s) \/ Evict(s)
  BY <1>1, <1>5, <1>6, <1>10
<1>11. CASE Add(s) \/ Undo(s) \/ Unwind(s) \/ Release(s)
  BY <1>7, <1>8, <1>11
<1> QED BY <1>9, <1>10, <1>11 DEF PlainStep

LEMMA PlainSched ==
  ASSUME TreeInv, NEW s \in Sched, PlainStep(s)
  PROVE  /\ \A r \in Sched \ {s} : sched'[r] = sched[r]
         /\ sched'[s].attach = sched[s].attach /\ sched'[s].active = sched[s].active
         /\ sched'[s].eweight = sched[s].eweight
<1>1. Scheds
  BY ControlFacts
<1>2. \/ sched' = sched
      \/ \E out : sched' = [sched EXCEPT ![s].queue = [l \in Lens |-> @[l] - out[l]]]
  <2>1. CASE \E l \in Lens : Enqueue(s, l)
    BY <2>1 DEF Enqueue
  <2>2. CASE \E out : Remove(s, out)
    BY <2>2 DEF Remove
  <2>3. CASE Filter(s) \/ Add(s) \/ Undo(s) \/ Unwind(s) \/ RingFull(s) \/ Release(s)
    BY <2>3 DEF Filter, Add, Undo, Unwind, RingFull, Release
  <2>4. (\E l \in Lens : Dequeue(s, l)) \/ Evict(s) => \E out : Remove(s, out)
    BY DEF Dequeue, Evict
  <2> QED BY <2>1, <2>2, <2>3, <2>4 DEF PlainStep
<1>3. \/ sched' = sched
      \/ \E q : sched' = [sched EXCEPT ![s].queue = q]
  BY <1>2
<1> QED BY <1>1, <1>3 DEF Scheds

LEMMA PlainTallies ==
  ASSUME TreeInv, WeightInv, NEW s \in Sched, PlainStep(s)
  PROVE  WeightInv'
<1>1. PICK j : PlainJob(j) /\ job' = [job EXCEPT ![s] = j]
  BY PlainMade
<1>2. j.pc \notin Joins \cup Leaves /\ job[s].pc \notin Joins \cup Leaves
  BY <1>1, PlainMade, PlainIs DEF Plain, Joins, Leaves
<1>3. PICK own, sc : own = sched[s].attach /\ sc = sched'[s]
  OBVIOUS
<1>4. sc.attach = own /\ sc.active = sched[s].active /\ sc.eweight = sched[s].eweight
  BY <1>3, PlainSched
<1>5. \A r \in Sched : job'[r] = IF r = s THEN j ELSE job[r]
  BY <1>1, ControlFacts DEF Jobs
<1>6. live' = live /\ SameWeights(agg, agg')
  BY PlainMade
<1>7. Onward(s, own, sc, j)
  <2>1. Carrier(sc, j) /\ ~JoinsUp(sc, j)
    BY <1>2 DEF Carrier, JoinsUp
  <2> QED BY <1>3, <1>4, <1>5, <1>6, <2>1, PlainSched DEF Onward, SameWeights
<1>8. ASSUME NEW a \in Agg, NEW ew
      PROVE  /\ NumOf(sc, j, a) = NumOf(sched[s], job[s], a)
             /\ WtOf(sc, j, a, ew) = WtOf(sched[s], job[s], a, ew)
  <2>1. PICK sd, k : sd = sched[s] /\ k = job[s]
    OBVIOUS
  <2>2. /\ NumOf(sc, j, a) = IF sc.attach = a /\ sc.active THEN 1 ELSE 0
        /\ WtOf(sc, j, a, ew) = IF sc.attach = a /\ sc.active THEN sc.eweight ELSE 0
    BY <1>2, BringsRest
  <2>3. /\ NumOf(sd, k, a) = IF sd.attach = a /\ sd.active THEN 1 ELSE 0
        /\ WtOf(sd, k, a, ew) = IF sd.attach = a /\ sd.active THEN sd.eweight ELSE 0
    BY <1>2, <2>1, BringsRest
  <2> QED BY <1>3, <1>4, <2>1, <2>2, <2>3
<1> QED BY <1>6, <1>7, <1>8, OnwardTallies DEF SameWeights

\* Whom a first step of a join, or leave, carries is counted as before.
LEMMA FirstStep ==
  ASSUME NEW own, NEW a, NEW ew, NEW sd, NEW sc, NEW k, NEW j,
         sd.attach = own, sc.attach = own, sc.eweight = sd.eweight, a # None,
         k.pc \notin Joins \cup Leaves,
         \/ /\ ~sd.active /\ sc.active /\ own # None
            /\ j.pc = "joinW" /\ j.at = own
         \/ /\ sd.active /\ ~sc.active /\ own # None
            /\ j.pc = "leaveW" /\ j.at = own
         \/ /\ sc.active = sd.active \/ own = None
            /\ j.pc = "idle"
  PROVE  NumOf(sc, j, a) = NumOf(sd, k, a) /\ WtOf(sc, j, a, ew) = WtOf(sd, k, a, ew)
<1>1. /\ NumOf(sd, k, a) = IF own = a /\ sd.active THEN 1 ELSE 0
      /\ WtOf(sd, k, a, ew) = IF own = a /\ sd.active THEN sd.eweight ELSE 0
  BY BringsRest
<1>2. CASE ~sd.active /\ sc.active /\ own # None /\ j.pc = "joinW" /\ j.at = own
  BY <1>1, <1>2 DEF NumOf, WtOf, Share
<1>3. CASE sd.active /\ ~sc.active /\ own # None /\ j.pc = "leaveW" /\ j.at = own
  BY <1>1, <1>3 DEF NumOf, WtOf, Share
<1>4. CASE (sc.active = sd.active \/ own = None) /\ j.pc = "idle"
  <2>1. j.pc \notin Joins \cup Leaves
    BY <1>4 DEF Joins, Leaves
  <2>2. /\ NumOf(sc, j, a) = IF own = a /\ sc.active THEN 1 ELSE 0
        /\ WtOf(sc, j, a, ew) = IF own = a /\ sc.active THEN sc.eweight ELSE 0
    BY <2>1, BringsRest
  <2> QED BY <1>1, <1>4, <2>2
<1> QED BY <1>2, <1>3, <1>4

LEMMA BeginTallies ==
  ASSUME TreeInv, WeightInv, NEW s \in Sched, Commit(s) \/ Deactivate(s)
  PROVE  WeightInv'
<1>1. PICK own, sd, sc, k : /\ sd = sched[s] /\ own = sd.attach /\ sc = sched'[s] /\ k = job[s]
  OBVIOUS
<1>2. /\ sc.attach = own /\ sc.eweight = sd.eweight
      /\ Commit(s) => sc.active = TRUE
      /\ ~Commit(s) => sc.active = FALSE
      /\ \A r \in Sched \ {s} : sched'[r] = sched[r]
  <2>1. Scheds
    BY ControlFacts
  <2>2. CASE Commit(s)
    BY <1>1, <2>1, <2>2 DEF Commit, Scheds
  <2>3. CASE ~Commit(s) /\ Deactivate(s)
    BY <1>1, <2>1, <2>3 DEF Deactivate, Scheds
  <2> QED BY <2>2, <2>3
<1>3. PICK j : /\ job' = [job EXCEPT ![s] = j] /\ k.pc \in {"idle", "admitted"}
               /\ \/ /\ ~sd.active /\ sc.active /\ own # None
                     /\ j.pc = "joinW" /\ j.at = own
                  \/ /\ sd.active /\ ~sc.active /\ own # None
                     /\ j.pc = "leaveW" /\ j.at = own
                  \/ /\ sc.active = sd.active \/ own = None
                     /\ j.pc = "idle"
  <2>1. CASE Commit(s)
    <3>1. PICK j : j = IF ~sd.active /\ own # None THEN Job("joinW", own, 0) ELSE Idle
      OBVIOUS
    <3>2. job' = [job EXCEPT ![s] = j] /\ k.pc = "admitted"
      BY <1>1, <2>1, <3>1 DEF Commit
    <3>3. CASE ~sd.active /\ own # None
      <4>1. j.pc = "joinW" /\ j.at = own
        BY <3>1, <3>3 DEF Job
      <4> QED BY <1>2, <2>1, <3>2, <3>3, <4>1
    <3>4. CASE ~(~sd.active /\ own # None)
      <4>1. j.pc = "idle"
        BY <3>1, <3>4 DEF Idle
      <4>2. sd.active \in BOOLEAN
        BY <1>1, ControlFacts DEF Scheds
      <4> QED BY <1>2, <2>1, <3>2, <3>4, <4>1, <4>2
    <3> QED BY <3>3, <3>4
  <2>2. CASE ~Commit(s)
    <3>1. PICK j : j = IF own = None THEN Idle ELSE Job("leaveW", own, 0)
      OBVIOUS
    <3>2. job' = [job EXCEPT ![s] = j] /\ k.pc = "idle" /\ sd.active
      BY <1>1, <2>2, <3>1 DEF Deactivate, MayStart, Idle
    <3>3. own # None => j.pc = "leaveW" /\ j.at = own
      BY <3>1 DEF Job
    <3>4. own = None => j.pc = "idle"
      BY <3>1 DEF Idle
    <3> QED BY <1>2, <2>2, <3>2, <3>3, <3>4
  <2> QED BY <2>1, <2>2
<1>4. live' = live /\ agg' = agg
  BY DEF Commit, Deactivate
<1>5. \A r \in Sched : job'[r] = IF r = s THEN j ELSE job[r]
  BY <1>3, ControlFacts DEF Jobs
<1>6. own # None => own \in ChainOf(own)
  BY DEF ChainOf
<1>7. Onward(s, own, sc, j)
  <2>1. Carrier(sc, j) /\ ~JoinsUp(sc, j)
    BY <1>2, <1>3, <1>6 DEF Carrier, JoinsUp, Joins, Leaves
  <2> QED BY <1>1, <1>2, <1>4, <1>5, <2>1 DEF Onward
<1>8. k.pc \notin Joins \cup Leaves
  BY <1>3 DEF Joins, Leaves
<1>9. ASSUME NEW a \in Agg, NEW ew
      PROVE  /\ NumOf(sc, j, a) = NumOf(sd, k, a)
             /\ WtOf(sc, j, a, ew) = WtOf(sd, k, a, ew)
  <2>1. a # None
    BY TreeAssumption
  <2> QED BY <1>1, <1>2, <1>3, <1>8, <2>1, FirstStep
<1> QED BY <1>1, <1>4, <1>7, <1>9, OnwardTallies

\* Tables that differ in a weight, or in a count, of tier a.
OneWeight(g, h, a, v) ==
  \A x \in Agg :
    /\ h[x].parent = g[x].parent /\ h[x].weight = g[x].weight
    /\ h[x].eweight = g[x].eweight /\ h[x].nActive = g[x].nActive
    /\ h[x].activeWeight = IF x = a THEN v ELSE g[x].activeWeight
OneCount(g, h, a, v) ==
  \A x \in Agg :
    /\ h[x].parent = g[x].parent /\ h[x].weight = g[x].weight
    /\ h[x].eweight = g[x].eweight /\ h[x].activeWeight = g[x].activeWeight
    /\ h[x].nActive = IF x = a THEN v ELSE g[x].nActive

LEMMA WeightMoved ==
  ASSUME NEW g, Tiers(g), NEW a \in Agg, NEW v, NEW h, h = [g EXCEPT ![a].activeWeight = v]
  PROVE  OneWeight(g, h, a, v)
<1>1. PICK t : t = g[a]
  OBVIOUS
<1>2. PICK q : h = [g EXCEPT ![a] = q] /\ q = [t EXCEPT !.activeWeight = v]
  BY <1>1
<1>3. Tier(t)
  BY <1>1 DEF Tiers
<1>4. /\ q.parent = t.parent /\ q.weight = t.weight /\ q.eweight = t.eweight
      /\ q.nActive = t.nActive /\ q.activeWeight = v
  BY <1>2, <1>3 DEF Tier, TierFields
<1>5. \A b \in Agg : h[b] = IF b = a THEN q ELSE g[b]
  BY <1>2 DEF Tiers
<1> QED BY <1>1, <1>4, <1>5 DEF OneWeight

LEMMA CountMoved ==
  ASSUME NEW g, Tiers(g), NEW a \in Agg, NEW v, NEW h, h = [g EXCEPT ![a].nActive = v]
  PROVE  OneCount(g, h, a, v)
<1>1. PICK t : t = g[a]
  OBVIOUS
<1>2. PICK q : h = [g EXCEPT ![a] = q] /\ q = [t EXCEPT !.nActive = v]
  BY <1>1
<1>3. Tier(t)
  BY <1>1 DEF Tiers
<1>4. /\ q.parent = t.parent /\ q.weight = t.weight /\ q.eweight = t.eweight
      /\ q.activeWeight = t.activeWeight /\ q.nActive = v
  BY <1>2, <1>3 DEF Tier, TierFields
<1>5. \A b \in Agg : h[b] = IF b = a THEN q ELSE g[b]
  BY <1>2 DEF Tiers
<1> QED BY <1>1, <1>4, <1>5 DEF OneCount

\* What a tier c with its counter at n brings to a.
LEMMA KidIs ==
  ASSUME NEW g, NEW L, NEW a, NEW c \in Agg
  PROVE  /\ Kids(g, L, a)[c] = IF c \in L /\ g[c].parent = a /\ g[c].nActive > 0 THEN 1 ELSE 0
         /\ KidWeights(g, L, a)[c] =
              IF c \in L /\ g[c].parent = a /\ g[c].nActive > 0 THEN g[c].eweight ELSE 0
BY DEF Kids, KidWeights

\* The steps of a join, or leave, of a scheduler sc that hangs on own: from k to j
\* at tier x, and from there to j2 at tier up or to i.
Joining(sc, k, j, j2, i, own, x, up) ==
  /\ sc.attach = own /\ sc.eweight \in Nat /\ sc.active
  /\ k.pc = "joinW" /\ k.at = x /\ j.pc = "joinN" /\ j.at = x
  /\ j2.pc = "joinW" /\ j2.at = up /\ i.pc = "idle"
Leaving(sc, k, j, j2, i, own, x, up) ==
  /\ sc.attach = own /\ sc.eweight \in Nat /\ ~sc.active
  /\ k.pc = "leaveW" /\ k.at = x /\ j.pc = "leaveN" /\ j.at = x
  /\ j2.pc = "leaveW" /\ j2.at = up /\ i.pc = "idle"

JoinedBy(sc, k, j, j2, i, a, own, x, up, ew) ==
  /\ NumOf(sc, j, a) = NumOf(sc, k, a)
  /\ WtOf(sc, j, a, ew) = WtOf(sc, k, a, ew)
       + (IF a = x THEN IF x = own THEN sc.eweight ELSE ew ELSE 0)
  /\ NumOf(sc, i, a) = NumOf(sc, j, a) + (IF a = x THEN 1 ELSE 0)
  /\ WtOf(sc, i, a, ew) = WtOf(sc, j, a, ew)
  /\ x = own /\ up # own =>
       /\ NumOf(sc, j2, a) = NumOf(sc, j, a) + (IF a = own THEN 1 ELSE IF a = up THEN -1 ELSE 0)
       /\ WtOf(sc, j2, a, ew) = WtOf(sc, j, a, ew) + (IF a = up THEN -ew ELSE 0)
LeftBy(sc, k, j, j2, i, a, own, x, up, ew) ==
  /\ NumOf(sc, j, a) = NumOf(sc, k, a)
  /\ WtOf(sc, j, a, ew) = WtOf(sc, k, a, ew)
       - (IF a = x THEN IF x = own THEN sc.eweight ELSE ew ELSE 0)
  /\ NumOf(sc, i, a) = NumOf(sc, j, a) - (IF a = x THEN 1 ELSE 0)
  /\ WtOf(sc, i, a, ew) = WtOf(sc, j, a, ew)
  /\ x = own /\ up # own =>
       /\ NumOf(sc, j2, a) = NumOf(sc, j, a) + (IF a = own THEN -1 ELSE IF a = up THEN 1 ELSE 0)
       /\ WtOf(sc, j2, a, ew) = WtOf(sc, j, a, ew) + (IF a = up THEN ew ELSE 0)

\* What a join's, and a leave's, steps make of what a scheduler brings.
LEMMA JoinBrings ==
  ASSUME NEW sc, NEW k, NEW j, NEW j2, NEW i, NEW a, NEW own, NEW x, NEW up, NEW ew \in Nat,
         Joining(sc, k, j, j2, i, own, x, up)
  PROVE  JoinedBy(sc, k, j, j2, i, a, own, x, up, ew)
<1>1. /\ NumOf(sc, k, a) = IF own = a THEN IF a = x THEN 0 ELSE 1 ELSE IF a = x THEN -1 ELSE 0
      /\ NumOf(sc, j, a) = IF own = a THEN IF a = x THEN 0 ELSE 1 ELSE IF a = x THEN -1 ELSE 0
      /\ NumOf(sc, i, a) = IF own = a THEN 1 ELSE 0
      /\ NumOf(sc, j2, a) = IF own = a THEN IF a = up THEN 0 ELSE 1 ELSE IF a = up THEN -1 ELSE 0
  BY DEF NumOf, Share, Joining
<1>2. /\ WtOf(sc, k, a, ew) = IF own = a THEN IF a = x THEN 0 ELSE sc.eweight
                              ELSE IF a = x THEN -ew ELSE 0
      /\ WtOf(sc, j, a, ew) = IF own = a THEN sc.eweight ELSE 0
      /\ WtOf(sc, i, a, ew) = IF own = a THEN sc.eweight ELSE 0
      /\ WtOf(sc, j2, a, ew) = IF own = a THEN IF a = up THEN 0 ELSE sc.eweight
                               ELSE IF a = up THEN -ew ELSE 0
  BY DEF WtOf, Share, Joining
<1>3. PICK e \in Nat : e = sc.eweight
  BY DEF Joining
<1> QED BY <1>1, <1>2, <1>3 DEF JoinedBy

LEMMA LeaveBrings ==
  ASSUME NEW sc, NEW k, NEW j, NEW j2, NEW i, NEW a, NEW own, NEW x, NEW up, NEW ew \in Nat,
         Leaving(sc, k, j, j2, i, own, x, up)
  PROVE  LeftBy(sc, k, j, j2, i, a, own, x, up, ew)
<1>1. /\ NumOf(sc, k, a) = IF a = x THEN 1 ELSE 0
      /\ NumOf(sc, j, a) = IF a = x THEN 1 ELSE 0
      /\ NumOf(sc, i, a) = 0
      /\ NumOf(sc, j2, a) = IF a = up THEN 1 ELSE 0
  BY DEF NumOf, Share, Leaving
<1>2. /\ WtOf(sc, k, a, ew) = IF a = x THEN IF own = a THEN sc.eweight ELSE ew ELSE 0
      /\ WtOf(sc, j, a, ew) = 0
      /\ WtOf(sc, i, a, ew) = 0
      /\ WtOf(sc, j2, a, ew) = IF a = up THEN IF own = a THEN sc.eweight ELSE ew ELSE 0
  BY DEF WtOf, Share, Leaving
<1>3. PICK e \in Nat : e = sc.eweight
  BY DEF Leaving
<1> QED BY <1>1, <1>2, <1>3 DEF LeftBy

\* A join or leave is at the tier its scheduler hangs on, or at the one above.
CountingAt(s, own, x) ==
  /\ own \in Agg /\ own \in live /\ x \in Agg /\ x \in live /\ x \in ChainOf(own)
  /\ own = sched[s].attach /\ x = job[s].at
  /\ agg[own].eweight \in Nat /\ sched[s].eweight \in Nat
  /\ agg[x].nActive \in Nat
  /\ \A a \in Agg : agg[a].nActive \in Int /\ agg[a].activeWeight \in Int
                    /\ agg[a].eweight \in Nat
  /\ agg[x].parent \in Agg \cup {None} /\ None \notin Agg /\ agg[own].parent # own
  /\ agg[x].parent # None => x = own /\ agg[x].parent \in ChainOf(own)
  /\ Moving(s) = IF x = own THEN sched[s].eweight ELSE agg[own].eweight
  /\ job[s].pc \in Joins => sched[s].active
  /\ job[s].pc \in Leaves => ~sched[s].active

LEMMA CountingFacts ==
  ASSUME TreeInv, WeightInv, NEW s \in Sched, job[s].pc \in Joins \cup Leaves
  PROVE  CountingAt(s, sched[s].attach, job[s].at)
<1>1. PICK own, x : own = sched[s].attach /\ x = job[s].at
  OBVIOUS
<1>2. /\ x \in ChainOf(own)
      /\ job[s].pc \in Joins => sched[s].active
      /\ job[s].pc \in Leaves => ~sched[s].active
  BY <1>1 DEF WeightInv, Carriers, Carrier
<1>3. /\ own \in Agg \cup {None} /\ None \notin Agg
      /\ own = None => ChainOf(own) = {}
      /\ own # None => own \in live /\ own \in ChainOf(own) /\ agg[own].parent # own
      /\ ChainOf(own) \subseteq live /\ live \subseteq Agg
      /\ \A a \in ChainOf(own) : a # own => a = agg[own].parent /\ agg[a].parent = None
      /\ own # None /\ agg[own].parent # None => ChainOf(own) = {own, agg[own].parent}
  BY <1>1, ChainFacts
<1>4. own \in Agg /\ own \in live /\ x \in Agg /\ x \in live /\ own # None
  BY <1>2, <1>3
<1>5. agg[own].eweight \in Nat /\ sched[s].eweight \in Nat
  BY <1>4, ControlFacts DEF WeightInv, Weighted, Scheds
<1>6. agg[x].parent \in Agg \cup {None}
  BY <1>4, StepFacts
<1>7. \A a \in Agg : agg[a].nActive \in Nat /\ agg[a].activeWeight \in Nat /\ agg[a].eweight \in Nat
  BY CountersNat DEF WeightInv, Weighted
<1>8. agg[x].parent # None => x = own /\ agg[x].parent \in ChainOf(own)
  BY <1>2, <1>3, <1>4
<1>9. Moving(s) = IF x = own THEN sched[s].eweight ELSE agg[own].eweight
  BY <1>1 DEF Moving
<1>10. \A a \in Agg : agg[a].nActive \in Int /\ agg[a].activeWeight \in Int
  BY <1>7
<1> QED BY <1>1, <1>2, <1>3, <1>4, <1>5, <1>6, <1>7, <1>8, <1>9, <1>10 DEF CountingAt

\* The step moves a weight to v, up (d is 1) or down, and the job to j.
WeightTo(s, j, v, d) ==
  /\ job' = [job EXCEPT ![s] = j] /\ j.at = job[s].at /\ UNCHANGED <<live, sched>>
  /\ \/ d = 1 /\ job[s].pc = "joinW" /\ j.pc = "joinN"
     \/ d = -1 /\ job[s].pc = "leaveW" /\ j.pc = "leaveN"
  /\ agg' = [agg EXCEPT ![job[s].at].activeWeight = v]
  /\ v = IF d = 1 THEN agg[job[s].at].activeWeight + Moving(s)
         ELSE agg[job[s].at].activeWeight - Moving(s)

LEMMA WeightTallies ==
  ASSUME TreeInv, WeightInv, NEW s \in Sched, JoinWeight(s) \/ LeaveWeight(s)
  PROVE  WeightInv'
<1>1. PICK own, x, sc, k, m : /\ own = sched[s].attach /\ x = job[s].at /\ sc = sched[s]
                              /\ k = job[s] /\ m = Moving(s)
  OBVIOUS
<1>2. PICK j, v, d : WeightTo(s, j, v, d)
  <2>1. CASE JoinWeight(s)
    <3>1. PICK j, v : j = Job("joinN", x, 0) /\ v = agg[x].activeWeight + m
      OBVIOUS
    <3>2. j.pc = "joinN" /\ j.at = x
      BY <3>1 DEF Job
    <3>3. /\ job' = [job EXCEPT ![s] = j] /\ k.pc = "joinW" /\ UNCHANGED <<live, sched>>
          /\ agg' = [agg EXCEPT ![x].activeWeight = v]
      BY <1>1, <2>1, <3>1 DEF JoinWeight, Goto
    <3>4. WeightTo(s, j, v, 1)
      BY <1>1, <3>1, <3>2, <3>3 DEF WeightTo
    <3> QED BY <3>4
  <2>2. CASE LeaveWeight(s)
    <3>1. PICK j, v : j = Job("leaveN", x, 0) /\ v = agg[x].activeWeight - m
      OBVIOUS
    <3>2. j.pc = "leaveN" /\ j.at = x
      BY <3>1 DEF Job
    <3>3. /\ job' = [job EXCEPT ![s] = j] /\ k.pc = "leaveW" /\ UNCHANGED <<live, sched>>
          /\ agg' = [agg EXCEPT ![x].activeWeight = v]
      BY <1>1, <2>2, <3>1 DEF LeaveWeight, Goto
    <3>4. WeightTo(s, j, v, -1)
      BY <1>1, <3>1, <3>2, <3>3 DEF WeightTo
    <3> QED BY <3>4
  <2> QED BY <2>1, <2>2
<1>3. /\ job' = [job EXCEPT ![s] = j] /\ j.at = x /\ UNCHANGED <<live, sched>>
      /\ \/ d = 1 /\ k.pc = "joinW" /\ j.pc = "joinN"
         \/ d = -1 /\ k.pc = "leaveW" /\ j.pc = "leaveN"
      /\ agg' = [agg EXCEPT ![x].activeWeight = v]
      /\ v = IF d = 1 THEN agg[x].activeWeight + m ELSE agg[x].activeWeight - m
  BY <1>1, <1>2, Zenon DEF WeightTo
<1>4. CountingAt(s, own, x)
  BY <1>1, <1>3, CountingFacts DEF Joins, Leaves
<1>5. PICK ew \in Nat : ew = agg[own].eweight
  BY <1>4 DEF CountingAt
<1>6. x \in Agg /\ sc.attach = own /\ sc.eweight \in Nat /\ Tiers(agg)
  BY <1>1, <1>4, ControlFacts DEF CountingAt
<1>7. \A y \in Agg :
        /\ agg'[y].parent = agg[y].parent /\ agg'[y].weight = agg[y].weight
        /\ agg'[y].eweight = agg[y].eweight /\ agg'[y].nActive = agg[y].nActive
        /\ agg'[y].activeWeight = IF y = x THEN v ELSE agg[y].activeWeight
  <2>1. PICK h : h = agg'
    OBVIOUS
  <2>2. h = [agg EXCEPT ![x].activeWeight = v]
    BY <1>3, <2>1
  <2>3. OneWeight(agg, h, x, v)
    BY <1>6, <2>2, WeightMoved
  <2> QED BY <2>1, <2>3 DEF OneWeight
<1>8. \A a \in Agg : /\ NumOf(sc, j, a) = NumOf(sc, k, a)
                     /\ WtOf(sc, j, a, ew) = WtOf(sc, k, a, ew) + (IF a = x THEN d * m ELSE 0)
  <2>1. m \in Nat /\ m = IF x = own THEN sc.eweight ELSE ew
    BY <1>1, <1>4, <1>5 DEF CountingAt
  <2>2. PICK i, j2 : i = Idle /\ j2 = Job("joinW", x, 0)
    OBVIOUS
  <2>3. PICK l2 : l2 = Job("leaveW", x, 0)
    OBVIOUS
  <2>4. /\ i.pc = "idle" /\ j2.pc = "joinW" /\ j2.at = x /\ l2.pc = "leaveW" /\ l2.at = x
        /\ k.at = x
    BY <1>1, <2>2, <2>3 DEF Idle, Job
  <2>5. CASE d = 1
    <3>1. k.pc = "joinW" /\ j.pc = "joinN" /\ sc.active
      BY <1>1, <1>3, <1>4, <2>5 DEF CountingAt, Joins
    <3>2. \A a : /\ NumOf(sc, j, a) = NumOf(sc, k, a)
                 /\ WtOf(sc, j, a, ew) = WtOf(sc, k, a, ew)
                      + (IF a = x THEN IF x = own THEN sc.eweight ELSE ew ELSE 0)
      <4>1. Joining(sc, k, j, j2, i, own, x, x)
        BY <1>3, <1>6, <2>4, <3>1 DEF Joining
      <4>2. \A a : JoinedBy(sc, k, j, j2, i, a, own, x, x, ew)
        BY <4>1, JoinBrings
      <4> QED BY <4>2 DEF JoinedBy
    <3> QED BY <2>1, <2>5, <3>2
  <2>6. CASE d = -1
    <3>1. k.pc = "leaveW" /\ j.pc = "leaveN" /\ ~sc.active
      BY <1>1, <1>3, <1>4, <2>6 DEF CountingAt, Leaves
    <3>2. \A a : /\ NumOf(sc, j, a) = NumOf(sc, k, a)
                 /\ WtOf(sc, j, a, ew) = WtOf(sc, k, a, ew)
                      - (IF a = x THEN IF x = own THEN sc.eweight ELSE ew ELSE 0)
      <4>1. Leaving(sc, k, j, l2, i, own, x, x)
        BY <1>3, <1>6, <2>4, <3>1 DEF Leaving
      <4>2. \A a : LeftBy(sc, k, j, l2, i, a, own, x, x, ew)
        BY <4>1, LeaveBrings
      <4> QED BY <4>2 DEF LeftBy
    <3>3. \A a \in Agg : WtOf(sc, k, a, ew) \in Int
      BY <1>5, <1>6, BringsInt
    <3> QED BY <2>1, <2>6, <3>2, <3>3
  <2> QED BY <1>3, <2>5, <2>6
<1>9. \A r \in Sched : job'[r] = IF r = s THEN j ELSE job[r]
  BY <1>3, ControlFacts DEF Jobs
<1>10. Onward(s, own, sc, j)
  <2>1. Carrier(sc, j)
    BY <1>1, <1>3, <1>4, <1>6 DEF Carrier, CountingAt, Joins, Leaves
  <2>2. JoinsUp(sc, j) => JoinsUp(sched[s], job[s])
    BY <1>1, <1>3 DEF JoinsUp, Joins
  <2> QED BY <1>1, <1>3, <1>7, <1>9, <2>1, <2>2 DEF Onward
<1>11. Carried(s, own, sc, j, x)
  <2>1. ASSUME NEW a \in Agg
        PROVE  /\ agg'[a].nActive = agg[a].nActive
                    + ((NumOf(sc, j, a) - NumOf(sched[s], job[s], a))
                       + (Kids(agg', live, a)[x] - Kids(agg, live, a)[x]))
               /\ agg'[a].activeWeight = agg[a].activeWeight
                    + ((WtOf(sc, j, a, agg[own].eweight) - WtOf(sched[s], job[s], a, agg[own].eweight))
                       + (KidWeights(agg', live, a)[x] - KidWeights(agg, live, a)[x]))
    <3>1. /\ Kids(agg', live, a)[x] = Kids(agg, live, a)[x]
          /\ KidWeights(agg', live, a)[x] = KidWeights(agg, live, a)[x]
      BY <1>6, <1>7, KidIs
    <3>2. Kids(agg, live, a)[x] \in Int /\ KidWeights(agg, live, a)[x] \in Int
      <4>1. agg[x].eweight \in Int
        BY <1>4, <1>6 DEF CountingAt
      <4> QED BY <1>6, <4>1, KidIs
    <3>3. NumOf(sc, k, a) \in Int /\ WtOf(sc, k, a, ew) \in Int
      BY <1>5, <1>6, BringsInt
    <3>4. agg[a].nActive \in Int /\ agg[a].activeWeight \in Int /\ m \in Nat
      BY <1>1, <1>4 DEF CountingAt
    <3>5. agg'[a].activeWeight = agg[a].activeWeight + (IF a = x THEN d * m ELSE 0)
      BY <1>3, <1>7, <3>4
    <3>6. NumOf(sc, j, a) = NumOf(sc, k, a)
          /\ WtOf(sc, j, a, ew) = WtOf(sc, k, a, ew) + (IF a = x THEN d * m ELSE 0)
      BY <1>8
    <3>7. PICK e \in Int : e = IF a = x THEN d * m ELSE 0
      <4>1. d * m \in Int
        BY <1>3, <3>4
      <4> QED BY <4>1
    <3>8. PICK y, z : y = Kids(agg, live, a)[x] /\ z = KidWeights(agg, live, a)[x]
      OBVIOUS
    <3>9. agg'[a].nActive = agg[a].nActive + ((NumOf(sc, j, a) - NumOf(sc, k, a)) + (y - y))
      BY <1>7, <3>2, <3>3, <3>4, <3>6, <3>8
    <3>10. agg'[a].activeWeight = agg[a].activeWeight
             + ((WtOf(sc, j, a, ew) - WtOf(sc, k, a, ew)) + (z - z))
      BY <3>2, <3>3, <3>4, <3>5, <3>6, <3>7, <3>8
    <3> QED BY <1>1, <1>5, <3>1, <3>8, <3>9, <3>10
  <2> QED BY <1>7, <1>10, <2>1 DEF Carried
<1> QED BY <1>6, <1>11, CarriedTallies

\* The step moves the number at x to n + d, and the job to j: to the tier up
\* above, when it was the first to come or is the last to leave.
CountTo(s, own, x, sc, j, n, d, up) ==
  /\ CountingAt(s, own, x) /\ sc = sched[s] /\ sc.attach = own
  /\ n = agg[x].nActive /\ up = agg[x].parent
  /\ live' = live /\ sched' = sched
  /\ \A r \in Sched : job'[r] = IF r = s THEN j ELSE job[r]
  /\ OneCount(agg, agg', x, n + d)
  /\ \/ d = 1 /\ job[s].pc = "joinN"
     \/ d = -1 /\ job[s].pc = "leaveN"
  /\ IF n = (IF d = 1 THEN 0 ELSE 1) /\ up # None
     THEN j.pc = (IF d = 1 THEN "joinW" ELSE "leaveW") /\ j.at = up
     ELSE j.pc = "idle"

CountMade(s, x, j, m, n, d, up) ==
  /\ job' = [job EXCEPT ![s] = j] /\ live' = live /\ sched' = sched
  /\ agg' = [agg EXCEPT ![x].nActive = m] /\ m = n + d
  /\ \/ d = 1 /\ job[s].pc = "joinN"
     \/ d = -1 /\ job[s].pc = "leaveN"
  /\ IF n = (IF d = 1 THEN 0 ELSE 1) /\ up # None
     THEN j.pc = (IF d = 1 THEN "joinW" ELSE "leaveW") /\ j.at = up
     ELSE j.pc = "idle"

LEMMA CountIs ==
  ASSUME TreeInv, WeightInv, NEW s \in Sched, JoinCount(s) \/ LeaveCount(s)
  PROVE  \E own, x, sc, j, n, d, up : CountTo(s, own, x, sc, j, n, d, up)
<1>1. PICK own, x, sc, n, up : /\ own = sched[s].attach /\ x = job[s].at /\ sc = sched[s]
                               /\ n = agg[x].nActive /\ up = agg[x].parent
  OBVIOUS
<1>2. CountingAt(s, own, x)
  BY <1>1, CountingFacts DEF Joins, Leaves, JoinCount, LeaveCount
<1>3. x \in Agg /\ Tiers(agg)
  BY <1>2, ControlFacts DEF CountingAt, Jobs
<1>4. PICK j, m, d : CountMade(s, x, j, m, n, d, up)
  <2>1. CASE JoinCount(s)
    <3>1. PICK j : j = IF n = 0 /\ up # None THEN Job("joinW", up, 0) ELSE Idle
      OBVIOUS
    <3>2. IF n = 0 /\ up # None THEN j.pc = "joinW" /\ j.at = up ELSE j.pc = "idle"
      BY <3>1 DEF Job, Idle
    <3>3. /\ job' = [job EXCEPT ![s] = j] /\ live' = live /\ sched' = sched
          /\ agg' = [agg EXCEPT ![x].nActive = n + 1] /\ job[s].pc = "joinN"
      BY <1>1, <2>1, <3>1 DEF JoinCount
    <3>4. CountMade(s, x, j, n + 1, n, 1, up)
      BY <3>2, <3>3 DEF CountMade
    <3> QED BY <3>4
  <2>2. CASE LeaveCount(s)
    <3>1. PICK j : j = IF n = 1 /\ up # None THEN Job("leaveW", up, 0) ELSE Idle
      OBVIOUS
    <3>2. IF n = 1 /\ up # None THEN j.pc = "leaveW" /\ j.at = up ELSE j.pc = "idle"
      BY <3>1 DEF Job, Idle
    <3>3. /\ job' = [job EXCEPT ![s] = j] /\ live' = live /\ sched' = sched
          /\ agg' = [agg EXCEPT ![x].nActive = n - 1] /\ job[s].pc = "leaveN"
      BY <1>1, <2>2, <3>1 DEF LeaveCount
    <3>4. n \in Int
      BY <1>1, <1>2 DEF CountingAt
    <3>5. n - 1 = n + (-1)
      BY <3>4
    <3>6. CountMade(s, x, j, n - 1, n, -1, up)
      BY <3>2, <3>3, <3>5 DEF CountMade
    <3> QED BY <3>6
  <2> QED BY <2>1, <2>2
<1>5. /\ job' = [job EXCEPT ![s] = j] /\ live' = live /\ sched' = sched
      /\ agg' = [agg EXCEPT ![x].nActive = m] /\ m = n + d
      /\ \/ d = 1 /\ job[s].pc = "joinN"
         \/ d = -1 /\ job[s].pc = "leaveN"
      /\ IF n = (IF d = 1 THEN 0 ELSE 1) /\ up # None
         THEN j.pc = (IF d = 1 THEN "joinW" ELSE "leaveW") /\ j.at = up
         ELSE j.pc = "idle"
  BY <1>4, Zenon DEF CountMade
<1>6. OneCount(agg, agg', x, n + d)
  <2>1. PICK h : h = agg'
    OBVIOUS
  <2>2. h = [agg EXCEPT ![x].nActive = m]
    BY <1>5, <2>1
  <2>3. OneCount(agg, h, x, m)
    BY <1>3, <2>2, CountMoved
  <2> QED BY <1>5, <2>1, <2>3
<1>7. \A r \in Sched : job'[r] = IF r = s THEN j ELSE job[r]
  BY <1>5, ControlFacts DEF Jobs
<1>8. sc.attach = own
  BY <1>1
<1> QED BY <1>1, <1>2, <1>5, <1>6, <1>7, <1>8 DEF CountTo

LEMMA CountOnward ==
  ASSUME TreeInv, WeightInv, NEW s \in Sched, NEW own, NEW x, NEW sc, NEW j, NEW n, NEW d, NEW up,
         CountTo(s, own, x, sc, j, n, d, up)
  PROVE  Onward(s, own, sc, j)
<1>1. /\ own = sched[s].attach /\ sc = sched[s] /\ live' = live /\ sched' = sched
      /\ \A r \in Sched : job'[r] = IF r = s THEN j ELSE job[r]
  BY DEF CountTo, CountingAt
<1>2. \A y \in Agg : /\ agg'[y].parent = agg[y].parent
                     /\ agg'[y].weight = agg[y].weight /\ agg'[y].eweight = agg[y].eweight
  BY DEF CountTo, OneCount
<1>3. Carrier(sc, j)
  BY DEF Carrier, CountTo, CountingAt, Joins, Leaves
<1>4. ASSUME JoinsUp(sc, j), NEW r \in Sched, JoinsUp(sched[r], job[r]), sched[r].attach = own
      PROVE  FALSE
  <2>1. n = 0 /\ up # None /\ n = agg[x].nActive /\ up = agg[x].parent
    BY <1>4 DEF JoinsUp, CountTo, Joins
  <2>2. x = own /\ own \in Agg /\ own \in live
    BY <2>1 DEF CountTo, CountingAt
  <2>3. sched[r].active /\ job[r].pc \in Joins /\ job[r].at # own
    BY <1>4 DEF JoinsUp, WeightInv, Carriers, Carrier
  <2>4. NumOf(sched[r], job[r], own) = 1
    BY <1>4, <2>3 DEF NumOf, Share, Joins
  <2>5. Numbered(r, own) = 1
    BY <2>4, Brings
  <2>6. agg[own].nActive >= Numbered(r, own)
    BY <2>1, <2>2, AtSvlan
  <2> QED BY <2>1, <2>2, <2>5, <2>6
<1> QED BY <1>1, <1>2, <1>3, <1>4 DEF Onward, CountTo

\* Nothing is carried on: the S-VLAN still counts, or it did not count before.
LEMMA CountStays ==
  ASSUME TreeInv, WeightInv, NEW s \in Sched, NEW own, NEW x, NEW sc, NEW j, NEW n, NEW d, NEW up,
         CountTo(s, own, x, sc, j, n, d, up), j.pc = "idle"
  PROVE  Carried(s, own, sc, j, x)
<1>1. PICK k : k = job[s]
  OBVIOUS
<1>2. CountingAt(s, own, x) /\ Onward(s, own, sc, j)
  BY CountOnward DEF CountTo
<1>3. PICK ew \in Nat : ew = agg[own].eweight
  BY <1>2 DEF CountingAt
<1>4. /\ x \in Agg /\ x \in live /\ sc = sched[s] /\ sc.attach = own /\ sc.eweight \in Nat
      /\ n \in Nat /\ n = agg[x].nActive /\ up = agg[x].parent /\ k.at = x
      /\ (d = 1 /\ k.pc = "joinN") \/ (d = -1 /\ k.pc = "leaveN")
      /\ ~(n = (IF d = 1 THEN 0 ELSE 1) /\ up # None)
  BY <1>1, <1>2 DEF CountTo, CountingAt
<1>5. \A y \in Agg : /\ agg'[y].parent = agg[y].parent /\ agg'[y].eweight = agg[y].eweight
                     /\ agg'[y].activeWeight = agg[y].activeWeight
                     /\ agg'[y].nActive = IF y = x THEN n + d ELSE agg[y].nActive
  BY DEF CountTo, OneCount
<1>6. \A a \in Agg : /\ NumOf(sc, j, a) = NumOf(sc, k, a) + (IF a = x THEN d ELSE 0)
                     /\ WtOf(sc, j, a, ew) = WtOf(sc, k, a, ew)
  <2>1. CASE d = 1
    <3>1. PICK k0, j2 : k0 = Job("joinW", x, 0) /\ j2 = Job("joinW", x, 0)
      OBVIOUS
    <3>2. k0.pc = "joinW" /\ k0.at = x /\ j2.pc = "joinW" /\ j2.at = x
      BY <3>1 DEF Job
    <3>3. k.pc = "joinN" /\ sc.active
      BY <1>1, <1>2, <1>4, <2>1 DEF CountingAt, Joins
    <3>4. Joining(sc, k0, k, j2, j, own, x, x)
      BY <1>4, <3>2, <3>3 DEF Joining
    <3>5. \A a : JoinedBy(sc, k0, k, j2, j, a, own, x, x, ew)
      BY <3>4, JoinBrings
    <3> QED BY <2>1, <3>5 DEF JoinedBy
  <2>2. CASE d = -1
    <3>1. PICK k0, j2 : k0 = Job("leaveW", x, 0) /\ j2 = Job("leaveW", x, 0)
      OBVIOUS
    <3>2. k0.pc = "leaveW" /\ k0.at = x /\ j2.pc = "leaveW" /\ j2.at = x
      BY <3>1 DEF Job
    <3>3. k.pc = "leaveN" /\ ~sc.active
      BY <1>1, <1>2, <1>4, <2>2 DEF CountingAt, Leaves
    <3>4. Leaving(sc, k0, k, j2, j, own, x, x)
      BY <1>4, <3>2, <3>3 DEF Leaving
    <3>5. \A a : LeftBy(sc, k0, k, j2, j, a, own, x, x, ew)
      BY <3>4, LeaveBrings
    <3>6. \A a \in Agg : NumOf(sc, k, a) \in Int
      BY <1>3, <1>4, BringsInt
    <3>7. \A a \in Agg : NumOf(sc, j, a) = NumOf(sc, k, a) - (IF a = x THEN 1 ELSE 0)
                         /\ WtOf(sc, j, a, ew) = WtOf(sc, k, a, ew)
      BY <3>5 DEF LeftBy
    <3> QED BY <2>2, <3>6, <3>7
  <2> QED BY <1>4, <2>1, <2>2
<1>7. up # None => (n + d > 0 <=> n > 0)
  <2>1. ASSUME up # None, d = -1 PROVE n > 1
    <3>1. k.pc = "leaveN" /\ n # 1
      BY <1>4, <2>1
    <3>2. NumOf(sc, k, x) = 1
      BY <1>4, <3>1 DEF NumOf, Share
    <3>3. Numbered(s, x) = 1
      BY <1>1, <1>4, <3>2, Brings
    <3>4. n >= Numbered(s, x)
      BY <1>4, <2>1, AtSvlan
    <3> QED BY <1>4, <3>1, <3>3, <3>4
  <2>2. ASSUME up # None, d = 1 PROVE n > 0
    BY <1>4, <2>2
  <2> QED BY <1>4, <2>1, <2>2
<1>8. ASSUME NEW a \in Agg
      PROVE  /\ agg'[a].nActive = agg[a].nActive
                  + ((NumOf(sc, j, a) - NumOf(sched[s], job[s], a))
                     + (Kids(agg', live, a)[x] - Kids(agg, live, a)[x]))
             /\ agg'[a].activeWeight = agg[a].activeWeight
                  + ((WtOf(sc, j, a, agg[own].eweight) - WtOf(sched[s], job[s], a, agg[own].eweight))
                     + (KidWeights(agg', live, a)[x] - KidWeights(agg, live, a)[x]))
  <2>1. /\ Kids(agg', live, a)[x] = Kids(agg, live, a)[x]
        /\ KidWeights(agg', live, a)[x] = KidWeights(agg, live, a)[x]
    <3>1. agg[x].parent = a => (agg'[x].nActive > 0 <=> agg[x].nActive > 0)
      BY <1>4, <1>5, <1>7, TreeAssumption
    <3> QED BY <1>4, <1>5, <3>1, KidIs
  <2>2. PICK y, z : y = Kids(agg, live, a)[x] /\ z = KidWeights(agg, live, a)[x]
    OBVIOUS
  <2>3. y \in Int /\ z \in Int
    <3>1. agg[x].eweight \in Int
      BY <1>2, <1>4 DEF CountingAt
    <3> QED BY <1>4, <2>2, <3>1, KidIs
  <2>4. NumOf(sc, k, a) \in Int /\ WtOf(sc, k, a, ew) \in Int
    BY <1>3, <1>4, BringsInt
  <2>5. agg[a].nActive \in Int /\ agg[a].activeWeight \in Int
    BY <1>2 DEF CountingAt
  <2>6. agg'[a].nActive = agg[a].nActive + ((NumOf(sc, j, a) - NumOf(sc, k, a)) + (y - y))
    BY <1>4, <1>5, <1>6, <2>3, <2>4, <2>5
  <2>7. agg'[a].activeWeight = agg[a].activeWeight
          + ((WtOf(sc, j, a, ew) - WtOf(sc, k, a, ew)) + (z - z))
    BY <1>5, <1>6, <2>3, <2>4, <2>5
  <2> QED BY <1>1, <1>3, <1>4, <2>1, <2>2, <2>6, <2>7
<1> QED BY <1>2, <1>5, <1>8 DEF Carried

\* The S-VLAN's first child has come, or its last one left: its own count in the
\* port is from now on what the scheduler carries.
LEMMA CountCarries ==
  ASSUME TreeInv, WeightInv, NEW s \in Sched, NEW own, NEW x, NEW sc, NEW j, NEW n, NEW d, NEW up,
         CountTo(s, own, x, sc, j, n, d, up), j.pc # "idle"
  PROVE  Carried(s, own, sc, j, x)
<1>1. PICK k : k = job[s]
  OBVIOUS
<1>2. CountingAt(s, own, x) /\ Onward(s, own, sc, j)
  BY CountOnward DEF CountTo
<1>3. PICK ew \in Nat : ew = agg[own].eweight
  BY <1>2 DEF CountingAt
<1>4. /\ x \in Agg /\ x \in live /\ sc = sched[s] /\ sc.attach = own /\ sc.eweight \in Nat
      /\ up = agg[x].parent /\ k.at = x /\ up # None /\ n = agg[x].nActive
      /\ \/ d = 1 /\ k.pc = "joinN" /\ n = 0 /\ j.pc = "joinW" /\ j.at = up
         \/ d = -1 /\ k.pc = "leaveN" /\ n = 1 /\ j.pc = "leaveW" /\ j.at = up
  BY <1>1, <1>2 DEF CountTo, CountingAt
<1>5. x = own /\ up # own
  BY <1>2, <1>4 DEF CountingAt
<1>6. \A y \in Agg : /\ agg'[y].parent = agg[y].parent /\ agg'[y].eweight = agg[y].eweight
                     /\ agg'[y].activeWeight = agg[y].activeWeight
                     /\ agg'[y].nActive = IF y = x THEN n + d ELSE agg[y].nActive
  BY DEF CountTo, OneCount
<1>7. ASSUME NEW a \in Agg
      PROVE  /\ agg'[a].nActive = agg[a].nActive
                  + ((NumOf(sc, j, a) - NumOf(sched[s], job[s], a))
                     + (Kids(agg', live, a)[x] - Kids(agg, live, a)[x]))
             /\ agg'[a].activeWeight = agg[a].activeWeight
                  + ((WtOf(sc, j, a, agg[own].eweight) - WtOf(sched[s], job[s], a, agg[own].eweight))
                     + (KidWeights(agg', live, a)[x] - KidWeights(agg, live, a)[x]))
  <2>1. PICK y, z, y2, z2 : /\ y = Kids(agg, live, a)[x] /\ z = KidWeights(agg, live, a)[x]
                            /\ y2 = Kids(agg', live, a)[x] /\ z2 = KidWeights(agg', live, a)[x]
    OBVIOUS
  <2>2. /\ y = IF up = a /\ n > 0 THEN 1 ELSE 0
        /\ z = IF up = a /\ n > 0 THEN ew ELSE 0
        /\ y2 = IF up = a /\ n + d > 0 THEN 1 ELSE 0
        /\ z2 = IF up = a /\ n + d > 0 THEN ew ELSE 0
    BY <1>3, <1>4, <1>5, <1>6, <2>1, KidIs
  <2>3. NumOf(sc, k, a) \in Int /\ WtOf(sc, k, a, ew) \in Int
    BY <1>3, <1>4, BringsInt
  <2>4. agg[a].nActive \in Int /\ agg[a].activeWeight \in Int
    BY <1>2 DEF CountingAt
  <2>5. PICK i : i = Idle
    OBVIOUS
  <2>6. i.pc = "idle"
    BY <2>5 DEF Idle
  <2>7. CASE d = 1
    <3>1. PICK k0 : k0 = Job("joinW", x, 0)
      OBVIOUS
    <3>2. k0.pc = "joinW" /\ k0.at = x
      BY <3>1 DEF Job
    <3>3. k.pc = "joinN" /\ n = 0 /\ j.pc = "joinW" /\ j.at = up /\ sc.active
      BY <1>1, <1>2, <1>4, <2>7 DEF CountingAt, Joins
    <3>4. Joining(sc, k0, k, j, i, own, x, up)
      BY <1>4, <2>6, <3>2, <3>3 DEF Joining
    <3>5. JoinedBy(sc, k0, k, j, i, a, own, x, up, ew)
      BY <3>4, JoinBrings
    <3>6. /\ NumOf(sc, j, a) = NumOf(sc, k, a) + (IF a = own THEN 1 ELSE IF a = up THEN -1 ELSE 0)
          /\ WtOf(sc, j, a, ew) = WtOf(sc, k, a, ew) + (IF a = up THEN -ew ELSE 0)
      BY <1>5, <3>5 DEF JoinedBy
    <3>7. y = 0 /\ z = 0 /\ y2 = (IF up = a THEN 1 ELSE 0) /\ z2 = (IF up = a THEN ew ELSE 0)
      BY <2>2, <2>7, <3>3
    <3>8. agg'[a].nActive = agg[a].nActive + ((NumOf(sc, j, a) - NumOf(sc, k, a)) + (y2 - y))
      BY <1>4, <1>5, <1>6, <2>3, <2>4, <2>7, <3>3, <3>6, <3>7
    <3>9. agg'[a].activeWeight = agg[a].activeWeight
            + ((WtOf(sc, j, a, ew) - WtOf(sc, k, a, ew)) + (z2 - z))
      BY <1>3, <1>6, <2>3, <2>4, <3>6, <3>7
    <3> QED BY <1>1, <1>3, <1>4, <2>1, <3>8, <3>9
  <2>8. CASE d = -1
    <3>1. PICK k0 : k0 = Job("leaveW", x, 0)
      OBVIOUS
    <3>2. k0.pc = "leaveW" /\ k0.at = x
      BY <3>1 DEF Job
    <3>3. k.pc = "leaveN" /\ n = 1 /\ j.pc = "leaveW" /\ j.at = up /\ ~sc.active
      BY <1>1, <1>2, <1>4, <2>8 DEF CountingAt, Leaves
    <3>4. Leaving(sc, k0, k, j, i, own, x, up)
      BY <1>4, <2>6, <3>2, <3>3 DEF Leaving
    <3>5. LeftBy(sc, k0, k, j, i, a, own, x, up, ew)
      BY <3>4, LeaveBrings
    <3>6. /\ NumOf(sc, j, a) = NumOf(sc, k, a) + (IF a = own THEN -1 ELSE IF a = up THEN 1 ELSE 0)
          /\ WtOf(sc, j, a, ew) = WtOf(sc, k, a, ew) + (IF a = up THEN ew ELSE 0)
      BY <1>5, <3>5 DEF LeftBy
    <3>7. y2 = 0 /\ z2 = 0 /\ y = (IF up = a THEN 1 ELSE 0) /\ z = (IF up = a THEN ew ELSE 0)
      BY <2>2, <2>8, <3>3
    <3>8. agg'[a].nActive = agg[a].nActive + ((NumOf(sc, j, a) - NumOf(sc, k, a)) + (y2 - y))
      BY <1>4, <1>5, <1>6, <2>3, <2>4, <2>8, <3>3, <3>6, <3>7
    <3>9. agg'[a].activeWeight = agg[a].activeWeight
            + ((WtOf(sc, j, a, ew) - WtOf(sc, k, a, ew)) + (z2 - z))
      BY <1>3, <1>6, <2>3, <2>4, <3>6, <3>7
    <3> QED BY <1>1, <1>3, <1>4, <2>1, <3>8, <3>9
  <2> QED BY <1>4, <2>7, <2>8
<1> QED BY <1>2, <1>6, <1>7 DEF Carried

LEMMA CountTallies ==
  ASSUME TreeInv, WeightInv, NEW s \in Sched, JoinCount(s) \/ LeaveCount(s)
  PROVE  WeightInv'
<1>1. PICK own, x, sc, j, n, d, up : CountTo(s, own, x, sc, j, n, d, up)
  BY CountIs
<1>2. x \in Agg
  BY <1>1 DEF CountTo, CountingAt
<1>3. Carried(s, own, sc, j, x)
  BY <1>1, CountStays, CountCarries
<1> QED BY <1>2, <1>3, CarriedTallies

LEMMA WorkerTallies ==
  ASSUME TreeInv, WeightInv, Worker
  PROVE  WeightInv'
<1>1. PICK s \in Sched : \/ PlainStep(s)
                         \/ Commit(s) \/ Deactivate(s)
                         \/ JoinWeight(s) \/ LeaveWeight(s)
                         \/ JoinCount(s) \/ LeaveCount(s)
  BY Zenon DEF Worker, PlainStep
<1> QED BY <1>1, PlainTallies, BeginTallies, WeightTallies, CountTallies

-----------------------------------------------------------------------------
(* The weights under the barrier: every active scheduler is one child.      *)

RestNum(f, a) == [r \in Sched |-> IF f[r].attach = a /\ f[r].active THEN 1 ELSE 0]
RestWt(f, a) == [r \in Sched |-> IF f[r].attach = a /\ f[r].active THEN f[r].eweight ELSE 0]
RestNums(f) == [a \in Agg |-> RestNum(f, a)]
RestWts(f) == [a \in Agg |-> RestWt(f, a)]

LEMMA QuietTallied ==
  ASSUME Quiet
  PROVE  /\ Tallied <=> Tally(agg, live, RestNums(sched), RestWts(sched))
         /\ job' = job =>
              (Tallied' <=> Tally(agg', live', RestNums(sched'), RestWts(sched')))
<1>1. Idle.pc \notin Joins \cup Leaves
  BY DEF Idle, Joins, Leaves
<1>2. Nums = RestNums(sched) /\ Wts = RestWts(sched)
  <2>1. ASSUME NEW a \in Agg, NEW r \in Sched
        PROVE  Numbered(r, a) = RestNum(sched, a)[r] /\ Weighed(r, a) = RestWt(sched, a)[r]
    <3>1. job[r] = Idle
      BY DEF Quiet
    <3>2. /\ NumOf(sched[r], job[r], a) = RestNum(sched, a)[r]
          /\ \A ew : WtOf(sched[r], job[r], a, ew) = RestWt(sched, a)[r]
      BY <1>1, <3>1, BringsRest DEF RestNum, RestWt
    <3> QED BY <3>2, Brings
  <2>2. \A a \in Agg : NumbersAt(a) = RestNum(sched, a) /\ WeightsAt(a) = RestWt(sched, a)
    BY <2>1 DEF NumbersAt, WeightsAt, RestNum, RestWt
  <2> QED BY <2>2 DEF Nums, Wts, RestNums, RestWts
<1>3. ASSUME job' = job PROVE Nums' = RestNums(sched') /\ Wts' = RestWts(sched')
  <2>1. PICK f : f = sched'
    OBVIOUS
  <2>2. ASSUME NEW a \in Agg, NEW r \in Sched
        PROVE  Numbered(r, a)' = RestNum(f, a)[r] /\ Weighed(r, a)' = RestWt(f, a)[r]
    <3>1. job'[r] = Idle
      BY <1>3 DEF Quiet
    <3>2. /\ NumOf(f[r], job'[r], a) = RestNum(f, a)[r]
          /\ \A ew : WtOf(f[r], job'[r], a, ew) = RestWt(f, a)[r]
      BY <1>1, <3>1, BringsRest DEF RestNum, RestWt
    <3>3. /\ Numbered(r, a)' = NumOf(f[r], job'[r], a)
          /\ Weighed(r, a)' = WtOf(f[r], job'[r], a, agg'[f[r].attach].eweight)
      BY <2>1, BringsNext
    <3> QED BY <3>2, <3>3
  <2>3. \A a \in Agg : NumbersAt(a)' = RestNum(f, a) /\ WeightsAt(a)' = RestWt(f, a)
    BY <2>2 DEF NumbersAt, WeightsAt, RestNum, RestWt
  <2> QED BY <2>1, <2>3 DEF Nums, Wts, RestNums, RestWts
<1> QED BY <1>2, <1>3, TalliedIs, TalliedIsNext

LEMMA QuietWeights ==
  ASSUME Quiet, job' = job, Weighted',
         Tally(agg', live', RestNums(sched'), RestWts(sched'))
  PROVE  WeightInv'
<1>1. \A r \in Sched : job'[r] = Idle
  BY DEF Quiet
<1>2. Carriers' /\ OneUp'
  BY <1>1 DEF Carriers, Carrier, OneUp, JoinsUp, Idle, Joins, Leaves
<1> QED BY <1>2, QuietTallied DEF WeightInv

LEMMA RestIs ==
  ASSUME NEW f, NEW a \in Agg, NEW r \in Sched
  PROVE  /\ RestNums(f)[a][r] = IF f[r].attach = a /\ f[r].active THEN 1 ELSE 0
         /\ RestWts(f)[a][r] = IF f[r].attach = a /\ f[r].active THEN f[r].eweight ELSE 0
BY DEF RestNums, RestWts, RestNum, RestWt

\* A change of the tree that no active child notices.
LEMMA UnseenTallies ==
  ASSUME WeightInv, Quiet, job' = job, Weighted', Alike(agg, agg', live, live'),
         \A r \in Sched :
           \/ /\ ~sched[r].active \/ sched[r].attach = None
              /\ ~sched'[r].active \/ sched'[r].attach = None
           \/ /\ sched'[r].active = sched[r].active /\ sched'[r].attach = sched[r].attach
              /\ sched'[r].eweight = sched[r].eweight
  PROVE  WeightInv'
<1>1. PICK N, W, N2, W2 : /\ N = RestNums(sched) /\ W = RestWts(sched)
                          /\ N2 = RestNums(sched') /\ W2 = RestWts(sched')
  OBVIOUS
<1>2. \A a \in Agg : \A r \in Sched : N2[a][r] = N[a][r] /\ W2[a][r] = W[a][r]
  <2>1. None \notin Agg
    BY TreeAssumption
  <2>2. ASSUME NEW a \in Agg, NEW r \in Sched PROVE N2[a][r] = N[a][r] /\ W2[a][r] = W[a][r]
    BY <1>1, <2>1, RestIs
  <2> QED BY <2>2
<1>3. Tally(agg, live, N, W)
  BY <1>1, QuietTallied DEF WeightInv
<1>4. Tally(agg', live', N2, W2)
  BY <1>2, <1>3, NoneMoves
<1> QED BY <1>1, <1>4, QuietWeights

\* A slot off the tree counts nobody.
LEMMA EmptySlot ==
  ASSUME TreeInv, WeightInv, Quiet, ctl.todo = {}, NEW a \in Agg \ Kept
  PROVE  agg[a].nActive = 0 /\ agg[a].activeWeight = 0
<1>1. ASSUME NEW s \in Sched PROVE sched[s].attach # a
  <2>1. Resolve(s, aggOf, agg) \in Kept \cup {None} /\ None \notin Agg
    BY ResolveKept, ControlFacts
  <2> QED BY <2>1, ControlFacts DEF Attached
<1>2. ASSUME NEW c \in live PROVE agg[c].parent # a
  <2>1. CASE c \in Kept
    BY <2>1, ControlFacts DEF Svlans, Svlan
  <2>2. CASE c = ctl.gone
    BY <2>2, ControlFacts DEF Goner
  <2> QED BY <2>1, <2>2 DEF Kept
<1>3. PICK f, v, k, w : /\ f = RestNums(sched)[a] /\ v = RestWts(sched)[a]
                        /\ k = Kids(agg, live, a) /\ w = KidWeights(agg, live, a)
  OBVIOUS
<1>4. \A r \in Sched : f[r] = 0 /\ v[r] = 0
  BY <1>1, <1>3, RestIs
<1>5. \A c \in Agg : k[c] = 0 /\ w[c] = 0
  BY <1>2, <1>3, KidIs
<1>6. /\ SumFunctionOnSet(f, Sched) = 0 /\ SumFunctionOnSet(v, Sched) = 0
      /\ SumFunctionOnSet(k, Agg) = 0 /\ SumFunctionOnSet(w, Agg) = 0
  BY <1>4, <1>5, SumZero, TreeAssumption
<1>7. /\ agg[a].nActive = SumFunctionOnSet(f, Sched) + SumFunctionOnSet(k, Agg)
      /\ agg[a].activeWeight = SumFunctionOnSet(v, Sched) + SumFunctionOnSet(w, Agg)
  BY <1>3, QuietTallied DEF Tally, WeightInv
<1> QED BY <1>6, <1>7

\* The slot a is taken, or given back, or its record replaced by one that
\* counts nobody either.
Slot(a, q) ==
  /\ Quiet /\ job' = job /\ sched' = sched
  /\ live' \in SUBSET Agg /\ \A x \in Agg : x # a => (x \in live <=> x \in live')
  /\ q.nActive = 0 /\ q.activeWeight = 0 /\ q.weight \in Nat /\ q.eweight \in Nat
  /\ \A x \in Agg \ {a} : /\ agg'[x].parent = agg[x].parent
                          /\ agg'[x].weight = agg[x].weight /\ agg'[x].eweight = agg[x].eweight
                          /\ agg'[x].nActive = agg[x].nActive
                          /\ agg'[x].activeWeight = agg[x].activeWeight
  /\ agg'[a] = q

LEMMA SlotTallies ==
  ASSUME TreeInv, WeightInv, ctl.todo = {}, NEW a \in Agg \ Kept, NEW q, Slot(a, q)
  PROVE  WeightInv'
<1>1. agg[a].nActive = 0 /\ agg[a].activeWeight = 0
  BY EmptySlot DEF Slot
<1>2. Alike(agg, agg', live, live')
  BY <1>1 DEF Alike, Slot
<1>3. Weighted'
  BY DEF Weighted, WeightInv, Slot
<1> QED BY <1>2, <1>3, UnseenTallies DEF Slot

LEMMA NewAggIs ==
  ASSUME NEW parent, NEW first, NEW last, NEW r \in Nat, NEW w \in Nat, NEW n, NEW q,
         q = NewAgg(parent, first, last, r, w, n)
  PROVE  q.nActive = 0 /\ q.activeWeight = 0 /\ q.weight \in Nat /\ q.eweight \in Nat
<1>1. EffectiveWeight(r, w) \in Nat
  BY EffectiveNat
<1>2. PICK ew \in Nat : ew = EffectiveWeight(r, w)
  BY <1>1
<1> QED BY <1>2 DEF NewAgg

LEMMA PutAggTallies ==
  ASSUME TreeInv, WeightInv, PutAgg
  PROVE  WeightInv'
<1>1. /\ ctl.todo = {} /\ ctl.gone # None /\ live' = live \ {ctl.gone}
      /\ agg' = [agg EXCEPT ![ctl.gone] = FreeAgg] /\ UNCHANGED <<sched, job>>
  BY DEF PutAgg
<1>2. Quiet /\ ctl.gone \in Agg \ Kept /\ live \subseteq Agg
  BY <1>1, ControlFacts DEF Goner, Kept
<1>3. PICK a, q : a = ctl.gone /\ q = FreeAgg
  OBVIOUS
<1>4. q.nActive = 0 /\ q.activeWeight = 0 /\ q.weight \in Nat /\ q.eweight \in Nat
  BY <1>3, NewAggIs DEF FreeAgg
<1>5. \A x \in Agg : agg'[x] = IF x = a THEN q ELSE agg[x]
  BY <1>1, <1>2, <1>3, ControlFacts DEF Tables
<1>6. Slot(a, q)
  BY <1>1, <1>2, <1>3, <1>4, <1>5 DEF Slot
<1> QED BY <1>1, <1>2, <1>3, <1>6, SlotTallies

LEMMA CreatePortTallies ==
  ASSUME TreeInv, WeightInv, NEW p \in Port, NEW r \in Rates, NEW w \in Weights,
         NEW n \in Limits, CreatePort(p, r, w, n)
  PROVE  WeightInv'
<1>1. MainFree /\ UNCHANGED <<sched, job>>
  BY DEF CreatePort
<1>2. Quiet /\ ctl.todo = {} /\ Kept = live /\ live \subseteq Agg
  BY <1>1, ControlFacts
<1>3. PICK a, q : /\ a \in Agg \ live /\ q = NewAgg(None, 0, 0, r, w, n)
                  /\ agg' = [agg EXCEPT ![a] = q] /\ live' = live \cup {a}
  BY DEF CreatePort
<1>4. q.nActive = 0 /\ q.activeWeight = 0 /\ q.weight \in Nat /\ q.eweight \in Nat
  <2>1. r \in Nat /\ w \in Nat
    BY TreeAssumption
  <2>2. q = NewAgg(None, 0, 0, r, w, n)
    BY <1>3
  <2> QED BY ONLY <2>1, <2>2, NewAggIs
<1>5. \A x \in Agg : agg'[x] = IF x = a THEN q ELSE agg[x]
  BY <1>3, ControlFacts DEF Tables
<1>6. Slot(a, q)
  BY <1>1, <1>2, <1>3, <1>4, <1>5 DEF Slot
<1> QED BY <1>2, <1>3, <1>6, SlotTallies

LEMMA CreateSvlanTallies ==
  ASSUME TreeInv, WeightInv, NEW p \in Port, NEW first \in Tag, NEW last \in Tag,
         NEW r \in Rates, NEW w \in Weights, NEW n \in Limits,
         CreateSvlan(p, first, last, r, w, n)
  PROVE  WeightInv'
<1> DEFINE port == aggOf[p]
<1>1. MainFree /\ port # None /\ UNCHANGED <<sched, job>>
  BY Zenon DEF CreateSvlan
<1>2. Quiet /\ ctl.todo = {} /\ Kept = live /\ port \in live /\ live \subseteq Agg
  BY <1>1, ControlFacts DEF Ports
<1>3. PICK a \in Agg \ live : live' = live \cup {a} /\ agg' = [agg EXCEPT
        ![a] = NewAgg(port, first, last, r, w, n),
        ![port].map = [t \in Tag |-> IF t \in first..last THEN a ELSE @[t]]]
  BY Zenon DEF CreateSvlan
<1> HIDE DEF port
<1>4. PICK q, m, t : /\ q = NewAgg(port, first, last, r, w, n) /\ t = agg[port]
                     /\ m = [x \in Tag |-> IF x \in first..last THEN a ELSE t.map[x]]
  OBVIOUS
<1>5. a # port /\ a \in Agg /\ a \notin live
  BY <1>2, <1>3
<1>6. PICK h : h = agg'
  OBVIOUS
<1>7. PICK z : z = [t EXCEPT !.map = m]
  OBVIOUS
<1>8. \A b \in Agg : h[b] = IF b = a THEN q ELSE IF b = port THEN z ELSE agg[b]
  <2>1. PICK g : g = [agg EXCEPT ![a] = q]
    OBVIOUS
  <2>2. /\ g[port] = t /\ g = [b \in Agg |-> g[b]]
        /\ g[a] = q /\ \A b \in Agg : b # a => g[b] = agg[b]
    BY <1>2, <1>4, <1>5, <2>1, ControlFacts DEF Tables
  <2>3. agg' = [g EXCEPT ![port] = [g[port] EXCEPT !.map = m]]
    BY <1>3, <1>4, <1>5, <2>1, <2>2
  <2>4. agg' = [g EXCEPT ![port] = z]
    BY <1>7, <2>2, <2>3
  <2> QED BY <1>2, <1>5, <1>6, <2>2, <2>4
<1>9. Tier(t)
  BY <1>2, <1>4, ControlFacts DEF Tiers
<1>10. /\ z.parent = t.parent /\ z.weight = t.weight /\ z.eweight = t.eweight
       /\ z.nActive = t.nActive /\ z.activeWeight = t.activeWeight
  BY <1>7, <1>9 DEF Tier, TierFields
<1>11. q.nActive = 0 /\ q.activeWeight = 0 /\ q.weight \in Nat /\ q.eweight \in Nat
  <2>1. r \in Nat /\ w \in Nat
    BY TreeAssumption
  <2>2. q = NewAgg(port, first, last, r, w, n)
    BY <1>4
  <2> QED BY ONLY <2>1, <2>2, NewAggIs
<1>12. Slot(a, q)
  <2>1. /\ agg'[a] = q
        /\ \A x \in Agg \ {a} :
             /\ agg'[x].parent = agg[x].parent
             /\ agg'[x].weight = agg[x].weight /\ agg'[x].eweight = agg[x].eweight
             /\ agg'[x].nActive = agg[x].nActive
             /\ agg'[x].activeWeight = agg[x].activeWeight
    BY <1>4, <1>5, <1>6, <1>8, <1>10
  <2>2. live' \in SUBSET Agg /\ \A x \in Agg : x # a => (x \in live <=> x \in live')
    BY <1>2, <1>3
  <2> QED BY <1>1, <1>2, <1>11, <2>1, <2>2 DEF Slot
<1> QED BY <1>2, <1>3, <1>12, SlotTallies

\* What leaves weights, counts and places alone.
LEMMA UntouchedTallies ==
  ASSUME TreeInv, WeightInv, Quiet, UNCHANGED <<live, sched, job>>, SameWeights(agg, agg')
  PROVE  WeightInv'
<1>1. Alike(agg, agg', live, live') /\ Weighted'
  BY DEF Alike, SameWeights, Weighted, WeightInv
<1> QED BY <1>1, UnseenTallies

LEMMA RemoveSvlanTallies ==
  ASSUME TreeInv, WeightInv, Barrier, NEW p \in Port, NEW t \in Tag, RemoveSvlan(p, t)
  PROVE  WeightInv'
<1>1. aggOf[p] # None /\ UNCHANGED <<live, sched, job>>
  BY Zenon DEF RemoveSvlan
<1>2. PICK port : port = aggOf[p]
  OBVIOUS
<1>3. Quiet /\ port \in Agg
  BY <1>1, <1>2, ControlFacts DEF Ports
<1>4. PICK m, z : z = [agg[port] EXCEPT !.map = m] /\ agg' = [agg EXCEPT ![port] = z]
  BY <1>2 DEF RemoveSvlan
<1>5. Tier(agg[port])
  BY <1>3, ControlFacts DEF Tiers
<1>6. /\ z.parent = agg[port].parent /\ z.weight = agg[port].weight
      /\ z.eweight = agg[port].eweight /\ z.nActive = agg[port].nActive
      /\ z.activeWeight = agg[port].activeWeight
  BY <1>4, <1>5 DEF Tier, TierFields
<1>7. \A b \in Agg : agg'[b] = IF b = port THEN z ELSE agg[b]
  BY <1>3, <1>4, ControlFacts DEF Tables
<1>8. SameWeights(agg, agg')
  BY <1>6, <1>7 DEF SameWeights
<1> QED BY <1>1, <1>3, <1>8, UntouchedTallies

LEMMA RemovePortTallies ==
  ASSUME TreeInv, WeightInv, Barrier, NEW p, RemovePort(p)
  PROVE  WeightInv'
<1>1. UNCHANGED <<live, agg, sched, job>>
  BY DEF RemovePort
<1>2. SameWeights(agg, agg')
  BY <1>1 DEF SameWeights
<1> QED BY <1>1, <1>2, ControlFacts, UntouchedTallies

LEMMA InterfaceDelTallies ==
  ASSUME TreeInv, WeightInv, NEW p \in Port, InterfaceDel(p)
  PROVE  WeightInv'
<1>1. MainFree /\ UNCHANGED <<live, agg, sched, job>>
  BY DEF InterfaceDel
<1>2. SameWeights(agg, agg')
  BY <1>1 DEF SameWeights
<1> QED BY <1>1, <1>2, ControlFacts, UntouchedTallies

LEMMA DeleteTallies ==
  ASSUME TreeInv, WeightInv,
         \/ \E p \in Port, t \in Tag : DeleteSvlan(p, t)
         \/ \E p \in Port : DeletePort(p)
         \/ CascadeSvlan \/ CascadePort
  PROVE  WeightInv'
<1>1. ASSUME NEW p \in Port, NEW t \in Tag, DeleteSvlan(p, t) PROVE WeightInv'
  BY <1>1, RemoveSvlanTallies DEF DeleteSvlan, MainFree
<1>2. ASSUME NEW p \in Port, DeletePort(p) PROVE WeightInv'
  BY <1>2, RemovePortTallies DEF DeletePort, MainFree
<1>3. CASE CascadeSvlan
  <2>1. PICK t \in ctl.tags : RemoveSvlan(ctl.cascade, t)
    BY <1>3 DEF CascadeSvlan
  <2>2. Barrier /\ ctl.cascade \in Port /\ t \in Tag
    BY <1>3, <2>1, ControlFacts DEF CascadeSvlan, Controls
  <2> QED BY <2>1, <2>2, RemoveSvlanTallies
<1>4. CASE CascadePort
  BY <1>4, RemovePortTallies DEF CascadePort
<1> QED BY <1>1, <1>2, <1>3, <1>4

LEMMA EnableTallies ==
  ASSUME TreeInv, WeightInv, NEW s \in Sched, NEW r \in Rates, NEW w \in Weights,
         Enable(s, r, w)
  PROVE  WeightInv'
<1>1. MainFree /\ ~sched[s].on /\ UNCHANGED <<live, agg, aggOf, job, ctl>>
  BY DEF Enable
<1>2. Quiet /\ sched[s].attach = None
  BY <1>1, ControlFacts DEF Attached
<1>3. PICK d : /\ d = [Disabled EXCEPT !.on = TRUE, !.attach = Resolve(s, aggOf, agg),
                                       !.eweight = EffectiveWeight(r, w)]
               /\ sched' = [sched EXCEPT ![s] = d]
  BY DEF Enable
<1>4. \A q \in Sched : sched'[q] = IF q = s THEN d ELSE sched[q]
  BY <1>3, ControlFacts DEF Scheds
<1>5. ~d.active
  BY <1>3 DEF Disabled
<1>6. Weighted' /\ Alike(agg, agg', live, live')
  BY <1>1 DEF Alike, Weighted, WeightInv
<1>7. \A q \in Sched :
        \/ /\ ~sched[q].active \/ sched[q].attach = None
           /\ ~sched'[q].active \/ sched'[q].attach = None
        \/ /\ sched'[q].active = sched[q].active /\ sched'[q].attach = sched[q].attach
           /\ sched'[q].eweight = sched[q].eweight
  BY <1>2, <1>4, <1>5
<1> QED BY <1>1, <1>2, <1>6, <1>7, UnseenTallies

\* The counters of a table that counts no scheduler below zero.
LEMMA TallyNat ==
  ASSUME NEW g, NEW L, NEW N, NEW W, Tally(g, L, N, W),
         \A a \in Agg : \A r \in Sched : N[a][r] \in Nat /\ W[a][r] \in Nat,
         \A x \in Agg : g[x].eweight \in Nat
  PROVE  \A a \in Agg : /\ g[a].nActive \in Nat /\ g[a].activeWeight \in Nat
                        /\ \A r \in Sched : g[a].nActive >= N[a][r]
<1>1. ASSUME NEW a \in Agg
      PROVE  /\ g[a].nActive \in Nat /\ g[a].activeWeight \in Nat
             /\ \A r \in Sched : g[a].nActive >= N[a][r]
  <2>1. PICK f, v, k, w : /\ f = N[a] /\ v = W[a]
                          /\ k = Kids(g, L, a) /\ w = KidWeights(g, L, a)
    OBVIOUS
  <2>2. \A r \in Sched : f[r] \in Nat /\ v[r] \in Nat
    BY <2>1
  <2>3. \A c \in Agg : k[c] \in Nat /\ w[c] \in Nat
    BY <2>1, KidIs
  <2>4. /\ SumFunctionOnSet(f, Sched) \in Nat /\ SumFunctionOnSet(v, Sched) \in Nat
        /\ SumFunctionOnSet(k, Agg) \in Nat /\ SumFunctionOnSet(w, Agg) \in Nat
    BY <2>2, <2>3, SumNat, TreeAssumption
  <2>5. \A r \in Sched : SumFunctionOnSet(f, Sched) >= f[r]
    BY <2>2, SumHas, TreeAssumption
  <2>6. /\ g[a].nActive = SumFunctionOnSet(f, Sched) + SumFunctionOnSet(k, Agg)
        /\ g[a].activeWeight = SumFunctionOnSet(v, Sched) + SumFunctionOnSet(w, Agg)
    BY <2>1 DEF Tally
  <2>7. \A r \in Sched : N[a][r] = f[r]
    BY <2>1
  <2>8. ASSUME NEW r \in Sched PROVE g[a].nActive >= N[a][r]
    <3>1. SumFunctionOnSet(f, Sched) >= f[r] /\ f[r] \in Nat /\ N[a][r] = f[r]
      BY <2>2, <2>5, <2>7
    <3> QED BY <2>4, <2>6, <3>1
  <2> QED BY <2>4, <2>6, <2>8
<1> QED BY <1>1

\* The tier a of a table g counts, and so do the others, whole numbers.
Countable(g, L, a) ==
  /\ Tiers(g) /\ a \in Agg /\ a \in L
  /\ \A x \in Agg : /\ g[x].nActive \in Nat /\ g[x].activeWeight \in Nat
                    /\ g[x].eweight \in Nat
  /\ g[a].parent # None => /\ g[a].parent \in Agg /\ g[a].parent # a
                           /\ g[g[a].parent].parent = None

\* Tier a, and with it its parent when edge holds, gets n children of weight w.
Gets(g, h, a, n, w, edge) ==
  \A x \in Agg :
    /\ h[x].parent = g[x].parent /\ h[x].weight = g[x].weight
    /\ h[x].eweight = g[x].eweight
    /\ h[x].nActive = IF x = a \/ (edge /\ x = g[a].parent) THEN g[x].nActive + n
                      ELSE g[x].nActive
    /\ h[x].activeWeight =
         IF x = a THEN g[x].activeWeight + n * w
         ELSE IF edge /\ x = g[a].parent THEN g[x].activeWeight + n * g[a].eweight
         ELSE g[x].activeWeight

LEMMA MovedIs ==
  ASSUME NEW g, Tiers(g), NEW a \in Agg, NEW w, NEW n, NEW h, h = Moved(g, a, w, n)
  PROVE  /\ Gets(g, h, a, n, w, FALSE) /\ Tiers(h)
<1>1. PICK t, u, v : t = g[a] /\ u = t.activeWeight + n * w /\ v = t.nActive + n
  OBVIOUS
<1>2. PICK q : /\ h = [g EXCEPT ![a] = q]
               /\ q = [t EXCEPT !.activeWeight = u, !.nActive = v]
  BY <1>1 DEF Moved
<1>3. Tier(t)
  BY <1>1 DEF Tiers
<1>4. /\ q.parent = t.parent /\ q.weight = t.weight /\ q.eweight = t.eweight
      /\ q.activeWeight = u /\ q.nActive = v
  BY <1>2, <1>3 DEF Tier, TierFields
<1>5. \A b \in Agg : h[b] = IF b = a THEN q ELSE g[b]
  BY <1>2 DEF Tiers
<1>6. Tiers(h)
  BY MovedSame DEF SameTree
<1> QED BY <1>1, <1>4, <1>5, <1>6 DEF Gets

LEMMA MovedTwice ==
  ASSUME NEW g, NEW L, NEW a, Countable(g, L, a), NEW w, NEW n, NEW h, NEW edge \in BOOLEAN,
         edge => g[a].parent # None,
         h = IF edge THEN Moved(Moved(g, a, w, n), g[a].parent, g[a].eweight, n)
             ELSE Moved(g, a, w, n)
  PROVE  Gets(g, h, a, n, w, edge) /\ Tiers(h)
<1>1. PICK k, p, e : k = Moved(g, a, w, n) /\ p = g[a].parent /\ e = g[a].eweight
  OBVIOUS
<1>2. a \in Agg /\ Tiers(g)
  BY DEF Countable
<1>3. Gets(g, k, a, n, w, FALSE) /\ Tiers(k)
  BY <1>1, <1>2, MovedIs
<1>4. CASE ~edge
  BY <1>1, <1>3, <1>4 DEF Gets
<1>5. CASE edge
  <2>1. p \in Agg /\ p # a
    BY <1>1, <1>5 DEF Countable
  <2>2. h = Moved(k, p, e, n)
    BY <1>1, <1>5
  <2>3. Gets(k, h, p, n, e, FALSE) /\ Tiers(h)
    BY <1>3, <2>1, <2>2, MovedIs
  <2>4. Gets(g, h, a, n, w, TRUE)
    <3>1. ASSUME NEW x \in Agg
          PROVE  /\ h[x].parent = g[x].parent /\ h[x].weight = g[x].weight
                 /\ h[x].eweight = g[x].eweight
                 /\ h[x].nActive = IF x = a \/ x = p THEN g[x].nActive + n
                                   ELSE g[x].nActive
                 /\ h[x].activeWeight = IF x = a THEN g[x].activeWeight + n * w
                                        ELSE IF x = p THEN g[x].activeWeight + n * e
                                        ELSE g[x].activeWeight
      <4>1. /\ k[x].parent = g[x].parent /\ k[x].weight = g[x].weight
            /\ k[x].eweight = g[x].eweight
            /\ k[x].nActive = IF x = a THEN g[x].nActive + n ELSE g[x].nActive
            /\ k[x].activeWeight = IF x = a THEN g[x].activeWeight + n * w
                                   ELSE g[x].activeWeight
        BY <1>3, Zenon DEF Gets
      <4>2. /\ h[x].parent = k[x].parent /\ h[x].weight = k[x].weight
            /\ h[x].eweight = k[x].eweight
            /\ h[x].nActive = IF x = p THEN k[x].nActive + n ELSE k[x].nActive
            /\ h[x].activeWeight = IF x = p THEN k[x].activeWeight + n * e
                                   ELSE k[x].activeWeight
        BY <2>3, Zenon DEF Gets
      <4>3. CASE x = p
        BY <2>1, <4>1, <4>2, <4>3, Zenon
      <4>4. CASE x # p
        BY <4>1, <4>2, <4>4, Zenon
      <4> QED BY <4>3, <4>4
    <3> QED BY <1>1, <3>1 DEF Gets
  <2> QED BY <1>5, <2>3, <2>4
<1> QED BY <1>4, <1>5

\* Scheduler s is worth k children, of weight w, of tier a and of no other more in
\* the numbers N2, W2 than in N, W.
Worth(N, W, N2, W2, s, a, k, w) ==
  /\ Numeric(N, W) /\ Numeric(N2, W2) /\ ButOne(N, N2, s) /\ ButOne(W, W2, s)
  /\ \A b \in Agg : /\ N2[b][s] - N[b][s] = IF b = a THEN k ELSE 0
                    /\ W2[b][s] - W[b][s] = IF b = a THEN k * w ELSE 0

\* The first child to come, or the last one to leave, takes the tier with it.
EdgeOf(g, a, n, edge) ==
  /\ edge \in BOOLEAN /\ n \in {1, -1}
  /\ edge <=> g[a].nActive = (IF n = 1 THEN 0 ELSE 1) /\ g[a].parent # None
  /\ n = -1 => g[a].nActive > 0

LEMMA ChildMoves ==
  ASSUME NEW g, NEW h, NEW L, NEW N, NEW W, NEW N2, NEW W2, NEW s \in Sched, NEW a,
         NEW w \in Nat, NEW n, NEW edge,
         Tally(g, L, N, W), Countable(g, L, a), EdgeOf(g, a, n, edge),
         Gets(g, h, a, n, w, edge), Worth(N, W, N2, W2, s, a, n, w)
  PROVE  Tally(h, L, N2, W2)
<1>1. PICK p, e, m : p = g[a].parent /\ e = g[a].eweight /\ m = g[a].nActive
  OBVIOUS
<1>2. /\ a \in Agg /\ a \in L /\ e \in Nat /\ m \in Nat
      /\ p # None => p \in Agg /\ p # a /\ g[p].parent = None
      /\ \A x \in Agg : g[x].nActive \in Nat /\ g[x].activeWeight \in Nat /\ g[x].eweight \in Nat
  BY <1>1 DEF Countable
<1>3. /\ edge \in BOOLEAN /\ (n = 1 \/ n = -1)
      /\ edge <=> m = (IF n = 1 THEN 0 ELSE 1) /\ p # None
      /\ n = -1 => m > 0
  BY <1>1 DEF EdgeOf
<1>4. \A x \in Agg :
        /\ h[x].parent = g[x].parent /\ h[x].eweight = g[x].eweight
        /\ h[x].nActive = IF x = a \/ (edge /\ x = p) THEN g[x].nActive + n ELSE g[x].nActive
        /\ h[x].activeWeight = IF x = a THEN g[x].activeWeight + n * w
                               ELSE IF edge /\ x = p THEN g[x].activeWeight + n * e
                               ELSE g[x].activeWeight
  BY <1>1, Zenon DEF Gets
<1>5. AllBut(g, h, L, a)
  <2>1. ASSUME NEW x \in Agg, x # a, g[x].parent # None PROVE h[x].nActive = g[x].nActive
    BY <1>2, <1>3, <1>4, <2>1
  <2> QED BY <1>2, <1>4, <2>1 DEF AllBut
<1>6. PICK dn, dw : dn = By(N, N2, s) /\ dw = By(W, W2, s)
  OBVIOUS
<1>7. \A b \in Agg : dn[b] = (IF b = a THEN n ELSE 0) /\ dw[b] = (IF b = a THEN n * w ELSE 0)
  BY <1>6 DEF By, Worth
<1>8. Shifted(g, h, L, a, dn, dw)
  <2>1. SUFFICES ASSUME NEW b \in Agg
                 PROVE  /\ h[b].nActive = g[b].nActive
                             + (dn[b] + (Kids(h, L, b)[a] - Kids(g, L, b)[a]))
                        /\ h[b].activeWeight = g[b].activeWeight
                             + (dw[b] + (KidWeights(h, L, b)[a] - KidWeights(g, L, b)[a]))
    BY DEF Shifted
  <2>2. PICK y, z, y2, z2 : /\ y = Kids(g, L, b)[a] /\ z = KidWeights(g, L, b)[a]
                            /\ y2 = Kids(h, L, b)[a] /\ z2 = KidWeights(h, L, b)[a]
    OBVIOUS
  <2>3. /\ y = IF p = b /\ m > 0 THEN 1 ELSE 0
        /\ z = IF p = b /\ m > 0 THEN e ELSE 0
        /\ y2 = IF p = b /\ m + n > 0 THEN 1 ELSE 0
        /\ z2 = IF p = b /\ m + n > 0 THEN e ELSE 0
    <3>1. h[a].nActive = m + n /\ h[a].eweight = e /\ h[a].parent = p
      BY <1>1, <1>2, <1>4
    <3> QED BY <1>1, <1>2, <2>2, <3>1, KidIs
  <2>4. b # None
    BY TreeAssumption
  <2>5. /\ y2 - y = IF edge /\ p = b THEN n ELSE 0
        /\ z2 - z = IF edge /\ p = b THEN n * e ELSE 0
    <3>1. CASE n = 1
      BY <1>2, <1>3, <2>3, <2>4, <3>1
    <3>2. CASE n = -1
      BY <1>2, <1>3, <2>3, <2>4, <3>2
    <3> QED BY <1>3, <3>1, <3>2
  <2>6. PICK i, j : i = n * w /\ j = n * e
    OBVIOUS
  <2>7. i \in Int /\ j \in Int /\ n \in Int
    <3>1. CASE n = 1
      BY <1>2, <2>6, <3>1
    <3>2. CASE n = -1
      BY <1>2, <2>6, <3>2
    <3> QED BY <1>3, <3>1, <3>2
  <2>8. edge /\ p = b => b # a
    BY <1>2, <1>3, <2>4
  <2>9. h[b].nActive = g[b].nActive + (dn[b] + (y2 - y))
    <3>1. /\ dn[b] = (IF b = a THEN n ELSE 0)
          /\ y2 - y = (IF edge /\ p = b THEN n ELSE 0)
          /\ g[b].nActive \in Nat
          /\ h[b].nActive = IF b = a \/ (edge /\ b = p) THEN g[b].nActive + n ELSE g[b].nActive
      BY <1>2, <1>4, <1>7, <2>5
    <3> QED BY <2>7, <2>8, <3>1
  <2>10. h[b].activeWeight = g[b].activeWeight + (dw[b] + (z2 - z))
    <3>1. /\ dw[b] = (IF b = a THEN i ELSE 0)
          /\ z2 - z = (IF edge /\ p = b THEN j ELSE 0)
          /\ g[b].activeWeight \in Nat
          /\ h[b].activeWeight = IF b = a THEN g[b].activeWeight + i
                                 ELSE IF edge /\ b = p THEN g[b].activeWeight + j
                                 ELSE g[b].activeWeight
      BY <1>2, <1>4, <1>7, <2>5, <2>6
    <3> QED BY <2>7, <2>8, <3>1
  <2> QED BY <2>2, <2>9, <2>10
<1> QED BY <1>2, <1>5, <1>6, <1>8, OneMoves DEF Worth

\* The same tiers, each of its weight, in the same places.
SamePlaces(g, h) ==
  \A x \in Agg : h[x].parent = g[x].parent /\ h[x].weight = g[x].weight
                 /\ h[x].eweight = g[x].eweight

\* A scheduler that hangs on no tier moves nothing.
LEMMA NowhereMoves ==
  ASSUME NEW g, NEW L, NEW N, NEW W, NEW N2, NEW W2, NEW s \in Sched, NEW w \in Nat, NEW n,
         Tally(g, L, N, W), Worth(N, W, N2, W2, s, None, n, w)
  PROVE  Tally(g, L, N2, W2)
<1>1. Alike(g, g, L, L)
  BY DEF Alike
<1>2. None \notin Agg
  BY TreeAssumption
<1>3. \A a \in Agg : \A r \in Sched : N2[a][r] = N[a][r] /\ W2[a][r] = W[a][r]
  <2>1. ASSUME NEW a \in Agg PROVE N2[a][s] = N[a][s] /\ W2[a][s] = W[a][s]
    <3>1. N2[a][s] - N[a][s] = 0 /\ W2[a][s] - W[a][s] = 0
      BY <1>2 DEF Worth
    <3>2. /\ N2[a][s] \in Int /\ N[a][s] \in Int /\ W2[a][s] \in Int /\ W[a][s] \in Int
      BY DEF Worth, Numeric
    <3>3. PICK i, j, k, l : i = N2[a][s] /\ j = N[a][s] /\ k = W2[a][s] /\ l = W[a][s]
      OBVIOUS
    <3> QED BY <3>1, <3>2, <3>3
  <2>2. \A a \in Agg : \A r \in Sched : r # s => N2[a][r] = N[a][r] /\ W2[a][r] = W[a][r]
    BY DEF Worth, ButOne
  <2> QED BY <2>1, <2>2
<1> QED BY <1>1, <1>3, NoneMoves

LEMMA WeightSubMoves ==
  ASSUME NEW g, NEW h, NEW L, NEW N, NEW W, NEW N2, NEW W2, NEW s \in Sched, NEW a,
         NEW w \in Nat, Tiers(g), Tally(g, L, N, W),
         a = None \/ (Countable(g, L, a) /\ g[a].nActive > 0),
         Worth(N, W, N2, W2, s, a, -1, w), h = WeightSub(g, a, w)
  PROVE  Tally(h, L, N2, W2) /\ Tiers(h) /\ SamePlaces(g, h)
<1>1. CASE a = None
  BY <1>1, NowhereMoves DEF WeightSub, SamePlaces
<1>2. CASE a # None
  <2>1. Countable(g, L, a) /\ g[a].nActive > 0
    BY <1>2
  <2>2. PICK n, edge : n = -1 /\ edge = (g[a].nActive = 1 /\ g[a].parent # None)
    OBVIOUS
  <2>3. n # 1
    BY <2>2
  <2>4. EdgeOf(g, a, n, edge)
    BY <2>1, <2>2, <2>3 DEF EdgeOf
  <2>5. h = IF edge THEN Moved(Moved(g, a, w, n), g[a].parent, g[a].eweight, n)
            ELSE Moved(g, a, w, n)
    BY <1>2, <2>2 DEF WeightSub
  <2>6. Gets(g, h, a, n, w, edge) /\ Tiers(h)
    BY <2>1, <2>2, <2>5, MovedTwice
  <2>7. Worth(N, W, N2, W2, s, a, n, w)
    BY <2>2
  <2>8. Tally(h, L, N2, W2)
    BY <2>1, <2>4, <2>6, <2>7, ChildMoves
  <2> QED BY <2>6, <2>8 DEF Gets, SamePlaces
<1> QED BY <1>1, <1>2

LEMMA WeightAddMoves ==
  ASSUME NEW g, NEW h, NEW L, NEW N, NEW W, NEW N2, NEW W2, NEW s \in Sched, NEW a,
         NEW w \in Nat, Tiers(g), Tally(g, L, N, W), a = None \/ Countable(g, L, a),
         Worth(N, W, N2, W2, s, a, 1, w), h = WeightAdd(g, a, w)
  PROVE  Tally(h, L, N2, W2) /\ Tiers(h) /\ SamePlaces(g, h)
<1>1. CASE a = None
  BY <1>1, NowhereMoves DEF WeightAdd, SamePlaces
<1>2. CASE a # None
  <2>1. Countable(g, L, a)
    BY <1>2
  <2>2. PICK n, edge : n = 1 /\ edge = (g[a].nActive = 0 /\ g[a].parent # None)
    OBVIOUS
  <2>3. EdgeOf(g, a, n, edge)
    <3>1. n # -1 /\ edge \in BOOLEAN
      BY <2>2
    <3> QED BY <2>1, <2>2, <3>1 DEF EdgeOf
  <2>4. h = IF edge THEN Moved(Moved(g, a, w, n), g[a].parent, g[a].eweight, n)
            ELSE Moved(g, a, w, n)
    BY <1>2, <2>2 DEF WeightAdd
  <2>5. Gets(g, h, a, n, w, edge) /\ Tiers(h)
    BY <2>1, <2>2, <2>4, MovedTwice
  <2>6. Worth(N, W, N2, W2, s, a, n, w)
    BY <2>2
  <2>7. Tally(h, L, N2, W2)
    BY <2>1, <2>3, <2>5, <2>6, ChildMoves
  <2> QED BY <2>5, <2>7 DEF Gets, SamePlaces
<1> QED BY <1>1, <1>2

\* A scheduler f[s] that is active and hangs on a, of weight w; and h the same
\* schedulers but for s, which counts nowhere.
LEMMA RestWorth ==
  ASSUME NEW f, NEW h, NEW s \in Sched, NEW a, NEW w \in Nat,
         \A r \in Sched : f[r].eweight \in Nat /\ h[r].eweight \in Nat,
         \A r \in Sched \ {s} : h[r] = f[r],
         f[s].active, f[s].attach = a, f[s].eweight = w, ~h[s].active
  PROVE  /\ Worth(RestNums(f), RestWts(f), RestNums(h), RestWts(h), s, a, -1, w)
         /\ Worth(RestNums(h), RestWts(h), RestNums(f), RestWts(f), s, a, 1, w)
<1>1. PICK N, W, N2, W2 : /\ N = RestNums(f) /\ W = RestWts(f)
                          /\ N2 = RestNums(h) /\ W2 = RestWts(h)
  OBVIOUS
<1>2. ASSUME NEW b \in Agg, NEW r \in Sched
      PROVE  /\ N[b][r] = IF f[r].attach = b /\ f[r].active THEN 1 ELSE 0
             /\ W[b][r] = IF f[r].attach = b /\ f[r].active THEN f[r].eweight ELSE 0
             /\ N2[b][r] = IF h[r].attach = b /\ h[r].active THEN 1 ELSE 0
             /\ W2[b][r] = IF h[r].attach = b /\ h[r].active THEN h[r].eweight ELSE 0
  BY <1>1, RestIs
<1>3. Numeric(N, W) /\ Numeric(N2, W2)
  BY <1>2 DEF Numeric
<1>4. ButOne(N, N2, s) /\ ButOne(W, W2, s) /\ ButOne(N2, N, s) /\ ButOne(W2, W, s)
  BY <1>2 DEF ButOne
<1>5. ASSUME NEW b \in Agg
      PROVE  /\ N[b][s] = (IF b = a THEN 1 ELSE 0) /\ W[b][s] = (IF b = a THEN w ELSE 0)
             /\ N2[b][s] = 0 /\ W2[b][s] = 0
  BY <1>2
<1>6. \A b \in Agg : /\ N2[b][s] - N[b][s] = IF b = a THEN -1 ELSE 0
                     /\ W2[b][s] - W[b][s] = IF b = a THEN (-1) * w ELSE 0
  BY <1>5
<1>7. \A b \in Agg : /\ N[b][s] - N2[b][s] = IF b = a THEN 1 ELSE 0
                     /\ W[b][s] - W2[b][s] = IF b = a THEN 1 * w ELSE 0
  BY <1>5
<1> QED BY <1>1, <1>3, <1>4, <1>6, <1>7 DEF Worth

\* A tier of the tree counts whole numbers, whatever a step has made of them.
LEMMA TreeCounts ==
  ASSUME TreeInv, WeightInv, NEW a \in live, NEW g, NEW f, Tiers(g), SamePlaces(agg, g),
         Tally(g, live, RestNums(f), RestWts(f)), \A r \in Sched : f[r].eweight \in Nat
  PROVE  /\ Countable(g, live, a)
         /\ \A r \in Sched : f[r].active /\ f[r].attach = a => g[a].nActive > 0
<1>1. PICK N, W : N = RestNums(f) /\ W = RestWts(f)
  OBVIOUS
<1>2. \A b \in Agg : \A r \in Sched :
        /\ N[b][r] = (IF f[r].attach = b /\ f[r].active THEN 1 ELSE 0)
        /\ N[b][r] \in Nat /\ W[b][r] \in Nat
  BY <1>1, RestIs
<1>3. \A x \in Agg : g[x].eweight \in Nat
  BY DEF SamePlaces, WeightInv, Weighted
<1>4. \A b \in Agg : /\ g[b].nActive \in Nat /\ g[b].activeWeight \in Nat
                     /\ \A r \in Sched : g[b].nActive >= N[b][r]
  BY <1>1, <1>2, <1>3, TallyNat
<1>5. a \in Agg /\ live \subseteq Agg
  BY ControlFacts
<1>6. agg[a].parent # None =>
        agg[a].parent \in live /\ agg[agg[a].parent].parent = None
  <2>1. CASE a = ctl.gone
    BY <1>5, <2>1, ControlFacts DEF Goner, Kept
  <2>2. CASE a # ctl.gone
    BY <2>2, ControlFacts DEF Svlans, Svlan, Kept
  <2> QED BY <2>1, <2>2
<1>7. g[a].parent # None => /\ g[a].parent \in Agg /\ g[a].parent # a
                            /\ g[g[a].parent].parent = None
  BY <1>5, <1>6 DEF SamePlaces
<1>8. ASSUME NEW r \in Sched, f[r].active, f[r].attach = a PROVE g[a].nActive > 0
  <2>1. N[a][r] = 1 /\ g[a].nActive >= N[a][r] /\ g[a].nActive \in Nat
    BY <1>2, <1>4, <1>5, <1>8
  <2> QED BY <2>1
<1> QED BY <1>3, <1>4, <1>5, <1>7, <1>8 DEF Countable

\* Tables that differ in the charges alone tally alike.
LEMMA ChargeApart ==
  ASSUME NEW g, NEW h, NEW L, NEW N, NEW W, Tally(g, L, N, W), SameWeights(g, h)
  PROVE  Tally(h, L, N, W) /\ SamePlaces(g, h)
<1>1. Alike(g, h, L, L) /\ SamePlaces(g, h)
  BY DEF Alike, SameWeights, SamePlaces
<1> QED BY <1>1, NoneMoves

ChargesMoved(g, h) ==
  \A a \in Agg : h[a] = g[a] \/ \E v : h[a] = [g[a] EXCEPT !.usage = v]

LEMMA ChargesAlone ==
  ASSUME NEW g, Tiers(g), NEW h, ChargesMoved(g, h)
  PROVE  SameWeights(g, h)
<1>1. ASSUME NEW a \in Agg
      PROVE  /\ h[a].parent = g[a].parent /\ h[a].weight = g[a].weight
             /\ h[a].eweight = g[a].eweight /\ h[a].nActive = g[a].nActive
             /\ h[a].activeWeight = g[a].activeWeight
  <2>1. PICK t : t = g[a]
    OBVIOUS
  <2>2. Tier(t)
    BY <2>1 DEF Tiers
  <2>3. h[a] = t \/ \E v : h[a] = [t EXCEPT !.usage = v]
    BY <2>1 DEF ChargesMoved
  <2>4. ASSUME NEW v, h[a] = [t EXCEPT !.usage = v]
        PROVE  /\ h[a].parent = t.parent /\ h[a].weight = t.weight
               /\ h[a].eweight = t.eweight /\ h[a].nActive = t.nActive
               /\ h[a].activeWeight = t.activeWeight
    BY <2>2, <2>4 DEF Tier, TierFields
  <2> QED BY <2>1, <2>3, <2>4
<1> QED BY <1>1 DEF SameWeights

LEMMA DisableTallies ==
  ASSUME TreeInv, WeightInv, NEW s \in Sched, Disable(s)
  PROVE  WeightInv'
<1>1. MainFree /\ live' = live /\ job' = job /\ sched' = [sched EXCEPT ![s] = Disabled]
  BY DEF Disable
<1>2. Quiet
  BY <1>1, ControlFacts
<1>3. PICK own, n, e : own = sched[s].attach /\ n = Queued(s) /\ e = sched[s].eweight
  OBVIOUS
<1>4. PICK drained : drained = [a \in Agg |->
        IF a \in ChainOf(own) THEN [agg[a] EXCEPT !.usage = @ - n] ELSE agg[a]]
  OBVIOUS
<1>5. agg' = IF sched[s].active THEN WeightSub(drained, own, e) ELSE drained
  BY <1>3, <1>4, Zenon DEF Disable
<1>6. /\ Tiers(agg) /\ e \in Nat /\ own \in Agg \cup {None} /\ (own # None => own \in live)
      /\ \A r \in Sched : sched[r].eweight \in Nat
  BY <1>3, ControlFacts DEF Scheds, Attached
<1>7. Tiers(drained) /\ SameWeights(agg, drained)
  <2>1. \A a \in Agg : drained[a] = agg[a] \/ \E v : drained[a] = [agg[a] EXCEPT !.usage = v]
    BY <1>4
  <2>2. drained = [a \in Agg |-> drained[a]]
    BY <1>4
  <2>3. \A a \in Agg : Tier(drained[a])
    <3>1. ASSUME NEW a \in Agg PROVE Tier(drained[a])
      <4>1. Tier(agg[a])
        BY <1>6 DEF Tiers
      <4>2. drained[a] = agg[a] \/ \E v : drained[a] = [agg[a] EXCEPT !.usage = v]
        BY <2>1
      <4> QED BY <4>1, <4>2, TierTouched, Zenon
    <3> QED BY <3>1
  <2>4. SameWeights(agg, drained)
    <3>1. ChargesMoved(agg, drained)
      BY <2>1 DEF ChargesMoved
    <3> QED BY <1>6, <3>1, ChargesAlone
  <2> QED BY <2>2, <2>3, <2>4 DEF Tiers
<1>8. \A r \in Sched : sched'[r] = IF r = s THEN Disabled ELSE sched[r]
  BY <1>1, ControlFacts DEF Scheds
<1>9. ~Disabled.active /\ Disabled.eweight = 0
  BY DEF Disabled
<1>10. CASE ~sched[s].active
  <2>1. Alike(agg, agg', live, live') /\ Weighted'
    BY <1>1, <1>5, <1>7, <1>10 DEF Alike, SameWeights, Weighted, WeightInv
  <2> QED BY <1>1, <1>2, <1>8, <1>9, <1>10, <2>1, UnseenTallies
<1>11. CASE sched[s].active
  <2>1. PICK f, k, h : f = sched /\ k = sched' /\ h = agg'
    OBVIOUS
  <2>2. Tally(agg, live, RestNums(f), RestWts(f))
    BY <1>2, <2>1, QuietTallied DEF WeightInv
  <2>3. Tally(drained, live, RestNums(f), RestWts(f)) /\ SamePlaces(agg, drained)
    BY <1>7, <2>2, ChargeApart
  <2>4. own = None \/ (Countable(drained, live, own) /\ drained[own].nActive > 0)
    BY <1>3, <1>6, <1>7, <1>11, <2>1, <2>3, TreeCounts
  <2>5. Worth(RestNums(f), RestWts(f), RestNums(k), RestWts(k), s, own, -1, e)
    <3>1. /\ \A r \in Sched : f[r].eweight \in Nat /\ k[r].eweight \in Nat
          /\ \A r \in Sched \ {s} : k[r] = f[r]
      BY <1>6, <1>8, <1>9, <2>1
    <3>2. f[s].active /\ f[s].attach = own /\ f[s].eweight = e /\ ~k[s].active
      BY <1>3, <1>8, <1>9, <1>11, <2>1
    <3> QED BY <1>6, <3>1, <3>2, RestWorth
  <2>6. h = WeightSub(drained, own, e)
    BY <1>5, <1>11, <2>1
  <2>7. Tally(h, live, RestNums(k), RestWts(k)) /\ SamePlaces(drained, h)
    BY <1>6, <1>7, <2>3, <2>4, <2>5, <2>6, WeightSubMoves
  <2>8. Weighted'
    BY <2>1, <2>3, <2>7 DEF SamePlaces, Weighted, WeightInv
  <2> QED BY <1>1, <1>2, <2>1, <2>7, <2>8, QuietWeights
<1> QED BY <1>10, <1>11

LEMMA ReparentOneTallies ==
  ASSUME TreeInv, WeightInv, NEW s \in Sched, ReparentOne(s)
  PROVE  WeightInv'
<1>1. s \in ctl.todo /\ live' = live /\ job' = job
  BY DEF ReparentOne
<1>2. Quiet
  BY <1>1, ControlFacts
<1>3. PICK old, new, e : /\ old = sched[s].attach /\ new = Resolve(s, aggOf, agg)
                         /\ e = sched[s].eweight
  OBVIOUS
<1>4. /\ Tiers(agg) /\ e \in Nat /\ new \in Agg \cup {None} /\ old \in Agg \cup {None}
      /\ (old # None => old \in live) /\ (new # None => new \in live)
      /\ \A r \in Sched : sched[r].eweight \in Nat
  <2>1. new \in Kept \cup {None}
    BY <1>3, ResolveKept, ControlFacts
  <2> QED BY <1>3, <2>1, ControlFacts DEF Scheds, Attached, Kept
<1>5. PICK moved : moved = IF sched[s].active
                           THEN WeightAdd(WeightSub(agg, old, e), new, e) ELSE agg
  OBVIOUS
<1>6. agg' = IF new = old THEN agg ELSE Recharge(moved, s, old, new)
  BY <1>3, <1>5, Zenon DEF ReparentOne
<1>7. /\ \A r \in Sched \ {s} : sched'[r] = sched[r]
      /\ sched'[s].attach = new /\ sched'[s].eweight = e
      /\ sched'[s].active = sched[s].active
  <2>1. sched' = [sched EXCEPT ![s].attach = new]
    BY <1>3, Zenon DEF ReparentOne
  <2> QED BY <1>3, <2>1, ControlFacts DEF Scheds
<1>8. PICK h : h = agg'
  OBVIOUS
<1>9. new # old => ChargesMoved(moved, h)
  <2>1. ASSUME new # old, NEW a \in Agg
        PROVE  h[a] = moved[a] \/ \E v : h[a] = [moved[a] EXCEPT !.usage = v]
    BY <1>6, <1>8, <2>1 DEF Recharge
  <2> QED BY <2>1 DEF ChargesMoved
<1>10. CASE new = old
  <2>1. Alike(agg, agg', live, live') /\ Weighted'
    BY <1>1, <1>6, <1>10 DEF Alike, Weighted, WeightInv
  <2>2. \A r \in Sched : /\ sched'[r].active = sched[r].active
                         /\ sched'[r].attach = sched[r].attach
                         /\ sched'[r].eweight = sched[r].eweight
    BY <1>3, <1>7, <1>10
  <2> QED BY <1>1, <1>2, <2>1, <2>2, UnseenTallies
<1>11. CASE new # old /\ ~sched[s].active
  <2>1. SameWeights(agg, h)
    BY <1>4, <1>5, <1>9, <1>11, ChargesAlone
  <2>2. Alike(agg, agg', live, live') /\ Weighted'
    BY <1>1, <1>8, <2>1 DEF Alike, SameWeights, Weighted, WeightInv
  <2> QED BY <1>1, <1>2, <1>7, <1>11, <2>2, UnseenTallies
<1>12. CASE new # old /\ sched[s].active
  <2>1. PICK f, k, m : f = sched /\ k = sched' /\ m = [sched EXCEPT ![s] = Disabled]
    OBVIOUS
  <2>2. /\ \A r \in Sched \ {s} : m[r] = f[r] /\ m[r] = k[r]
        /\ ~m[s].active /\ \A r \in Sched : m[r].eweight \in Nat
    <3>1. m = [r \in Sched |-> IF r = s THEN Disabled ELSE sched[r]]
      BY <2>1, ControlFacts DEF Scheds
    <3>2. ~Disabled.active /\ Disabled.eweight \in Nat
      BY DEF Disabled
    <3> QED BY <1>4, <1>7, <2>1, <3>1, <3>2
  <2>3. \A r \in Sched : f[r].eweight \in Nat /\ k[r].eweight \in Nat
    BY <1>4, <1>7, <2>1
  <2>4. Tally(agg, live, RestNums(f), RestWts(f)) /\ SamePlaces(agg, agg)
    BY <1>2, <2>1, QuietTallied DEF WeightInv, SamePlaces
  <2>5. PICK g : g = WeightSub(agg, old, e)
    OBVIOUS
  <2>6. old = None \/ (Countable(agg, live, old) /\ agg[old].nActive > 0)
    BY <1>3, <1>4, <1>12, <2>1, <2>3, <2>4, TreeCounts
  <2>7. Worth(RestNums(f), RestWts(f), RestNums(m), RestWts(m), s, old, -1, e)
    <3>1. f[s].active /\ f[s].attach = old /\ f[s].eweight = e
      BY <1>3, <1>12, <2>1
    <3>2. \A r \in Sched \ {s} : m[r] = f[r]
      BY <2>2
    <3> QED BY <1>4, <2>2, <2>3, <3>1, <3>2, RestWorth
  <2>8. Tally(g, live, RestNums(m), RestWts(m)) /\ Tiers(g) /\ SamePlaces(agg, g)
    BY <1>4, <2>4, <2>5, <2>6, <2>7, WeightSubMoves
  <2>9. new = None \/ Countable(g, live, new)
    BY <1>4, <2>2, <2>8, TreeCounts
  <2>10. Worth(RestNums(m), RestWts(m), RestNums(k), RestWts(k), s, new, 1, e)
    <3>1. k[s].active /\ k[s].attach = new /\ k[s].eweight = e
      BY <1>7, <1>12, <2>1
    <3>2. \A r \in Sched \ {s} : m[r] = k[r]
      BY <2>2
    <3> QED BY <1>4, <2>2, <2>3, <3>1, <3>2, RestWorth
  <2>11. moved = WeightAdd(g, new, e)
    BY <1>5, <1>12, <2>5
  <2>12. /\ Tally(moved, live, RestNums(k), RestWts(k)) /\ Tiers(moved)
         /\ SamePlaces(g, moved)
    BY <1>4, <2>8, <2>9, <2>10, <2>11, WeightAddMoves
  <2>13. SameWeights(moved, h)
    BY <1>9, <1>12, <2>12, ChargesAlone
  <2>14. Tally(h, live, RestNums(k), RestWts(k)) /\ SamePlaces(moved, h)
    BY <2>12, <2>13, ChargeApart
  <2>15. Weighted'
    BY <1>8, <2>8, <2>12, <2>14 DEF SamePlaces, Weighted, WeightInv
  <2> QED BY <1>1, <1>2, <1>8, <2>1, <2>14, <2>15, QuietWeights
<1> QED BY <1>10, <1>11, <1>12

\* An update changes the weight of tier a, and what its parent weighs of it.
Reweighed(a, h, ew) ==
  /\ a \in live /\ ew \in Nat
  /\ \A b \in Agg : /\ h[b].parent = agg[b].parent /\ h[b].nActive = agg[b].nActive
                    /\ h[b].eweight = IF b = a THEN ew ELSE agg[b].eweight
                    /\ h[b].weight \in Nat
                    /\ h[b].activeWeight =
                         IF b # a /\ b = agg[a].parent /\ CountedAbove(a)
                         THEN agg[b].activeWeight + ew - agg[a].eweight
                         ELSE agg[b].activeWeight

LEMMA ReweighedTallies ==
  ASSUME TreeInv, WeightInv, Quiet, UNCHANGED <<live, sched, job>>, NEW a, NEW ew,
         Reweighed(a, agg', ew)
  PROVE  WeightInv'
<1>1. PICK g, h, f, N, W : /\ g = agg /\ h = agg' /\ f = sched
                           /\ N = RestNums(sched) /\ W = RestWts(sched)
  OBVIOUS
<1>2. Tally(g, live, N, W)
  BY <1>1, QuietTallied DEF WeightInv
<1>3. a \in live /\ ew \in Nat /\ live \subseteq Agg /\ a \in Agg
  BY ControlFacts DEF Reweighed
<1>4. Countable(g, live, a)
  <2>1. \A r \in Sched : f[r].eweight \in Nat
    BY <1>1, ControlFacts DEF Scheds
  <2>2. Tiers(g) /\ SamePlaces(agg, g) /\ Tally(g, live, RestNums(f), RestWts(f))
    BY <1>1, <1>2, ControlFacts DEF SamePlaces
  <2> QED BY <1>3, <2>1, <2>2, TreeCounts
<1>5. PICK p, e, m : p = g[a].parent /\ e = g[a].eweight /\ m = g[a].nActive
  OBVIOUS
<1>6. /\ e \in Nat /\ m \in Nat /\ p # a /\ \A x \in Agg : g[x].eweight \in Nat
      /\ \A x \in Agg : g[x].nActive \in Nat /\ g[x].activeWeight \in Nat
  BY <1>3, <1>4, <1>5, TreeAssumption DEF Countable
<1>7. \A b \in Agg : /\ h[b].parent = g[b].parent /\ h[b].nActive = g[b].nActive
                     /\ h[b].eweight = (IF b = a THEN ew ELSE g[b].eweight)
                     /\ h[b].activeWeight = IF b = p /\ m > 0 THEN g[b].activeWeight + ew - e
                                            ELSE g[b].activeWeight
  <2>1. None \notin Agg
    BY TreeAssumption
  <2>2. CountedAbove(a) <=> p # None /\ m > 0
    BY <1>1, <1>5 DEF CountedAbove
  <2> QED BY <1>1, <1>5, <1>6, <2>1, <2>2 DEF Reweighed
<1>8. AllBut(g, h, live, a)
  BY <1>3, <1>6, <1>7 DEF AllBut
<1>9. PICK z : z = [b \in Agg |-> 0]
  OBVIOUS
<1>10. Shifted(g, h, live, a, z, z)
  <2>1. SUFFICES ASSUME NEW b \in Agg
                 PROVE  /\ h[b].nActive = g[b].nActive
                             + (z[b] + (Kids(h, live, b)[a] - Kids(g, live, b)[a]))
                        /\ h[b].activeWeight = g[b].activeWeight
                             + (z[b] + (KidWeights(h, live, b)[a] - KidWeights(g, live, b)[a]))
    BY DEF Shifted
  <2>2. PICK y, v, y2, v2 : /\ y = Kids(g, live, b)[a] /\ v = KidWeights(g, live, b)[a]
                            /\ y2 = Kids(h, live, b)[a] /\ v2 = KidWeights(h, live, b)[a]
    OBVIOUS
  <2>3. /\ y = (IF p = b /\ m > 0 THEN 1 ELSE 0) /\ y2 = y
        /\ v = (IF p = b /\ m > 0 THEN e ELSE 0)
        /\ v2 = (IF p = b /\ m > 0 THEN ew ELSE 0)
    BY <1>3, <1>5, <1>7, <2>2, KidIs
  <2>4. z[b] = 0 /\ g[b].nActive \in Nat /\ g[b].activeWeight \in Nat
    BY <1>6, <1>9
  <2>5. h[b].nActive = g[b].nActive + (z[b] + (y2 - y))
    BY <1>7, <2>3, <2>4
  <2>6. h[b].activeWeight = g[b].activeWeight + (z[b] + (v2 - v))
    BY <1>3, <1>6, <1>7, <2>3, <2>4
  <2> QED BY <2>2, <2>5, <2>6
<1>11. \A b \in Agg :
         /\ SumFunctionOnSet(N[b], Sched) \in Int /\ SumFunctionOnSet(W[b], Sched) \in Int
         /\ z[b] \in Int
         /\ SumFunctionOnSet(N[b], Sched) = SumFunctionOnSet(N[b], Sched) + z[b]
         /\ SumFunctionOnSet(W[b], Sched) = SumFunctionOnSet(W[b], Sched) + z[b]
  <2>1. ASSUME NEW b \in Agg
        PROVE  SumFunctionOnSet(N[b], Sched) \in Int /\ SumFunctionOnSet(W[b], Sched) \in Int
    <3>1. PICK n, w : n = N[b] /\ w = W[b]
      OBVIOUS
    <3>2. \A r \in Sched : n[r] \in Int /\ w[r] \in Int
      <4>1. \A r \in Sched : sched[r].eweight \in Nat
        BY ControlFacts DEF Scheds
      <4> QED BY <1>1, <3>1, <4>1, RestIs
    <3> QED BY <3>1, <3>2, SumInt, TreeAssumption
  <2>2. ASSUME NEW b \in Agg
        PROVE  /\ SumFunctionOnSet(N[b], Sched) = SumFunctionOnSet(N[b], Sched) + z[b]
               /\ SumFunctionOnSet(W[b], Sched) = SumFunctionOnSet(W[b], Sched) + z[b]
    <3>1. PICK i, j : i = SumFunctionOnSet(N[b], Sched) /\ j = SumFunctionOnSet(W[b], Sched)
      OBVIOUS
    <3>2. i \in Int /\ j \in Int /\ z[b] = 0
      BY <1>9, <2>1, <3>1
    <3> QED BY <3>1, <3>2
  <2> QED BY <1>9, <2>1, <2>2
<1>12. Tally(h, live, N, W)
  BY <1>2, <1>3, <1>8, <1>10, <1>11, KidMoves
<1>13. Weighted'
  BY <1>1, <1>3, <1>6, <1>7 DEF Weighted, Reweighed
<1> QED BY <1>1, <1>12, <1>13, QuietWeights

LEMMA UpdateTallies ==
  ASSUME TreeInv, WeightInv, NEW p \in Port, NEW tag \in Tag \cup {None},
         NEW r \in Rates \cup {0}, NEW w \in Weights \cup {0}, NEW n \in Limits \cup {0},
         Update(p, tag, r, w, n)
  PROVE  WeightInv'
<1> DEFINE port == aggOf[p]
           a == IF tag = None THEN port ELSE agg[port].map[tag]
           old == agg[a]
           new == [old EXCEPT !.rate = IF r = 0 THEN @ ELSE r,
                              !.weight = IF w = 0 THEN @ ELSE w,
                              !.limit = IF n = 0 THEN @ ELSE n]
           ew == EffectiveWeight(new.rate, new.weight)
<1>1. MainFree /\ port # None /\ a # None /\ UNCHANGED <<live, sched, job>>
  BY Zenon DEF Update
<1>2. agg' = [b \in Agg |->
        IF b = a THEN [new EXCEPT !.eweight = ew]
        ELSE IF b = old.parent /\ CountedAbove(a)
          THEN [agg[b] EXCEPT !.activeWeight = @ + ew - old.eweight]
        ELSE agg[b]]
  BY Zenon DEF Update
<1>3. a \in live /\ a \in Agg
  <2>1. Kept = live /\ live \subseteq Agg
    BY <1>1, ControlFacts
  <2>2. port \in live
    BY <1>1, <2>1, ControlFacts DEF Ports
  <2>3. tag \in Tag /\ agg[port].map[tag] # None => agg[port].map[tag] \in live
    BY <2>1, <2>2, ControlFacts DEF Svlans
  <2> QED BY <1>1, <2>1, <2>2, <2>3
<1> HIDE DEF ew, new, old, a, port
<1>4. Tier(old) /\ old.weight \in Nat
  BY <1>3, ControlFacts DEF Tiers, WeightInv, Weighted, old
<1>5. PICK rate, weight : /\ rate = (IF r = 0 THEN old.rate ELSE r)
                          /\ weight = (IF w = 0 THEN old.weight ELSE w)
  OBVIOUS
<1>6. rate \in Nat /\ weight \in Nat
  <2>1. Rates \subseteq Nat /\ Weights \subseteq Nat
    BY TreeAssumption
  <2> QED BY <1>4, <1>5, <2>1 DEF Tier
<1>7. /\ new.rate = rate /\ new.weight = weight /\ new.parent = old.parent
      /\ new.nActive = old.nActive /\ new.activeWeight = old.activeWeight
      /\ new = [x \in TierFields |-> new[x]]
  BY <1>4, <1>5 DEF Tier, TierFields, new
<1>8. ew \in Nat
  BY <1>6, <1>7, EffectiveNat DEF ew
<1>9. PICK h : h = agg'
  OBVIOUS
<1>10. ASSUME NEW b \in Agg
       PROVE  /\ h[b].parent = agg[b].parent /\ h[b].nActive = agg[b].nActive
              /\ h[b].eweight = (IF b = a THEN ew ELSE agg[b].eweight)
              /\ h[b].weight \in Nat
              /\ h[b].activeWeight =
                   IF b # a /\ b = old.parent /\ CountedAbove(a)
                   THEN agg[b].activeWeight + ew - old.eweight ELSE agg[b].activeWeight
  <2>1. PICK t : t = agg[b]
    OBVIOUS
  <2>2. Tier(t) /\ t.weight \in Nat
    BY <2>1, ControlFacts DEF Tiers, WeightInv, Weighted
  <2>3. CASE b = a
    <3>1. PICK q : q = [new EXCEPT !.eweight = ew]
      OBVIOUS
    <3>2. h[b] = q /\ t = old
      BY <1>2, <1>9, <2>1, <2>3, <3>1 DEF old
    <3>3. /\ q.parent = new.parent /\ q.nActive = new.nActive /\ q.eweight = ew
          /\ q.weight = new.weight /\ q.activeWeight = new.activeWeight
      BY <1>7, <3>1 DEF TierFields
    <3> QED BY <1>6, <1>7, <2>1, <2>3, <3>2, <3>3
  <2>4. CASE b # a /\ b = old.parent /\ CountedAbove(a)
    <3>1. PICK v : v = t.activeWeight + ew - old.eweight
      OBVIOUS
    <3>2. h[b] = [t EXCEPT !.activeWeight = v]
      BY <1>2, <1>9, <2>1, <2>4, <3>1
    <3>3. /\ h[b].parent = t.parent /\ h[b].nActive = t.nActive /\ h[b].eweight = t.eweight
          /\ h[b].weight = t.weight /\ h[b].activeWeight = v
      BY <2>2, <3>2 DEF Tier, TierFields
    <3> QED BY <2>1, <2>2, <2>4, <3>1, <3>3
  <2>5. CASE b # a /\ ~(b = old.parent /\ CountedAbove(a))
    <3>1. h[b] = agg[b]
      BY <1>2, <1>9, <2>5
    <3> QED BY <2>1, <2>2, <2>5, <3>1
  <2> QED BY <2>3, <2>4, <2>5
<1>11. Reweighed(a, agg', ew)
  BY <1>3, <1>8, <1>9, <1>10 DEF Reweighed, old
<1> QED BY <1>1, <1>11, ControlFacts, ReweighedTallies

LEMMA ChangeTallies ==
  ASSUME TreeInv, WeightInv, Control
  PROVE  WeightInv'
<1>1. ASSUME \E s \in Sched, r \in Rates, w \in Weights : Enable(s, r, w) PROVE WeightInv'
  BY <1>1, EnableTallies
<1>2. ASSUME \E s \in Sched : Disable(s) \/ ReparentOne(s) PROVE WeightInv'
  BY <1>2, DisableTallies, ReparentOneTallies
<1>3. ASSUME \E p \in Port, r \in Rates, w \in Weights, n \in Limits : CreatePort(p, r, w, n)
      PROVE  WeightInv'
  BY <1>3, CreatePortTallies
<1>4. ASSUME \E p \in Port, f \in Tag, t \in Tag, r \in Rates, w \in Weights, n \in Limits :
               CreateSvlan(p, f, t, r, w, n)
      PROVE  WeightInv'
  BY <1>4, CreateSvlanTallies
<1>5. ASSUME \E p \in Port : DeletePort(p) \/ InterfaceDel(p) PROVE WeightInv'
  BY <1>5, DeleteTallies, InterfaceDelTallies
<1>6. ASSUME \E p \in Port, t \in Tag \cup {None}, r \in Rates \cup {0},
               w \in Weights \cup {0}, n \in Limits \cup {0} : Update(p, t, r, w, n)
      PROVE  WeightInv'
  BY <1>6, UpdateTallies
<1>7. (\E p \in Port, t \in Tag : DeleteSvlan(p, t)) \/ CascadeSvlan \/ CascadePort => WeightInv'
  BY DeleteTallies
<1> QED BY <1>1, <1>2, <1>3, <1>4, <1>5, <1>6, <1>7, PutAggTallies, Zenon DEF Control

LEMMA InitTallies ==
  ASSUME Init
  PROVE  WeightInv
<1>1. /\ \A s \in Sched : job[s] = Idle /\ sched[s] = Disabled
      /\ \A a \in Agg : agg[a] = FreeAgg
      /\ live = {}
  BY DEF Init
<1>2. Carriers /\ OneUp
  BY <1>1 DEF Carriers, Carrier, OneUp, JoinsUp, Idle, Joins, Leaves
<1>3. PICK q : q = FreeAgg
  OBVIOUS
<1>4. q.nActive = 0 /\ q.activeWeight = 0 /\ q.weight \in Nat /\ q.eweight \in Nat
  BY <1>3, NewAggIs DEF FreeAgg
<1>5. Weighted
  BY <1>1, <1>3, <1>4 DEF Weighted
<1>6. ASSUME NEW a \in Agg
      PROVE  /\ agg[a].nActive = SumFunctionOnSet(RestNums(sched)[a], Sched)
                                 + SumFunctionOnSet(Kids(agg, live, a), Agg)
             /\ agg[a].activeWeight = SumFunctionOnSet(RestWts(sched)[a], Sched)
                                      + SumFunctionOnSet(KidWeights(agg, live, a), Agg)
  <2>1. PICK f, v, k, w : /\ f = RestNums(sched)[a] /\ v = RestWts(sched)[a]
                          /\ k = Kids(agg, live, a) /\ w = KidWeights(agg, live, a)
    OBVIOUS
  <2>2. \A r \in Sched : f[r] = 0 /\ v[r] = 0
    BY <1>1, <2>1, RestIs DEF Disabled
  <2>3. \A c \in Agg : k[c] = 0 /\ w[c] = 0
    BY <1>1, <2>1, KidIs
  <2>4. /\ SumFunctionOnSet(f, Sched) = 0 /\ SumFunctionOnSet(v, Sched) = 0
        /\ SumFunctionOnSet(k, Agg) = 0 /\ SumFunctionOnSet(w, Agg) = 0
    BY <2>2, <2>3, SumZero, TreeAssumption
  <2> QED BY <1>1, <1>3, <1>4, <2>1, <2>4
<1>7. Tallied
  BY <1>1, <1>6, QuietTallied DEF Quiet, Tally
<1> QED BY <1>2, <1>5, <1>7 DEF WeightInv

LEMMA StepTallies ==
  ASSUME TreeInv, WeightInv, [Next]_vars
  PROVE  WeightInv'
<1>1. CASE Worker
  BY <1>1, WorkerTallies
<1>2. CASE Control
  BY <1>2, ChangeTallies
<1>3. CASE UNCHANGED vars
  <2>1. live' = live /\ agg' = agg /\ sched' = sched /\ job' = job
    BY <1>3 DEF vars
  <2>2. Carriers' /\ OneUp' /\ Weighted'
    BY <2>1 DEF WeightInv, Carriers, Carrier, ChainOf, OneUp, JoinsUp, Weighted
  <2>3. \A s \in Sched : \A a \in Agg : Numbered(s, a)' = Numbered(s, a)
                                     /\ Weighed(s, a)' = Weighed(s, a)
    BY <2>1 DEF Numbered, Weighed
  <2>4. Nums' = Nums /\ Wts' = Wts
    BY <2>3 DEF Nums, Wts, NumbersAt, WeightsAt
  <2>5. Tally(agg, live, Nums, Wts)
    BY TalliedIs DEF WeightInv
  <2>6. Tally(agg', live', Nums', Wts')
    BY <2>1, <2>4, <2>5, Zenon
  <2> QED BY <2>2, <2>6, TalliedIsNext DEF WeightInv
<1> QED BY <1>1, <1>2, <1>3 DEF Next

\* Every tier counts the active children beneath it, and their weights, up to
\* what an owner thread is just carrying upward: inductive for every atomic
\* step of a join or leave and for every operation of the control plane
\* (cake_drr_parent_join, cake_drr_parent_leave, cake_agg_weight_add,
\* cake_agg_weight_sub, cake_agg_reparent_all, cake_aggregate_update).
THEOREM WeightInvariant == Spec => [](TreeInv /\ WeightInv)
<1>1. Init => TreeInv /\ WeightInv
  BY InitTree, InitTallies
<1>2. TreeInv /\ WeightInv /\ [Next]_vars => (TreeInv /\ WeightInv)'
  BY StepTree, StepTallies
<1> QED BY <1>1, <1>2, PTL DEF Spec

\* The active weight of a tier is the sum of the effective weights of its active
\* children, and its count their number, whatever joins, leaves, updates, moves
\* and deletes have gone before; neither unsigned counter runs below zero
\* (cake_agg_weight_add, cake_agg_weight_sub, cake_drr_parent_leave).
THEOREM WeightAlwaysExact == Spec => []WeightExact
<1>1. TreeInv /\ WeightInv => WeightExact
  <2>1. SUFFICES ASSUME TreeInv, WeightInv PROVE WeightExact
    OBVIOUS
  <2>2. \A a \in Agg : agg[a].activeWeight \in Nat /\ agg[a].nActive \in Nat
    BY <2>1, CountersNat
  <2>3. live \subseteq Agg
    BY <2>1, ControlFacts
  <2>4. \A a \in live :
          /\ agg[a].nActive =
               SumFunctionOnSet(NumbersAt(a), Sched) + SumFunctionOnSet(BusyAt(a), Agg)
          /\ agg[a].activeWeight =
               SumFunctionOnSet(WeightsAt(a), Sched) + SumFunctionOnSet(BusyWeightsAt(a), Agg)
    BY <2>1, <2>3 DEF WeightInv, Tallied
  <2> QED BY <2>2, <2>4, Zenon DEF WeightExact, NumbersAt, WeightsAt, BusyAt, BusyWeightsAt
<1> QED BY <1>1, WeightInvariant, PTL
=============================================================================
