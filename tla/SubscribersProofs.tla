------------------------- MODULE SubscribersProofs -------------------------
(***************************************************************************)
(* Theorems about Subscribers, for any number of interfaces, sessions,     *)
(* tunnels, leases and clients.                                            *)
(***************************************************************************)
EXTENDS Subscribers, FiniteSetTheorems, SequenceTheorems, WellFoundedInduction, TLAPS

-----------------------------------------------------------------------------
(* The least number of a set, which is what the pools and VPP's interface  *)
(* table hand out.                                                         *)

LEMMA LessWellFounded ==
  \E R : IsWellFoundedOn(R, Nat) /\ \A a, b \in Nat : <<a, b>> \in R <=> a < b
<1>1. IsWellFoundedOn(OpToRel(<, Nat), Nat)
  BY NatLessThanWellFounded
<1>2. \A a, b \in Nat : <<a, b>> \in OpToRel(<, Nat) <=> a < b
  BY DEF OpToRel
<1> QED BY <1>1, <1>2

LEMMA MinIn ==
  ASSUME NEW S \in SUBSET Nat, S # {}
  PROVE  Min(S) \in S
<1>1. PICK R : IsWellFoundedOn(R, Nat) /\ \A a, b \in Nat : <<a, b>> \in R <=> a < b
  BY LessWellFounded
<1>2. ASSUME NEW T, T \subseteq Nat, T # {}
      PROVE  \E x \in T : \A y \in T : ~(<<y, x>> \in R)
  <2>1. IsWellFoundedOn(R, Nat)
    BY <1>1
  <2> QED BY <1>2, <2>1, WFMin, Zenon
<1>3. S \subseteq Nat
  OBVIOUS
<1>4. PICK x \in S : \A y \in S : ~(<<y, x>> \in R)
  BY <1>2, <1>3
<1>5. \A y \in S : ~(y < x)
  BY <1>1, <1>3, <1>4, Zenon
<1>6. \E z \in S : \A y \in S : z <= y
  BY <1>3, <1>5
<1> QED BY <1>6 DEF Min

LEMMA PoolGetFree ==
  ASSUME NEW pool, CanGet(pool)
  PROVE  PoolGet(pool) \in Slots /\ pool[PoolGet(pool)] = NULL
<1> DEFINE S == Slots \ Live(pool)
<1>1. S \in SUBSET Nat /\ S # {}
  BY DEF Slots, CanGet, Live
<1>2. Min(S) \in S
  BY <1>1, MinIn
<1> QED BY <1>2 DEF PoolGet, Live

\* The stack of parked interfaces without its top.
LEMMA UnparkedItems ==
  ASSUME NEW p \in Seq(Ifs), p # <<>>, \A m, n \in DOMAIN p : m # n => p[m] # p[n]
  PROVE  /\ Unparked(p) \in Seq(Ifs) /\ TakenIf(p) \in Ifs
         /\ \E n \in DOMAIN p : p[n] = TakenIf(p)
         /\ \A m, n \in DOMAIN Unparked(p) : m # n => Unparked(p)[m] # Unparked(p)[n]
         /\ \A j : (\E n \in DOMAIN Unparked(p) : Unparked(p)[n] = j)
                     <=> j # TakenIf(p) /\ \E n \in DOMAIN p : p[n] = j
<1> DEFINE l == Len(p)
<1>1. l \in Nat /\ l >= 1 /\ DOMAIN p = 1..l /\ \A i \in 1..l : p[i] \in Ifs
  BY EmptySeq, LenProperties, ElementOfSeq
<1>2. PICK u : u = Unparked(p)
  OBVIOUS
<1>3. /\ u \in Seq(Ifs) /\ DOMAIN u = 1..(l - 1)
      /\ \A i \in 1..(l - 1) : u[i] = p[i]
  BY <1>1, <1>2, SubSeqProperties DEF Unparked
<1>4. TakenIf(p) = p[l]
  BY DEF TakenIf
<1> HIDE DEF l
<1>5. \A m, n \in DOMAIN u : m # n => u[m] # u[n]
  BY <1>1, <1>3
<1>6. ASSUME NEW j
      PROVE  (\E n \in DOMAIN u : u[n] = j) <=> j # p[l] /\ \E n \in DOMAIN p : p[n] = j
  <2>1. ASSUME NEW n \in DOMAIN u, u[n] = j PROVE j # p[l] /\ \E m \in DOMAIN p : p[m] = j
    BY <1>1, <1>3, <2>1
  <2>2. ASSUME NEW n \in DOMAIN p, p[n] = j, j # p[l] PROVE \E m \in DOMAIN u : u[m] = j
    BY <1>1, <1>3, <2>2
  <2> QED BY <2>1, <2>2
<1> QED BY <1>1, <1>2, <1>3, <1>4, <1>5, <1>6

LEMMA UnparkedEmpty == Unparked(<<>>) = <<>>
  BY SubSeqProperties DEF Unparked
-----------------------------------------------------------------------------
(* The books of one plugin, over any pool, table, reverse map and stack:   *)
(* what adding, changing and deleting a session does to them.              *)

Typed(S, K, knd, pool, table, of, parked) ==
  /\ NULL \notin S /\ \A s \in S : s.key \in K /\ s.sw \in Ifs \cup {0}
  /\ knd \in [Ifs -> Plugins \cup {"none"}]
  /\ pool \in [Slots -> S \cup {NULL}] /\ table \in [K -> Slots \cup {0}]
  /\ of \in [Ifs -> Slots \cup {0}] /\ parked \in Seq(Ifs)

\* g is f with a at x.
Upd(f, g, x, a) == g = [f EXCEPT ![x] = a]

\* Key k leads to slot x, whose session has interface i, or none if i is 0.
Leads(table, pool, k, x, i) == table[k] # 0 /\ table[k] = x /\ pool[x].sw = i

\* What becomes of the interface of a deleted session: it is parked, or goes.
Retired(knd, knd2, parked, parked2, i) ==
  \/ knd2 = knd /\ parked2 = Append(parked, i)
  \/ Upd(knd, knd2, i, "none") /\ parked2 = parked

IsParked(parked, i) == \E n \in DOMAIN parked : parked[n] = i

\* Resolves, of interfaces registered as knd says.
Books(knd, src, pool, table, of, parked) ==
  /\ \A x \in Slots : pool[x] # NULL => table[pool[x].key] = x
  /\ \A k \in DOMAIN table : table[k] # 0 => pool[table[k]] # NULL /\ pool[table[k]].key = k
  /\ \A x \in Slots : pool[x] # NULL /\ pool[x].sw # 0 =>
       of[pool[x].sw] = x /\ knd[pool[x].sw] = src
  /\ \A i \in Ifs : of[i] # 0 => pool[of[i]] # NULL /\ pool[of[i]].sw = i
  /\ \A i \in Ifs : knd[i] = src /\ of[i] = 0 <=> IsParked(parked, i)
  /\ \A m, n \in DOMAIN parked : m # n => parked[m] # parked[n]

LEMMA ResolvesIsBooks ==
  ASSUME NEW S, NEW K, NEW src, NEW pool, NEW table, NEW of, NEW parked,
         Typed(S, K, kind, pool, table, of, parked)
  PROVE  Resolves(src, pool, table, of, parked) <=> Books(kind, src, pool, table, of, parked)
<1>1. /\ \A x \in Slots : pool[x] # NULL => pool[x].sw \in Ifs \cup {0}
      /\ \A i \in Ifs : of[i] # 0 => of[i] \in Slots /\ i # 0
  BY DEF Typed, Ifs, Slots
<1>2. ASSUME Resolves(src, pool, table, of, parked)
      PROVE  Books(kind, src, pool, table, of, parked)
  BY <1>1, <1>2 DEF Resolves, Books, IsParked, Live
<1>3. ASSUME Books(kind, src, pool, table, of, parked)
      PROVE  Resolves(src, pool, table, of, parked)
  BY <1>1, <1>3 DEF Resolves, Books, IsParked, Live
<1> QED BY <1>2, <1>3

\* What is done to the interfaces of other plugins leaves the books alone.
LEMMA BooksFramed ==
  ASSUME NEW knd, NEW knd2, NEW src, NEW pool, NEW table, NEW of, NEW parked,
         Books(knd, src, pool, table, of, parked),
         \A i \in Ifs : knd2[i] = src <=> knd[i] = src,
         \A x \in Slots : pool[x] # NULL => pool[x].sw \in Ifs \cup {0}
  PROVE  Books(knd2, src, pool, table, of, parked)
  BY DEF Books

\* A session is added, with the interface parked last or a new one.
LEMMA BooksAdd ==
  ASSUME NEW S, NEW K, NEW src \in Plugins,
         NEW knd, NEW pool, NEW table, NEW of, NEW parked,
         Typed(S, K, knd, pool, table, of, parked),
         Books(knd, src, pool, table, of, parked),
         NEW x \in Slots, pool[x] = NULL, NEW s \in S, table[s.key] = 0,
         s.sw \in Ifs,
         \/ parked # <<>> /\ s.sw = TakenIf(parked)
         \/ parked = <<>> /\ knd[s.sw] = "none"
  PROVE  /\ knd[s.sw] \in {src, "none"} /\ of[s.sw] = 0
         /\ Typed(S, K, [knd EXCEPT ![s.sw] = src], [pool EXCEPT ![x] = s],
                  [table EXCEPT ![s.key] = x], [of EXCEPT ![s.sw] = x], Unparked(parked))
         /\ Books([knd EXCEPT ![s.sw] = src], src, [pool EXCEPT ![x] = s],
                  [table EXCEPT ![s.key] = x], [of EXCEPT ![s.sw] = x], Unparked(parked))
<1> DEFINE i == s.sw
<1>1. /\ s.key \in K /\ s # NULL /\ 0 \notin Ifs /\ 0 \notin Slots /\ src # "none"
      /\ \A y \in Slots : pool[y] # NULL => pool[y].key \in K /\ pool[y].sw \in Ifs \cup {0}
  BY DEF Typed, Ifs, Slots, Plugins
<1>2. /\ Unparked(parked) \in Seq(Ifs)
      /\ \A m, n \in DOMAIN Unparked(parked) : m # n => Unparked(parked)[m] # Unparked(parked)[n]
      /\ \A j \in Ifs : IsParked(Unparked(parked), j) <=> j # i /\ IsParked(parked, j)
      /\ knd[i] \in {src, "none"} /\ of[i] = 0
  <2>1. CASE parked # <<>>
    <3>1. /\ parked \in Seq(Ifs) /\ i = TakenIf(parked)
          /\ \A m, n \in DOMAIN parked : m # n => parked[m] # parked[n]
      BY <2>1 DEF Typed, Books
    <3>2. IsParked(parked, i)
      BY <3>1, <2>1, UnparkedItems DEF IsParked
    <3>3. knd[i] = src /\ of[i] = 0
      BY <3>2 DEF Books
    <3>4. \A j \in Ifs : IsParked(Unparked(parked), j) <=> j # i /\ IsParked(parked, j)
      BY <3>1, <2>1, UnparkedItems DEF IsParked
    <3> HIDE DEF i
    <3> QED BY <3>1, <3>3, <3>4, <2>1, UnparkedItems
  <2>2. CASE parked = <<>>
    <3>1. knd[i] = "none" /\ DOMAIN parked = {} /\ Unparked(parked) = <<>>
      BY <2>2, UnparkedEmpty
    <3>2. of[i] = 0
      <4> SUFFICES ASSUME of[i] # 0 PROVE FALSE
        OBVIOUS
      <4>1. of[i] \in Slots /\ pool[of[i]] # NULL /\ pool[of[i]].sw = i
        BY DEF Typed, Books
      <4> QED BY <4>1, <3>1, <1>1 DEF Books
    <3>3. \A j \in Ifs : ~IsParked(Unparked(parked), j) /\ ~IsParked(parked, j)
      BY <2>2, <3>1 DEF IsParked
    <3>4. Unparked(parked) \in Seq(Ifs)
      BY <3>1, EmptySeq
    <3>5. DOMAIN Unparked(parked) = {}
      BY <3>1
    <3> HIDE DEF i
    <3> QED BY <3>1, <3>2, <3>3, <3>4, <3>5
  <2> QED BY <2>1, <2>2
<1>3. PICK k2 : k2 = [knd EXCEPT ![i] = src]
  OBVIOUS
<1>4. PICK p2 : p2 = [pool EXCEPT ![x] = s]
  OBVIOUS
<1>5. PICK t2 : t2 = [table EXCEPT ![s.key] = x]
  OBVIOUS
<1>6. PICK o2 : o2 = [of EXCEPT ![i] = x]
  OBVIOUS
<1>7. PICK q2 : q2 = Unparked(parked)
  OBVIOUS
<1>8. Typed(S, K, k2, p2, t2, o2, q2)
  BY <1>1, <1>2, <1>3, <1>4, <1>5, <1>6, <1>7 DEF Typed
<1>9. /\ k2[i] = src /\ \A j \in Ifs : j # i => k2[j] = knd[j]
      /\ p2[x] = s /\ \A y \in Slots : y # x => p2[y] = pool[y]
      /\ DOMAIN t2 = K /\ DOMAIN table = K
      /\ t2[s.key] = x /\ \A k \in K : k # s.key => t2[k] = table[k]
      /\ o2[i] = x /\ \A j \in Ifs : j # i => o2[j] = of[j]
      /\ \A k \in K : table[k] \in Slots \cup {0}
      /\ \A j \in Ifs : of[j] \in Slots \cup {0}
  BY <1>1, <1>3, <1>4, <1>5, <1>6 DEF Typed
<1> HIDE DEF i
<1>10. i \in Ifs /\ s.sw = i
  BY DEF i
<1>11. Books(k2, src, p2, t2, o2, q2)
  <2>1. \A y \in Slots : p2[y] # NULL => t2[p2[y].key] = y
    BY <1>1, <1>9 DEF Books
  <2>2. \A k \in K : t2[k] # 0 => p2[t2[k]] # NULL /\ p2[t2[k]].key = k
    BY <1>1, <1>9 DEF Books
  <2>3. \A y \in Slots : p2[y] # NULL /\ p2[y].sw # 0 =>
          o2[p2[y].sw] = y /\ k2[p2[y].sw] = src
    BY <1>1, <1>2, <1>9, <1>10 DEF Books
  <2>4. \A j \in Ifs : o2[j] # 0 => p2[o2[j]] # NULL /\ p2[o2[j]].sw = j
    BY <1>1, <1>9, <1>10 DEF Books
  <2>5. \A j \in Ifs : k2[j] = src /\ o2[j] = 0 <=> IsParked(q2, j)
    BY <1>1, <1>2, <1>7, <1>9 DEF Books
  <2> QED BY <2>1, <2>2, <2>3, <2>4, <2>5, <1>2, <1>7, <1>9 DEF Books
<1> QED BY <1>2, <1>3, <1>4, <1>5, <1>6, <1>7, <1>8, <1>11 DEF i

\* Slot x is free for session s, of key k and interface i; and i is the one
\* parked last, or new.
Vacant(pool, table, x, s, k, i) ==
  /\ x \in Slots /\ pool[x] = NULL /\ s.key = k /\ table[k] = 0 /\ s.sw = i /\ i \in Ifs
Spare(knd, parked, i) ==
  \/ parked # <<>> /\ i = TakenIf(parked)
  \/ parked = <<>> /\ knd[i] = "none"

LEMMA BooksPut ==
  ASSUME NEW S, NEW K, NEW src \in Plugins,
         NEW knd, NEW pool, NEW table, NEW of, NEW parked,
         Typed(S, K, knd, pool, table, of, parked),
         Books(knd, src, pool, table, of, parked),
         NEW x, NEW s \in S, NEW k, NEW i, Vacant(pool, table, x, s, k, i),
         Spare(knd, parked, i), NEW knd2, NEW p2, NEW t2, NEW o2,
         Upd(knd, knd2, i, src), Upd(pool, p2, x, s), Upd(table, t2, k, x), Upd(of, o2, i, x)
  PROVE  /\ knd[i] \in {src, "none"} /\ of[i] = 0
         /\ Typed(S, K, knd2, p2, t2, o2, Unparked(parked))
         /\ Books(knd2, src, p2, t2, o2, Unparked(parked))
<1>1. x \in Slots /\ pool[x] = NULL /\ table[s.key] = 0 /\ s.sw \in Ifs
  BY DEF Vacant
<1>2. k = s.key /\ i = s.sw
  BY DEF Vacant
<1>3. \/ parked # <<>> /\ s.sw = TakenIf(parked)
      \/ parked = <<>> /\ knd[s.sw] = "none"
  BY <1>2 DEF Spare
<1>4. /\ knd[s.sw] \in {src, "none"} /\ of[s.sw] = 0
      /\ Typed(S, K, [knd EXCEPT ![s.sw] = src], [pool EXCEPT ![x] = s],
               [table EXCEPT ![s.key] = x], [of EXCEPT ![s.sw] = x], Unparked(parked))
      /\ Books([knd EXCEPT ![s.sw] = src], src, [pool EXCEPT ![x] = s],
               [table EXCEPT ![s.key] = x], [of EXCEPT ![s.sw] = x], Unparked(parked))
  BY <1>1, <1>3, BooksAdd
<1> QED BY <1>2, <1>4 DEF Upd

\* A session with no interface is added.
LEMMA BooksAddRaw ==
  ASSUME NEW S, NEW K, NEW src, NEW knd, NEW pool, NEW table, NEW of, NEW parked,
         Typed(S, K, knd, pool, table, of, parked),
         Books(knd, src, pool, table, of, parked),
         NEW x \in Slots, pool[x] = NULL, NEW s \in S, table[s.key] = 0, s.sw = 0
  PROVE  /\ Typed(S, K, knd, [pool EXCEPT ![x] = s], [table EXCEPT ![s.key] = x], of, parked)
         /\ Books(knd, src, [pool EXCEPT ![x] = s], [table EXCEPT ![s.key] = x], of, parked)
<1>1. /\ s.key \in K /\ s # NULL /\ 0 \notin Ifs /\ 0 \notin Slots
      /\ \A y \in Slots : pool[y] # NULL => pool[y].key \in K /\ pool[y].sw \in Ifs \cup {0}
  BY DEF Typed, Ifs, Slots
<1>2. PICK p2 : p2 = [pool EXCEPT ![x] = s]
  OBVIOUS
<1>3. PICK t2 : t2 = [table EXCEPT ![s.key] = x]
  OBVIOUS
<1>4. /\ p2 \in [Slots -> S \cup {NULL}] /\ t2 \in [K -> Slots \cup {0}]
      /\ p2[x] = s /\ \A y \in Slots : y # x => p2[y] = pool[y]
      /\ DOMAIN t2 = K /\ DOMAIN table = K
      /\ t2[s.key] = x /\ \A k \in K : k # s.key => t2[k] = table[k]
      /\ \A k \in K : table[k] \in Slots \cup {0}
      /\ \A j \in Ifs : of[j] \in Slots \cup {0}
  BY <1>1, <1>2, <1>3 DEF Typed
<1>5. Typed(S, K, knd, p2, t2, of, parked)
  BY <1>4 DEF Typed
<1>6. Books(knd, src, p2, t2, of, parked)
  <2>1. \A y \in Slots : p2[y] # NULL => t2[p2[y].key] = y
    BY <1>1, <1>4 DEF Books
  <2>2. \A k \in K : t2[k] # 0 => p2[t2[k]] # NULL /\ p2[t2[k]].key = k
    BY <1>1, <1>4 DEF Books
  <2>3. \A y \in Slots : p2[y] # NULL /\ p2[y].sw # 0 =>
          of[p2[y].sw] = y /\ knd[p2[y].sw] = src
    BY <1>1, <1>4 DEF Books
  <2>4. \A j \in Ifs : of[j] # 0 => p2[of[j]] # NULL /\ p2[of[j]].sw = j
    BY <1>1, <1>4 DEF Books
  <2> QED BY <2>1, <2>2, <2>3, <2>4, <1>4 DEF Books
<1> QED BY <1>2, <1>3, <1>5, <1>6

\* A session changes and keeps its key and its interface.
LEMMA BooksSet ==
  ASSUME NEW S, NEW K, NEW src, NEW knd, NEW pool, NEW table, NEW of, NEW parked,
         Typed(S, K, knd, pool, table, of, parked),
         Books(knd, src, pool, table, of, parked),
         NEW x \in Slots, pool[x] # NULL, NEW s \in S,
         s.key = pool[x].key, s.sw = pool[x].sw
  PROVE  /\ Typed(S, K, knd, [pool EXCEPT ![x] = s], table, of, parked)
         /\ Books(knd, src, [pool EXCEPT ![x] = s], table, of, parked)
<1>1. PICK p2 : p2 = [pool EXCEPT ![x] = s]
  OBVIOUS
<1>2. /\ p2 \in [Slots -> S \cup {NULL}] /\ s # NULL
      /\ p2[x] = s /\ \A y \in Slots : y # x => p2[y] = pool[y]
      /\ DOMAIN table = K
      /\ \A k \in K : table[k] \in Slots \cup {0}
      /\ \A j \in Ifs : of[j] \in Slots \cup {0}
  BY <1>1 DEF Typed
<1>3. Typed(S, K, knd, p2, table, of, parked)
  BY <1>2 DEF Typed
<1>4. Books(knd, src, p2, table, of, parked)
  BY <1>2 DEF Books
<1> QED BY <1>1, <1>3, <1>4

\* A session is deleted, whether its interface is parked or goes as well.
LEMMA BooksDel ==
  ASSUME NEW S, NEW K, NEW src \in Plugins,
         NEW knd, NEW pool, NEW table, NEW of, NEW parked,
         Typed(S, K, knd, pool, table, of, parked),
         Books(knd, src, pool, table, of, parked),
         NEW k \in K, NEW x, NEW i, Leads(table, pool, k, x, i), i # 0,
         NEW knd2, NEW parked2, NEW p2, NEW t2, NEW o2,
         Retired(knd, knd2, parked, parked2, i),
         Upd(pool, p2, x, NULL), Upd(table, t2, k, 0), Upd(of, o2, i, 0)
  PROVE  /\ knd[i] = src /\ of[i] = x
         /\ Typed(S, K, knd2, p2, t2, o2, parked2)
         /\ Books(knd2, src, p2, t2, o2, parked2)
<1>1. x = table[k] /\ table[k] # 0
  BY DEF Leads
<1>2. i = pool[x].sw
  BY DEF Leads
<1>3. /\ 0 \notin Ifs /\ 0 \notin Slots /\ src # "none"
      /\ x \in Slots /\ pool[x] # NULL /\ pool[x].key = k /\ i \in Ifs
      /\ knd[i] = src /\ of[i] = x
      /\ \A y \in Slots : pool[y] # NULL => pool[y].key \in K /\ pool[y].sw \in Ifs \cup {0}
  <2>1. 0 \notin Ifs /\ 0 \notin Slots /\ src # "none"
    BY DEF Ifs, Slots, Plugins
  <2>2. x \in Slots /\ DOMAIN table = K
    BY <1>1 DEF Typed
  <2>3. pool[x] # NULL /\ pool[x].key = k
    BY <1>1, <2>2 DEF Books
  <2>4. \A y \in Slots : pool[y] # NULL => pool[y].key \in K /\ pool[y].sw \in Ifs \cup {0}
    BY DEF Typed
  <2>5. i \in Ifs
    BY <1>1, <1>2, <2>2, <2>3, <2>4
  <2> QED BY <1>1, <1>2, <2>1, <2>2, <2>3, <2>4, <2>5 DEF Books
<1>4. parked \in Seq(Ifs) /\ parked2 \in Seq(Ifs)
  <2>1. parked \in Seq(Ifs)
    BY DEF Typed
  <2>2. Append(parked, i) \in Seq(Ifs)
    BY <1>3, <2>1, AppendProperties
  <2> QED BY <2>1, <2>2 DEF Retired
<1>7. /\ p2 \in [Slots -> S \cup {NULL}] /\ t2 \in [K -> Slots \cup {0}]
      /\ o2 \in [Ifs -> Slots \cup {0}] /\ knd2 \in [Ifs -> Plugins \cup {"none"}]
      /\ p2[x] = NULL /\ \A y \in Slots : y # x => p2[y] = pool[y]
      /\ DOMAIN t2 = K /\ DOMAIN table = K
      /\ t2[k] = 0 /\ \A j \in K : j # k => t2[j] = table[j]
      /\ o2[i] = 0 /\ \A j \in Ifs : j # i => o2[j] = of[j]
      /\ \A j \in K : table[j] \in Slots \cup {0}
      /\ \A j \in Ifs : of[j] \in Slots \cup {0}
      /\ \A j \in Ifs : j # i => knd2[j] = knd[j]
  BY <1>3 DEF Typed, Upd, Retired
<1>8. /\ \A j \in Ifs : knd2[j] = src /\ o2[j] = 0 <=> IsParked(parked2, j)
      /\ \A m, n \in DOMAIN parked2 : m # n => parked2[m] # parked2[n]
  <2>0. /\ ~IsParked(parked, i) /\ parked \in Seq(Ifs)
        /\ \A m, n \in DOMAIN parked : m # n => parked[m] # parked[n]
        /\ \A j \in Ifs : knd[j] = src /\ of[j] = 0 <=> IsParked(parked, j)
    BY <1>3 DEF Books, Typed
  <2>1. CASE knd2 = knd /\ parked2 = Append(parked, i)
    <3>1. /\ Len(parked) \in Nat /\ DOMAIN parked = 1..Len(parked)
          /\ DOMAIN parked2 = 1..(Len(parked) + 1) /\ parked2[Len(parked) + 1] = i
          /\ \A n \in 1..Len(parked) : parked2[n] = parked[n]
      BY <1>3, <2>0, <2>1, AppendProperties, LenProperties
    <3>2. \A j \in Ifs : IsParked(parked2, j) <=> j = i \/ IsParked(parked, j)
      <4> TAKE j \in Ifs
      <4>1. ASSUME IsParked(parked2, j), j # i PROVE IsParked(parked, j)
        BY <3>1, <4>1 DEF IsParked
      <4>2. ASSUME IsParked(parked, j) PROVE IsParked(parked2, j)
        BY <3>1, <4>2 DEF IsParked
      <4>3. IsParked(parked2, i)
        BY <3>1 DEF IsParked
      <4> QED BY <4>1, <4>2, <4>3
    <3>3. \A m, n \in DOMAIN parked2 : m # n => parked2[m] # parked2[n]
      BY <2>0, <3>1 DEF IsParked
    <3>4. \A j \in Ifs : knd2[j] = src /\ o2[j] = 0 <=> j = i \/ (knd[j] = src /\ of[j] = 0)
      BY <1>3, <1>7, <2>1
    <3> QED BY <2>0, <3>2, <3>3, <3>4
  <2>2. CASE Upd(knd, knd2, i, "none") /\ parked2 = parked
    <3>1. knd2[i] = "none"
      BY <1>3, <2>2 DEF Typed, Upd
    <3> QED BY <1>3, <1>7, <2>0, <2>2, <3>1
  <2> QED BY <2>1, <2>2 DEF Retired
<1>9. Typed(S, K, knd2, p2, t2, o2, parked2)
  BY <1>4, <1>7 DEF Typed
<1>10. Books(knd2, src, p2, t2, o2, parked2)
  <2>1. \A y \in Slots : p2[y] # NULL => t2[p2[y].key] = y
    BY <1>1, <1>3, <1>7 DEF Books
  <2>2. \A j \in K : t2[j] # 0 => p2[t2[j]] # NULL /\ p2[t2[j]].key = j
    BY <1>3, <1>7 DEF Books
  <2>3. \A y \in Slots : p2[y] # NULL /\ p2[y].sw # 0 =>
          o2[p2[y].sw] = y /\ knd2[p2[y].sw] = src
    BY <1>2, <1>3, <1>7 DEF Books
  <2>4. \A j \in Ifs : o2[j] # 0 => p2[o2[j]] # NULL /\ p2[o2[j]].sw = j
    BY <1>2, <1>3, <1>7 DEF Books
  <2> QED BY <2>1, <2>2, <2>3, <2>4, <1>7, <1>8 DEF Books
<1> QED BY <1>3, <1>9, <1>10

LEMMA BooksDelRaw ==
  ASSUME NEW S, NEW K, NEW src, NEW knd, NEW pool, NEW table, NEW of, NEW parked,
         Typed(S, K, knd, pool, table, of, parked),
         Books(knd, src, pool, table, of, parked),
         NEW k \in K, NEW x, Leads(table, pool, k, x, 0),
         NEW p2, Upd(pool, p2, x, NULL), NEW t2, Upd(table, t2, k, 0)
  PROVE  /\ Typed(S, K, knd, p2, t2, of, parked)
         /\ Books(knd, src, p2, t2, of, parked)
<1>1. x = table[k] /\ table[k] # 0 /\ pool[x].sw = 0
  BY DEF Leads
<1>2. /\ 0 \notin Ifs /\ 0 \notin Slots /\ x \in Slots /\ DOMAIN table = K
      /\ \A y \in Slots : pool[y] # NULL => pool[y].key \in K /\ pool[y].sw \in Ifs \cup {0}
  BY <1>1 DEF Typed, Ifs, Slots
<1>3. pool[x] # NULL /\ pool[x].key = k /\ pool[x].sw = 0
  BY <1>1, <1>2 DEF Books
<1>6. /\ p2 \in [Slots -> S \cup {NULL}] /\ t2 \in [K -> Slots \cup {0}]
      /\ p2[x] = NULL /\ \A y \in Slots : y # x => p2[y] = pool[y]
      /\ DOMAIN t2 = K
      /\ t2[k] = 0 /\ \A j \in K : j # k => t2[j] = table[j]
      /\ \A j \in K : table[j] \in Slots \cup {0}
      /\ \A j \in Ifs : of[j] \in Slots \cup {0}
  BY <1>2 DEF Typed, Upd
<1>7. Typed(S, K, knd, p2, t2, of, parked)
  BY <1>6 DEF Typed
<1>8. Books(knd, src, p2, t2, of, parked)
  <2>1. \A y \in Slots : p2[y] # NULL => t2[p2[y].key] = y
    BY <1>1, <1>2, <1>3, <1>6 DEF Books
  <2>2. \A j \in K : t2[j] # 0 => p2[t2[j]] # NULL /\ p2[t2[j]].key = j
    BY <1>2, <1>3, <1>6 DEF Books
  <2>3. \A y \in Slots : p2[y] # NULL /\ p2[y].sw # 0 =>
          of[p2[y].sw] = y /\ knd[p2[y].sw] = src
    BY <1>2, <1>3, <1>6 DEF Books
  <2>4. \A j \in Ifs : of[j] # 0 => p2[of[j]] # NULL /\ p2[of[j]].sw = j
    BY <1>2, <1>3, <1>6 DEF Books
  <2> QED BY <2>1, <2>2, <2>3, <2>4, <1>6 DEF Books
<1> QED BY <1>7, <1>8
-----------------------------------------------------------------------------
(* The FIB paths of one plugin's sessions.                                 *)

\* r is the path of a lease of session s, and of some session of a pool.
Leased(src, s, r) == \E k \in Kinds : s.lease[k] # NULL /\ r = Path(src, s, k, s.lease[k])
Owned(src, pool, r) == \E x \in Slots : pool[x] # NULL /\ Leased(src, pool[x], r)

\* The paths rts of a plugin are backed by its pool: those of its leases are
\* there, and with a careful client no other.
Backed(rts, crf, src, pool) ==
  /\ \A r : Owned(src, pool, r) => r \in rts
  /\ crf => \A r \in rts : r.src = src => Owned(src, pool, r)

\* Only a session with an interface has leases, and no two have the same.
LeaseIfs(pool) ==
  /\ \A x \in Slots : pool[x] # NULL /\ pool[x].sw = 0 => \A k \in Kinds : pool[x].lease[k] = NULL
  /\ \A x, y \in Slots : pool[x] # NULL /\ pool[y] # NULL /\ x # y =>
       pool[x].sw = 0 \/ pool[x].sw # pool[y].sw

LEMMA PathFields ==
  ASSUME NEW src, NEW s, NEW k, NEW p
  PROVE  LET r == Path(src, s, k, p)
         IN r.src = src /\ r.vrf = s.vrf /\ r.kind = k /\ r.prefix = p /\ r.via = s.sw
  BY DEF Path

LEMMA LeasedFields ==
  ASSUME NEW src, NEW s, NEW r, Leased(src, s, r)
  PROVE  r.src = src /\ r.via = s.sw /\ r.kind \in Kinds /\ s.lease[r.kind] = r.prefix
         /\ r.prefix # NULL /\ r = Path(src, s, r.kind, r.prefix)
<1>1. PICK k \in Kinds : s.lease[k] # NULL /\ r = Path(src, s, k, s.lease[k])
  BY DEF Leased
<1>2. r.src = src /\ r.kind = k /\ r.prefix = s.lease[k] /\ r.via = s.sw
  BY <1>1, PathFields
<1> QED BY <1>1, <1>2

LEMMA InPathsOf ==
  ASSUME NEW src, NEW s, NEW r
  PROVE  r \in PathsOf(src, s) <=> Leased(src, s, r)
  BY DEF PathsOf, Leased

LEMMA BackedFramed ==
  ASSUME NEW rts, NEW rts2, NEW crf, NEW src, NEW pool,
         Backed(rts, crf, src, pool),
         \A r : r.src = src => (r \in rts <=> r \in rts2)
  PROVE  Backed(rts2, crf, src, pool)
<1>1. \A r : Owned(src, pool, r) => r.src = src
  BY LeasedFields DEF Owned
<1> QED BY <1>1 DEF Backed

LEMMA BackedAdd ==
  ASSUME NEW rts, NEW rts2, NEW crf, NEW src, NEW pool, NEW x \in Slots, NEW s,
         DOMAIN pool = Slots, pool[x] = NULL, s # NULL,
         Backed(rts, crf, src, pool),
         \A r : r \in rts2 <=> r \in rts \/ Leased(src, s, r)
  PROVE  Backed(rts2, crf, src, [pool EXCEPT ![x] = s])
<1>1. PICK p2 : p2 = [pool EXCEPT ![x] = s]
  OBVIOUS
<1>2. p2[x] = s /\ \A y \in Slots : y # x => p2[y] = pool[y]
  BY <1>1
<1>3. \A r : Owned(src, p2, r) <=> Owned(src, pool, r) \/ Leased(src, s, r)
  BY <1>2 DEF Owned
<1>4. Backed(rts2, crf, src, p2)
  BY <1>3 DEF Backed
<1> QED BY <1>1, <1>4

\* Session s is like t, with lease q of kind k.
Released(s, t, k, q) ==
  /\ s # NULL /\ s.vrf = t.vrf /\ s.sw = t.sw /\ s.sw # 0 /\ s.lease[k] = q
  /\ \A j \in Kinds : j # k => s.lease[j] = t.lease[j]

\* The paths rts2 are rts without the path of old and with that of q.
Rerouted(rts, rts2, src, s, k, old, q) ==
  \A r : r \in rts2 <=> \/ r \in rts /\ r # Path(src, s, k, old)
                        \/ q # NULL /\ r = Path(src, s, k, q)

\* The lease of kind k of a session becomes q: path old goes, if it is the
\* old lease's or the client is not careful, and the new lease's comes.
LEMMA BackedLease ==
  ASSUME NEW rts, NEW rts2, NEW crf, NEW src, NEW pool, NEW x \in Slots, NEW s,
         NEW k \in Kinds, NEW old, NEW q,
         DOMAIN pool = Slots, pool[x] # NULL, LeaseIfs(pool),
         Released(s, pool[x], k, q), crf => old = pool[x].lease[k],
         Backed(rts, crf, src, pool), Rerouted(rts, rts2, src, pool[x], k, old, q),
         NEW p2, Upd(pool, p2, x, s)
  PROVE  Backed(rts2, crf, src, p2)
<1> USE DEF Released
<1>0. \A r : r \in rts2 <=> \/ r \in rts /\ r # Path(src, pool[x], k, old)
                            \/ q # NULL /\ r = Path(src, pool[x], k, q)
  BY DEF Rerouted
<1>1. p2 = [pool EXCEPT ![x] = s]
  BY DEF Upd
<1>2. p2[x] = s /\ \A y \in Slots : y # x => p2[y] = pool[y]
  BY <1>1
<1>3. \A j, p : Path(src, s, j, p) = Path(src, pool[x], j, p)
  BY DEF Path
<1>4. \A r : Leased(src, s, r) <=> \/ Leased(src, pool[x], r) /\ r.kind # k
                                   \/ q # NULL /\ r = Path(src, pool[x], k, q)
  <2> TAKE r
  <2>1. ASSUME Leased(src, s, r), r.kind # k PROVE Leased(src, pool[x], r)
    <3>1. r.kind \in Kinds /\ s.lease[r.kind] = r.prefix /\ r.prefix # NULL
          /\ r = Path(src, s, r.kind, r.prefix)
      BY <2>1, LeasedFields
    <3> QED BY <2>1, <3>1, <1>3 DEF Leased
  <2>2. ASSUME Leased(src, s, r), r.kind = k PROVE q # NULL /\ r = Path(src, pool[x], k, q)
    BY <2>2, <1>3, LeasedFields
  <2>3. ASSUME Leased(src, pool[x], r), r.kind # k PROVE Leased(src, s, r)
    <3>1. r.kind \in Kinds /\ pool[x].lease[r.kind] = r.prefix /\ r.prefix # NULL
          /\ r = Path(src, pool[x], r.kind, r.prefix)
      BY <2>3, LeasedFields
    <3> QED BY <2>3, <3>1, <1>3 DEF Leased
  <2>4. ASSUME q # NULL, r = Path(src, pool[x], k, q) PROVE Leased(src, s, r)
    BY <2>4, <1>3 DEF Leased
  <2> QED BY <2>1, <2>2, <2>3, <2>4
<1>5. ASSUME NEW r, Owned(src, p2, r) PROVE r \in rts2
  <2>1. PICK y \in Slots : p2[y] # NULL /\ Leased(src, p2[y], r)
    BY <1>5 DEF Owned
  <2>2. CASE y = x
    <3>1. CASE Leased(src, pool[x], r) /\ r.kind # k
      <4>1. r \in rts
        BY <3>1 DEF Backed, Owned
      <4>2. r # Path(src, pool[x], k, old)
        BY <3>1, PathFields
      <4> QED BY <4>1, <4>2, <1>0
    <3>2. CASE q # NULL /\ r = Path(src, pool[x], k, q)
      BY <3>2, <1>0
    <3> QED BY <2>1, <2>2, <1>2, <1>4, <3>1, <3>2
  <2>3. CASE y # x
    <3>1. pool[y] # NULL /\ Leased(src, pool[y], r)
      BY <2>1, <2>3, <1>2
    <3>2. r \in rts
      BY <3>1 DEF Backed, Owned
    <3>3. r.via = pool[y].sw
      BY <3>1, LeasedFields
    <3>4. pool[y].sw # pool[x].sw
      BY <3>1, <2>3 DEF LeaseIfs
    <3>5. r # Path(src, pool[x], k, old)
      BY <3>3, <3>4, PathFields
    <3> QED BY <3>2, <3>5, <1>0
  <2> QED BY <2>2, <2>3
<1>6. ASSUME crf, NEW r \in rts2, r.src = src PROVE Owned(src, p2, r)
  <2>1. CASE q # NULL /\ r = Path(src, pool[x], k, q)
    BY <2>1, <1>2, <1>4 DEF Owned
  <2>2. CASE r \in rts /\ r # Path(src, pool[x], k, old)
    <3>1. PICK y \in Slots : pool[y] # NULL /\ Leased(src, pool[y], r)
      BY <1>6, <2>2 DEF Backed, Owned
    <3>2. CASE y # x
      BY <3>1, <3>2, <1>2 DEF Owned
    <3>3. CASE y = x
      <4>1. r.kind # k
        BY <3>1, <3>3, <2>2, <1>6, LeasedFields
      <4> QED BY <4>1, <3>1, <3>3, <1>2, <1>4 DEF Owned
    <3> QED BY <3>2, <3>3
  <2> QED BY <1>6, <2>1, <2>2, <1>0
<1>7. Backed(rts2, crf, src, p2)
  BY <1>5, <1>6 DEF Backed
<1> QED BY <1>7

\* A session goes, and with it nothing but paths through its interface; with
\* a careful client all of them.
LEMMA BackedDel ==
  ASSUME NEW rts, NEW rts2, NEW crf, NEW src, NEW pool, NEW x \in Slots,
         DOMAIN pool = Slots, pool[x] # NULL, LeaseIfs(pool),
         Backed(rts, crf, src, pool), rts2 \subseteq rts,
         \A r \in rts : r \in rts2 \/ (r.via = pool[x].sw /\ (pool[x].sw # 0 \/ Leased(src, pool[x], r))),
         crf => \A r \in rts2 : ~Leased(src, pool[x], r)
  PROVE  Backed(rts2, crf, src, [pool EXCEPT ![x] = NULL])
<1>1. PICK p2 : p2 = [pool EXCEPT ![x] = NULL]
  OBVIOUS
<1>2. p2[x] = NULL /\ \A y \in Slots : y # x => p2[y] = pool[y]
  BY <1>1
<1>3. ASSUME NEW r, Owned(src, p2, r) PROVE r \in rts2
  <2>1. PICK y \in Slots : y # x /\ pool[y] # NULL /\ Leased(src, pool[y], r)
    BY <1>2, <1>3 DEF Owned
  <2>2. r \in rts /\ r.via = pool[y].sw
    BY <2>1, LeasedFields DEF Backed, Owned
  <2>3. pool[y].sw # 0
    BY <2>1 DEF LeaseIfs, Leased
  <2>4. pool[y].sw # pool[x].sw
    BY <2>1, <2>3 DEF LeaseIfs
  <2> QED BY <2>2, <2>4
<1>4. ASSUME crf, NEW r \in rts2, r.src = src PROVE Owned(src, p2, r)
  <2>1. PICK y \in Slots : pool[y] # NULL /\ Leased(src, pool[y], r)
    BY <1>4 DEF Backed, Owned
  <2>2. y # x
    BY <1>4, <2>1
  <2> QED BY <2>1, <2>2, <1>2 DEF Owned
<1>5. Backed(rts2, crf, src, p2)
  BY <1>3, <1>4 DEF Backed
<1> QED BY <1>1, <1>5
-----------------------------------------------------------------------------
(* The inductive invariant: what the plugins share, the books of each one, *)
(* the tunnels, and the bridges.                                           *)

Shared ==
  /\ encaps \subseteq Encaps /\ ipoeOn \subseteq Encaps
  /\ kind \in [Ifs -> Plugins \cup {"none"}]
  /\ parent \in [Ifs -> Ifs \cup Encaps]
  /\ vrf \in [Ifs -> Vrfs]
  /\ routes \subseteq [src : Plugins, vrf : Vrfs, kind : Kinds, prefix : Prefixes, via : Ifs]
  /\ careful \in BOOLEAN /\ plugins \subseteq Plugins
  /\ limit \in [routes : Nat, encaps : Nat]

\* Only the interface of a session has a parent.
Parented == \A i \in Ifs : parent[i] # i => ipoeOf[i] # 0 \/ pppoeOf[i] # 0

IpoeInv ==
  /\ Typed(IpoeSessions, IpoeKeys, kind, ipoes, ipoeTable, ipoeOf, <<>>)
  /\ Books(kind, "ipoe", ipoes, ipoeTable, ipoeOf, <<>>)
  /\ Backed(routes, careful, "ipoe", ipoes)
  /\ \A x \in Slots : ipoes[x] # NULL =>
       /\ vrf[ipoes[x].sw] = ipoes[x].vrf /\ parent[ipoes[x].sw] = ipoes[x].key.encap
       /\ careful => ipoes[x].key.encap \in encaps

PppoeInv ==
  /\ Typed(PppoeSessions, PppoeKeys, kind, pppoes, pppoeTable, pppoeOf, pppoeParked)
  /\ Books(kind, "pppoe", pppoes, pppoeTable, pppoeOf, pppoeParked)
  /\ Backed(routes, careful, "pppoe", pppoes)
  /\ \A x \in Slots : pppoes[x] # NULL =>
       /\ vrf[pppoes[x].sw] = pppoes[x].vrf /\ parent[pppoes[x].sw] = pppoes[x].encap
       /\ careful => pppoes[x].encap \in encaps

\* A session of mode "raw" has no interface and no lease.
L2tpInv ==
  /\ Typed(L2tpSessions, TunnelKeys \X SessionIds, kind, l2tps, l2tpTable, l2tpOf, l2tpParked)
  /\ Books(kind, "l2tp", l2tps, l2tpTable, l2tpOf, l2tpParked)
  /\ Backed(routes, careful, "l2tp", l2tps)
  /\ \A x \in Slots : l2tps[x] # NULL =>
       /\ "l2tp" \in plugins
       /\ l2tps[x].mode = "ip" <=> l2tps[x].sw # 0
       /\ l2tps[x].sw = 0 => \A k \in Kinds : l2tps[x].lease[k] = NULL

\* The sessions of a tunnel, which its reference count counts.
Users(y) == {x \in Slots : l2tps[x] # NULL /\ l2tps[x].tunnel = y}

TunnelInv ==
  /\ tunnels \in [TunnelSlots -> Tunnels \cup {NULL}]
  /\ tunnelTable \in [TunnelKeys -> TunnelSlots \cup {0}]
  /\ \A x \in Slots : l2tps[x] # NULL =>
       tunnels[l2tps[x].tunnel] # NULL /\ tunnels[l2tps[x].tunnel].key = l2tps[x].key[1]
  /\ \A y \in TunnelSlots : tunnels[y] # NULL =>
       tunnelTable[tunnels[y].key] = y /\ tunnels[y].refs = Cardinality(Users(y))
  /\ \A t \in TunnelKeys : tunnelTable[t] # 0 =>
       tunnels[tunnelTable[t]] # NULL /\ tunnels[tunnelTable[t]].key = t

Bridged == {x \in Slots : pppoes[x] # NULL /\ pppoes[x].lac # NULL}

\* Two sessions that know each other.
Joined(k, l) ==
  /\ pppoeTable[k] # 0 /\ l2tpTable[l] # 0
  /\ pppoes[pppoeTable[k]].lac = l2tpTable[l]
  /\ l2tps[l2tpTable[l]].mode = "raw"
  /\ l2tps[l2tpTable[l]].opaque = pppoes[pppoeTable[k]].sw

BridgeInv ==
  /\ lacCount \in Nat /\ lacCount = Cardinality(Bridged)
  /\ bridges \subseteq PppoeKeys \X (TunnelKeys \X SessionIds)
  /\ ~careful => bridges = {}
  /\ \A b \in bridges : Joined(b[1], b[2])
  /\ careful => \A x \in Bridged : \E b \in bridges : b[1] = pppoes[x].key

Inv == Shared /\ Parented /\ IpoeInv /\ PppoeInv /\ L2tpInv /\ TunnelInv /\ BridgeInv
-----------------------------------------------------------------------------
(* Numbers and types the steps keep needing.                               *)

LEMMA Basics ==
  /\ 0 \notin Slots /\ 0 \notin Ifs /\ 0 \notin TunnelSlots /\ NULL \notin Slots
  /\ IsFiniteSet(Slots) /\ Slots \subseteq Nat /\ Ifs \subseteq Nat
  /\ "ipoe" \in Plugins /\ "pppoe" \in Plugins /\ "l2tp" \in Plugins /\ "none" \notin Plugins
  /\ NULL \notin IpoeSessions /\ NULL \notin PppoeSessions /\ NULL \notin L2tpSessions
<1>1. IsFiniteSet(Slots)
  BY FS_Interval, SessionIfsAssumption DEF Slots
<1>2. Slots \subseteq Nat /\ Ifs \subseteq Nat /\ 0 \notin Slots /\ 0 \notin Ifs /\ 0 \notin TunnelSlots
  BY DEF Slots, Ifs, TunnelSlots
<1> QED
  BY <1>1, <1>2, SessionIfsAssumption, IpoeAssumption, PppoeAssumption, L2tpAssumption DEF Plugins

LEMMA IpoeFields ==
  ASSUME NEW s \in IpoeSessions
  PROVE  s.key \in IpoeKeys /\ s.sw \in Ifs /\ s.sw \in Ifs \cup {0} /\ s.vrf \in Vrfs
         /\ s.lease \in Leases /\ s.key.encap \in Encaps
  BY DEF IpoeSessions, IpoeKeys

LEMMA PppoeFields ==
  ASSUME NEW s \in PppoeSessions
  PROVE  s.key \in PppoeKeys /\ s.sw \in Ifs /\ s.sw \in Ifs \cup {0} /\ s.vrf \in Vrfs
         /\ s.lease \in Leases /\ s.encap \in Encaps /\ s.lac \in Slots \cup {NULL}
  BY DEF PppoeSessions

LEMMA L2tpFields ==
  ASSUME NEW s \in L2tpSessions
  PROVE  s.key \in TunnelKeys \X SessionIds /\ s.sw \in Ifs \cup {0} /\ s.vrf \in Vrfs
         /\ s.lease \in Leases /\ s.tunnel \in TunnelSlots /\ s.mode \in {"ip", "raw"}
  BY DEF L2tpSessions

LEMMA NoLeaseIsLease == NoLease \in Leases /\ \A k \in Kinds : NoLease[k] = NULL
  BY DEF NoLease, Leases
-----------------------------------------------------------------------------
(* What the invariant says.                                                *)

LEMMA InvTypes == Inv => TypeOK
<1> SUFFICES ASSUME Inv PROVE TypeOK
  OBVIOUS
<1> USE DEF Inv, Shared, IpoeInv, PppoeInv, L2tpInv, TunnelInv, BridgeInv, Typed
<1>1. /\ encaps \subseteq Encaps /\ ipoeOn \subseteq Encaps
      /\ kind \in [Ifs -> Plugins \cup {"none"}] /\ parent \in [Ifs -> Ifs \cup Encaps]
      /\ vrf \in [Ifs -> Vrfs] /\ plugins \subseteq Plugins
      /\ limit \in [routes : Nat, encaps : Nat] /\ lacCount \in Nat
      /\ routes \subseteq [src : Plugins, vrf : Vrfs, kind : Kinds, prefix : Prefixes, via : Ifs]
      /\ bridges \subseteq PppoeKeys \X (TunnelKeys \X SessionIds)
  OBVIOUS
<1>2. /\ ipoes \in [Slots -> IpoeSessions \cup {NULL}]
      /\ pppoes \in [Slots -> PppoeSessions \cup {NULL}]
      /\ l2tps \in [Slots -> L2tpSessions \cup {NULL}]
      /\ tunnels \in [TunnelSlots -> Tunnels \cup {NULL}]
  OBVIOUS
<1>3. /\ ipoeTable \in [IpoeKeys -> Slots \cup {0}] /\ pppoeTable \in [PppoeKeys -> Slots \cup {0}]
      /\ l2tpTable \in [TunnelKeys \X SessionIds -> Slots \cup {0}]
      /\ tunnelTable \in [TunnelKeys -> TunnelSlots \cup {0}]
      /\ \A of \in {ipoeOf, pppoeOf, l2tpOf} : of \in [Ifs -> Slots \cup {0}]
      /\ \A parked \in {pppoeParked, l2tpParked} : parked \in Seq(Ifs)
  OBVIOUS
<1>4. careful \in BOOLEAN
  OBVIOUS
<1> QED BY <1>1, <1>2, <1>3, <1>4, Zenon DEF TypeOK

LEMMA InvResolves == Inv => SessionsResolve
<1> SUFFICES ASSUME Inv PROVE SessionsResolve
  OBVIOUS
<1>1. Resolves("ipoe", ipoes, ipoeTable, ipoeOf, <<>>)
  BY ResolvesIsBooks DEF Inv, IpoeInv
<1>2. Resolves("pppoe", pppoes, pppoeTable, pppoeOf, pppoeParked)
  BY ResolvesIsBooks DEF Inv, PppoeInv
<1>3. Resolves("l2tp", l2tps, l2tpTable, l2tpOf, l2tpParked)
  BY ResolvesIsBooks DEF Inv, L2tpInv
<1>4. TunnelsResolve
  <2>1. TunnelInv
    BY DEF Inv
  <2>2. ASSUME NEW t \in TunnelKeys, tunnelTable[t] # 0
        PROVE  LET y == tunnelTable[t]
               IN /\ tunnels[y] # NULL /\ tunnels[y].key = t
                  /\ tunnels[y].refs = Cardinality({x \in Live(l2tps) : l2tps[x].tunnel = y})
    <3>1. PICK y \in TunnelSlots : y = tunnelTable[t]
      BY <2>1, <2>2 DEF TunnelInv
    <3>2. tunnels[y] # NULL /\ tunnels[y].key = t /\ tunnels[y].refs = Cardinality(Users(y))
      BY <2>1, <2>2, <3>1 DEF TunnelInv
    <3>3. Users(y) = {x \in Live(l2tps) : l2tps[x].tunnel = y}
      BY DEF Users, Live
    <3> QED BY <3>1, <3>2, <3>3
  <2>3. \A x \in Live(l2tps) : LET y == l2tps[x].tunnel
                               IN tunnels[y] # NULL /\ tunnels[y].key = l2tps[x].key[1]
    BY <2>1 DEF TunnelInv, Live
  <2> QED BY <2>2, <2>3 DEF TunnelsResolve
<1> QED BY <1>1, <1>2, <1>3, <1>4, InvTypes DEF SessionsResolve

LEMMA InvFresh == Inv => InterfacesFresh
<1> SUFFICES ASSUME Inv PROVE InterfacesFresh
  OBVIOUS
<1>1. ASSUME careful, NEW i \in Ifs, parent[i] # i PROVE parent[i] \in encaps
  <2>1. CASE ipoeOf[i] # 0
    <3>1. PICK x \in Slots : x = ipoeOf[i]
      BY <2>1 DEF Inv, IpoeInv, Typed
    <3>2. ipoes[x] # NULL /\ ipoes[x].sw = i
      BY <2>1, <3>1 DEF Inv, IpoeInv, Books
    <3> QED BY <1>1, <3>2 DEF Inv, IpoeInv
  <2>2. CASE pppoeOf[i] # 0
    <3>1. PICK x \in Slots : x = pppoeOf[i]
      BY <2>2 DEF Inv, PppoeInv, Typed
    <3>2. pppoes[x] # NULL /\ pppoes[x].sw = i
      BY <2>2, <3>1 DEF Inv, PppoeInv, Books
    <3> QED BY <1>1, <3>2 DEF Inv, PppoeInv
  <2> QED BY <1>1, <2>1, <2>2 DEF Inv, Parented
<1>2. \A x \in Live(ipoes) :
        vrf[ipoes[x].sw] = ipoes[x].vrf /\ parent[ipoes[x].sw] = ipoes[x].key.encap
  BY DEF Inv, IpoeInv, Live
<1>3. \A x \in Live(pppoes) :
        vrf[pppoes[x].sw] = pppoes[x].vrf /\ parent[pppoes[x].sw] = pppoes[x].encap
  BY DEF Inv, PppoeInv, Live
<1> QED BY <1>1, <1>2, <1>3 DEF InterfacesFresh

\* The tag a frame is looked up by, of those a session sends.
LEMMA InnerFound ==
  ASSUME NEW outer, NEW inner
  PROVE  RecoverInnerVlan(Tags(outer) \o Tags(inner)) = (IF inner = 0 THEN outer ELSE inner)
<1>1. CASE outer = 0 /\ inner = 0
  BY <1>1 DEF RecoverInnerVlan, Tags
<1>2. CASE outer = 0 /\ inner # 0
  <2>1. Tags(outer) \o Tags(inner) = <<inner>>
    BY <1>2 DEF Tags
  <2> QED BY <2>1, <1>2 DEF RecoverInnerVlan
<1>3. CASE outer # 0 /\ inner = 0
  <2>1. Tags(outer) \o Tags(inner) = <<outer>>
    BY <1>3 DEF Tags
  <2> QED BY <2>1, <1>3 DEF RecoverInnerVlan
<1>4. CASE outer # 0 /\ inner # 0
  <2>1. PICK t : t = <<outer>> \o <<inner>>
    OBVIOUS
  <2>2. <<outer>> \in Seq({outer, inner}) /\ <<inner>> \in Seq({outer, inner})
    OBVIOUS
  <2>3. Len(t) = 2 /\ t[2] = inner
    BY <2>1, <2>2
  <2>4. RecoverInnerVlan(t) = t[2]
    BY <2>3 DEF RecoverInnerVlan
  <2> QED BY <2>1, <2>3, <2>4, <1>4 DEF Tags
<1> QED BY <1>1, <1>2, <1>3, <1>4

LEMMA InvAnswers == Inv => AnswersFound
<1> SUFFICES ASSUME Inv, NEW x \in Live(ipoes), ipoes[x].key.encap \in ipoeOn
             PROVE  LET s == ipoes[x]
                        r == IpoeBuildRewrite(s.sw)
                    IN IpoeInput(r.encap, r.tags, r.mac, FALSE) = s.sw
                         <=> s.outer = 0 \/ s.key.inner # 0
  BY DEF AnswersFound
<1> DEFINE k == ipoes[x].key
           outer == ipoes[x].outer
           i == ipoes[x].sw
<1>0. x \in Slots /\ ipoes[x] # NULL /\ ipoes[x] \in IpoeSessions
  BY DEF Inv, IpoeInv, Typed, Live
<1>1. k \in IpoeKeys /\ i \in Ifs
  BY <1>0 DEF IpoeSessions
<1>2. ipoeOf[i] = x /\ x # 0 /\ ipoeTable[k] = x
  BY <1>0, <1>1 DEF Inv, IpoeInv, Books, Slots, Ifs
<1> DEFINE t == IF k.inner = 0 THEN outer ELSE k.inner
           n == [encap |-> k.encap, inner |-> t, mac |-> k.mac]
           found == IpoeInput(k.encap, Tags(outer) \o Tags(k.inner), k.mac, FALSE)
<1>3. IpoeBuildRewrite(i) =
        [mac |-> k.mac, encap |-> k.encap, tags |-> Tags(outer) \o Tags(k.inner)]
  BY <1>1, <1>2 DEF IpoeBuildRewrite
<1>4. found = IF n \notin IpoeKeys \/ ipoeTable[n] = 0 THEN k.encap
              ELSE ipoes[ipoeTable[n]].sw
  <2>1. RecoverInnerVlan(Tags(outer) \o Tags(k.inner)) = t
    BY InnerFound
  <2> QED BY <2>1, <1>1 DEF IpoeInput
<1>5. k.encap # i
  BY <1>1, SessionIfsAssumption DEF IpoeKeys, Ifs
<1>6. n = k <=> t = k.inner
  BY <1>1 DEF IpoeKeys
<1>7. t = k.inner <=> outer = 0 \/ k.inner # 0
  OBVIOUS
<1>8. found = i <=> n = k
  <2>1. ASSUME n = k PROVE found = i
    BY <2>1, <1>1, <1>2, <1>4
  <2>2. ASSUME n # k, n \in IpoeKeys, ipoeTable[n] # 0
        PROVE  ipoes[ipoeTable[n]].sw # i
    <3>1. PICK y \in Slots : y = ipoeTable[n]
      BY <2>2 DEF Inv, IpoeInv, Typed
    <3>2. ipoes[y] # NULL /\ ipoes[y].key = n
      BY <2>2, <3>1 DEF Inv, IpoeInv, Books, Typed
    <3>3. y # x
      BY <2>2, <3>2, <1>1
    <3>4. ipoes[y].sw # 0
      BY <3>2 DEF Inv, IpoeInv, Typed, IpoeSessions, Ifs
    <3>5. ipoeOf[ipoes[y].sw] = y
      BY <3>1, <3>2, <3>4 DEF Inv, IpoeInv, Books
    <3> QED BY <3>1, <3>3, <3>5, <1>2
  <2> QED BY <2>1, <2>2, <1>4, <1>5
<1>9. PICK r : r = IpoeBuildRewrite(i)
  OBVIOUS
<1>10. r.encap = k.encap /\ r.tags = Tags(outer) \o Tags(k.inner) /\ r.mac = k.mac
  BY <1>3, <1>9
<1>11. IpoeInput(r.encap, r.tags, r.mac, FALSE) = i <=> outer = 0 \/ k.inner # 0
  BY <1>6, <1>7, <1>8, <1>10
<1> QED BY <1>9, <1>11

LEMMA InvRoutes == Inv => RoutesOwned
<1> SUFFICES ASSUME Inv PROVE RoutesOwned
  OBVIOUS
<1>1. /\ Backed(routes, careful, "ipoe", ipoes) /\ Backed(routes, careful, "pppoe", pppoes)
      /\ Backed(routes, careful, "l2tp", l2tps)
      /\ \A r \in routes : r.src \in Plugins
  BY DEF Inv, Shared, IpoeInv, PppoeInv, L2tpInv
<1>2. \A r : r \in AllPaths <=>
        Owned("ipoe", ipoes, r) \/ Owned("pppoe", pppoes, r) \/ Owned("l2tp", l2tps, r)
  <2> TAKE r
  <2>1. PICK A, B, C :
          /\ A = {PathsOf("ipoe", ipoes[x]) : x \in Live(ipoes)}
          /\ B = {PathsOf("pppoe", pppoes[x]) : x \in Live(pppoes)}
          /\ C = {PathsOf("l2tp", l2tps[x]) : x \in Live(l2tps)}
    OBVIOUS
  <2>2. r \in UNION A <=> Owned("ipoe", ipoes, r)
    BY <2>1, InPathsOf DEF Owned, Live
  <2>3. r \in UNION B <=> Owned("pppoe", pppoes, r)
    BY <2>1, InPathsOf DEF Owned, Live
  <2>4. r \in UNION C <=> Owned("l2tp", l2tps, r)
    BY <2>1, InPathsOf DEF Owned, Live
  <2>5. AllPaths = UNION (A \cup B \cup C)
    BY <2>1 DEF AllPaths
  <2>6. r \in UNION (A \cup B \cup C) <=> r \in UNION A \/ r \in UNION B \/ r \in UNION C
    OBVIOUS
  <2> QED BY <2>2, <2>3, <2>4, <2>5, <2>6
<1>3. AllPaths \subseteq routes
  BY <1>1, <1>2 DEF Backed
<1>4. ASSUME careful PROVE \A r \in routes : r \in AllPaths
  BY <1>1, <1>2, <1>4 DEF Backed, Plugins
<1> QED BY <1>3, <1>4 DEF RoutesOwned

LEMMA InvBridges == Inv => BridgeBothWays
<1> SUFFICES ASSUME Inv PROVE BridgeBothWays
  OBVIOUS
<1>1. /\ BridgeInv /\ TunnelInv /\ Books(kind, "pppoe", pppoes, pppoeTable, pppoeOf, pppoeParked)
      /\ Books(kind, "l2tp", l2tps, l2tpTable, l2tpOf, l2tpParked)
      /\ pppoeTable \in [PppoeKeys -> Slots \cup {0}]
      /\ l2tpTable \in [TunnelKeys \X SessionIds -> Slots \cup {0}]
      /\ pppoes \in [Slots -> PppoeSessions \cup {NULL}]
      /\ \A x \in Slots : l2tps[x] # NULL => "l2tp" \in plugins
  BY DEF Inv, PppoeInv, L2tpInv, Typed
<1>2. lacCount = Cardinality({x \in Live(pppoes) : pppoes[x].lac # NULL})
  <2>1. Bridged = {x \in Live(pppoes) : pppoes[x].lac # NULL}
    BY DEF Bridged, Live
  <2> QED BY <1>1, <2>1 DEF BridgeInv
<1>3. ASSUME NEW b \in bridges, NEW ip \in BOOLEAN
      PROVE  LET out == PppoeInput(b[1], ip)
                 in == L2tpInput(b[2], ip)
             IN /\ out.to = "l2tp" /\ EncapRaw(out.at) = b[2]
                /\ in.to = "raw" /\ LacTx(in.at) = b[1]
  <2>1. PICK k \in PppoeKeys, l \in TunnelKeys \X SessionIds : b[1] = k /\ b[2] = l
    BY <1>1 DEF BridgeInv
  <2>2. Joined(k, l)
    BY <1>1, <2>1 DEF BridgeInv
  <2>3. PICK x \in Slots : x = pppoeTable[k]
    BY <1>1, <2>2 DEF Joined
  <2>4. PICK y \in Slots : y = l2tpTable[l]
    BY <1>1, <2>2 DEF Joined
  <2>5. /\ pppoes[x] # NULL /\ pppoes[x].key = k /\ l2tps[y] # NULL /\ l2tps[y].key = l
        /\ x # 0 /\ y # 0 /\ y # NULL
    <3>1. x # 0 /\ y # 0 /\ y # NULL
      BY Basics
    <3> QED BY <1>1, <2>3, <2>4, <3>1 DEF Books
  <2>6. /\ pppoes[x].lac = y /\ l2tps[y].mode = "raw" /\ l2tps[y].opaque = pppoes[x].sw
        /\ pppoes[x].sw \in Ifs
    <3>1. pppoes[x] \in PppoeSessions
      BY <1>1, <2>5
    <3> QED BY <2>2, <2>3, <2>4, <3>1, PppoeFields DEF Joined
  <2>7. PppoeInput(k, ip).to = "l2tp" /\ PppoeInput(k, ip).at = y
    <3>1. "l2tp" \in plugins
      BY <1>1, <2>5
    <3> QED BY <2>3, <2>5, <2>6, <3>1 DEF PppoeInput
  <2>8. L2tpInput(l, ip).to = "raw" /\ L2tpInput(l, ip).at = pppoes[x].sw
    BY <2>4, <2>5, <2>6 DEF L2tpInput
  <2>9. EncapRaw(y) = l
    <3>1. tunnels[l2tps[y].tunnel].key = l[1]
      BY <1>1, <2>5 DEF TunnelInv
    <3>2. l = <<l[1], l[2]>>
      OBVIOUS
    <3> QED BY <2>5, <3>1, <3>2 DEF EncapRaw
  <2>10. LacTx(pppoes[x].sw) = k
    <3>1. pppoes[x].sw # 0
      BY <2>6, Basics
    <3>2. pppoeOf[pppoes[x].sw] = x
      BY <1>1, <2>5, <3>1 DEF Books
    <3> QED BY <2>5, <3>2 DEF LacTx
  <2> QED BY <2>1, <2>7, <2>8, <2>9, <2>10
<1>4. ASSUME careful, NEW k \in PppoeKeys, PppoeInput(k, TRUE).to = "l2tp"
      PROVE  \E b \in bridges : b[1] = k
  <2>1. pppoeTable[k] # 0 /\ pppoes[pppoeTable[k]].lac # NULL
    BY <1>4 DEF PppoeInput
  <2>2. PICK x \in Slots : x = pppoeTable[k]
    BY <1>1, <2>1
  <2>3. pppoes[x] # NULL /\ pppoes[x].key = k
    BY <1>1, <2>1, <2>2 DEF Books
  <2> QED BY <1>1, <1>4, <2>1, <2>2, <2>3 DEF BridgeInv, Bridged
<1> QED BY <1>2, <1>3, <1>4 DEF BridgeBothWays
-----------------------------------------------------------------------------
LEMMA InitInv == Init => Inv
<1> SUFFICES ASSUME Init PROVE Inv
  OBVIOUS
<1> USE SessionIfsAssumption
<1>1. Shared
  <2>1. plugins \subseteq Plugins /\ limit \in [routes : Nat, encaps : Nat]
    BY LoadoutsAssumption DEF Init
  <2>2. careful \in BOOLEAN
    BY DEF Init
  <2>3. ipoeOn = {}
    BY DEF Init, IpoeInit
  <2> QED BY <2>1, <2>2, <2>3 DEF Init, Shared
<1>2. Parented
  BY DEF Init, Parented
<1>3. ASSUME NEW S, NEW K, NEW src \in Plugins, NULL \notin S,
             \A s \in S : s.key \in K /\ s.sw \in Ifs \cup {0}
      PROVE  LET pool == [x \in Slots |-> NULL]
                 table == [k \in K |-> 0]
                 of == [i \in Ifs |-> 0]
             IN /\ Typed(S, K, kind, pool, table, of, <<>>)
                /\ Books(kind, src, pool, table, of, <<>>)
                /\ Backed(routes, careful, src, pool)
  <2> DEFINE pool == [x \in Slots |-> NULL]
             table == [k \in K |-> 0]
             of == [i \in Ifs |-> 0]
  <2>1. kind = [i \in Ifs |-> "none"] /\ routes = {} /\ src # "none"
    BY Basics DEF Init
  <2>2. <<>> \in Seq(Ifs)
    OBVIOUS
  <2>3. Typed(S, K, kind, pool, table, of, <<>>)
    BY <1>3, <2>1, <2>2 DEF Typed
  <2>4. DOMAIN <<>> = {}
    OBVIOUS
  <2>5. Books(kind, src, pool, table, of, <<>>)
    BY <2>1, <2>4 DEF Books, IsParked
  <2>6. Backed(routes, careful, src, pool)
    BY <2>1 DEF Backed, Owned
  <2> QED BY <2>3, <2>5, <2>6
<1>4. IpoeInv
  <2>1. /\ ipoes = [x \in Slots |-> NULL] /\ ipoeTable = [k \in IpoeKeys |-> 0]
        /\ ipoeOf = [i \in Ifs |-> 0]
    BY DEF Init, IpoeInit
  <2>2. \A s \in IpoeSessions : s.key \in IpoeKeys /\ s.sw \in Ifs \cup {0}
    BY IpoeFields
  <2> QED BY <1>3, <2>1, <2>2, Basics DEF IpoeInv
<1>5. PppoeInv
  <2>1. /\ pppoes = [x \in Slots |-> NULL] /\ pppoeTable = [k \in PppoeKeys |-> 0]
        /\ pppoeOf = [i \in Ifs |-> 0] /\ pppoeParked = <<>>
    BY DEF Init, PppoeInit
  <2>2. \A s \in PppoeSessions : s.key \in PppoeKeys /\ s.sw \in Ifs \cup {0}
    BY PppoeFields
  <2> QED BY <1>3, <2>1, <2>2, Basics DEF PppoeInv
<1>6. L2tpInv
  <2>1. /\ l2tps = [x \in Slots |-> NULL] /\ l2tpTable = [k \in TunnelKeys \X SessionIds |-> 0]
        /\ l2tpOf = [i \in Ifs |-> 0] /\ l2tpParked = <<>>
    BY DEF Init, L2tpInit
  <2>2. \A s \in L2tpSessions : s.key \in TunnelKeys \X SessionIds /\ s.sw \in Ifs \cup {0}
    BY L2tpFields
  <2> QED BY <1>3, <2>1, <2>2, Basics DEF L2tpInv
<1>7. TunnelInv
  BY DEF Init, L2tpInit, TunnelInv
<1>8. BridgeInv
  <2>1. Bridged = {}
    BY DEF Init, PppoeInit, Bridged
  <2>2. Cardinality(Bridged) = 0
    BY <2>1, FS_EmptySet
  <2> QED BY <2>1, <2>2 DEF Init, PppoeInit, BridgeInv
<1> QED BY <1>1, <1>2, <1>4, <1>5, <1>6, <1>7, <1>8 DEF Inv
-----------------------------------------------------------------------------
(* A plugin's books survive what the others do.                            *)

LEMMA IpoeFramed ==
  ASSUME Shared, IpoeInv, Shared', UNCHANGED <<ipoes, ipoeTable, ipoeOf, careful>>,
         \A i \in Ifs : kind'[i] = "ipoe" <=> kind[i] = "ipoe",
         \A i \in Ifs : kind[i] = "ipoe" => vrf'[i] = vrf[i] /\ parent'[i] = parent[i],
         \A r : r.src = "ipoe" => (r \in routes <=> r \in routes'),
         careful => \A x \in Slots : ipoes[x] # NULL => ipoes[x].key.encap \in encaps'
  PROVE  IpoeInv'
<1>1. Typed(IpoeSessions, IpoeKeys, kind', ipoes, ipoeTable, ipoeOf, <<>>)
  BY DEF IpoeInv, Typed, Shared
<1>2. \A x \in Slots : ipoes[x] # NULL => ipoes[x].sw \in Ifs /\ ipoes[x].sw # 0
  BY IpoeFields, Basics DEF IpoeInv, Typed
<1>3. Books(kind', "ipoe", ipoes, ipoeTable, ipoeOf, <<>>)
  BY <1>2, BooksFramed DEF IpoeInv
<1>4. Backed(routes', careful, "ipoe", ipoes)
  BY BackedFramed DEF IpoeInv
<1>5. \A x \in Slots : ipoes[x] # NULL =>
        /\ vrf'[ipoes[x].sw] = ipoes[x].vrf /\ parent'[ipoes[x].sw] = ipoes[x].key.encap
        /\ careful => ipoes[x].key.encap \in encaps'
  BY <1>2 DEF IpoeInv, Books
<1> QED BY <1>1, <1>3, <1>4, <1>5 DEF IpoeInv

LEMMA PppoeFramed ==
  ASSUME Shared, PppoeInv, Shared',
         UNCHANGED <<pppoes, pppoeTable, pppoeOf, pppoeParked, careful>>,
         \A i \in Ifs : kind'[i] = "pppoe" <=> kind[i] = "pppoe",
         \A i \in Ifs : kind[i] = "pppoe" => vrf'[i] = vrf[i] /\ parent'[i] = parent[i],
         \A r : r.src = "pppoe" => (r \in routes <=> r \in routes'),
         careful => \A x \in Slots : pppoes[x] # NULL => pppoes[x].encap \in encaps'
  PROVE  PppoeInv'
<1>1. Typed(PppoeSessions, PppoeKeys, kind', pppoes, pppoeTable, pppoeOf, pppoeParked)
  BY DEF PppoeInv, Typed, Shared
<1>2. \A x \in Slots : pppoes[x] # NULL => pppoes[x].sw \in Ifs /\ pppoes[x].sw # 0
  BY PppoeFields, Basics DEF PppoeInv, Typed
<1>3. Books(kind', "pppoe", pppoes, pppoeTable, pppoeOf, pppoeParked)
  BY <1>2, BooksFramed DEF PppoeInv
<1>4. Backed(routes', careful, "pppoe", pppoes)
  BY BackedFramed DEF PppoeInv
<1>5. \A x \in Slots : pppoes[x] # NULL =>
        /\ vrf'[pppoes[x].sw] = pppoes[x].vrf /\ parent'[pppoes[x].sw] = pppoes[x].encap
        /\ careful => pppoes[x].encap \in encaps'
  BY <1>2 DEF PppoeInv, Books
<1> QED BY <1>1, <1>3, <1>4, <1>5 DEF PppoeInv

LEMMA L2tpFramed ==
  ASSUME Shared, L2tpInv, Shared',
         UNCHANGED <<l2tps, l2tpTable, l2tpOf, l2tpParked, careful, plugins>>,
         \A i \in Ifs : kind'[i] = "l2tp" <=> kind[i] = "l2tp",
         \A r : r.src = "l2tp" => (r \in routes <=> r \in routes')
  PROVE  L2tpInv'
<1>1. Typed(L2tpSessions, TunnelKeys \X SessionIds, kind', l2tps, l2tpTable, l2tpOf, l2tpParked)
  BY DEF L2tpInv, Typed, Shared
<1>2. \A x \in Slots : l2tps[x] # NULL => l2tps[x].sw \in Ifs \cup {0}
  BY L2tpFields DEF L2tpInv, Typed
<1>3. Books(kind', "l2tp", l2tps, l2tpTable, l2tpOf, l2tpParked)
  BY <1>2, BooksFramed DEF L2tpInv
<1>4. Backed(routes', careful, "l2tp", l2tps)
  BY BackedFramed DEF L2tpInv
<1> QED BY <1>1, <1>3, <1>4 DEF L2tpInv

LEMMA TunnelFramed ==
  ASSUME TunnelInv, UNCHANGED <<tunnels, tunnelTable, l2tps>>
  PROVE  TunnelInv'
  BY DEF TunnelInv, Users

LEMMA BridgeFramed ==
  ASSUME BridgeInv, UNCHANGED <<pppoes, pppoeTable, lacCount, l2tps, l2tpTable, bridges, careful>>
  PROVE  BridgeInv'
  BY DEF BridgeInv, Joined, Bridged

\* What leasing and withdrawing do to the FIB.
LEMMA LeaseEffect ==
  ASSUME Shared, NEW src \in Plugins, NEW s, s.vrf \in Vrfs, s.sw \in Ifs,
         NEW k \in Kinds, NEW p \in Prefixes, NEW add \in BOOLEAN,
         IF add THEN LeaseAdd(src, s, k, p) ELSE LeaseDel(src, s, k, p)
  PROVE  LET q == IF add THEN p ELSE NULL
         IN /\ \E old : /\ careful => old = s.lease[k]
                        /\ Rerouted(routes, routes', src, s, k, old, q)
            /\ routes' \subseteq
                 [src : Plugins, vrf : Vrfs, kind : Kinds, prefix : Prefixes, via : Ifs]
            /\ \A r : r.src # src => (r \in routes <=> r \in routes')
            /\ q \in Prefixes \cup {NULL}
<1>0. p # NULL
  BY SessionIfsAssumption
<1>1. \A x : Path(src, s, k, x).src = src
  BY PathFields
<1>2. Path(src, s, k, p) \in [src : Plugins, vrf : Vrfs, kind : Kinds, prefix : Prefixes, via : Ifs]
  BY DEF Path
<1>3. CASE add
  <2>1. routes' = (routes \ {Path(src, s, k, s.lease[k])}) \cup {Path(src, s, k, p)}
    BY <1>3 DEF LeaseAdd
  <2>2. routes' \subseteq
          [src : Plugins, vrf : Vrfs, kind : Kinds, prefix : Prefixes, via : Ifs]
    BY <2>1, <1>2 DEF Shared
  <2>3. \A r : r \in routes' <=> \/ r \in routes /\ r # Path(src, s, k, s.lease[k])
                                 \/ p # NULL /\ r = Path(src, s, k, p)
    BY <2>1, <1>0
  <2>4. \A r : r.src # src => (r \in routes <=> r \in routes')
    BY <2>3, <1>1
  <2>5. Rerouted(routes, routes', src, s, k, s.lease[k], p)
    BY <2>3, Zenon DEF Rerouted
  <2> QED BY <1>3, <2>2, <2>4, <2>5
<1>4. CASE ~add
  <2>1. routes' = routes \ {Path(src, s, k, p)} /\ (careful => p = s.lease[k])
    BY <1>4 DEF LeaseDel
  <2>2. routes' \subseteq
          [src : Plugins, vrf : Vrfs, kind : Kinds, prefix : Prefixes, via : Ifs]
    BY <2>1 DEF Shared
  <2>3. \A r : r \in routes' <=> r \in routes /\ r # Path(src, s, k, p)
    BY <2>1
  <2>4. \A r : r.src # src => (r \in routes <=> r \in routes')
    BY <2>3, <1>1
  <2>5. Rerouted(routes, routes', src, s, k, p, NULL)
    <3>1. \A r : r \in routes' <=> \/ r \in routes /\ r # Path(src, s, k, p)
                                   \/ NULL # NULL /\ r = Path(src, s, k, NULL)
      BY <2>3
    <3> QED BY <3>1, Zenon DEF Rerouted
  <2> QED BY <1>4, <2>1, <2>2, <2>4, <2>5
<1> QED BY <1>3, <1>4

LEMMA BooksLeaseIfs ==
  ASSUME NEW S, NEW K, NEW knd, NEW src, NEW pool, NEW table, NEW of, NEW parked,
         Typed(S, K, knd, pool, table, of, parked), Books(knd, src, pool, table, of, parked),
         \A x \in Slots : pool[x] # NULL /\ pool[x].sw = 0 => \A k \in Kinds : pool[x].lease[k] = NULL
  PROVE  LeaseIfs(pool)
  BY DEF Typed, Books, LeaseIfs

LEMMA TakenFacts ==
  ASSUME Shared, NEW parked \in Seq(Ifs), CanTakeIf(parked),
         \A m, n \in DOMAIN parked : m # n => parked[m] # parked[n]
  PROVE  /\ TakenIf(parked) \in Ifs
         /\ parked # <<>> \/ (parked = <<>> /\ kind[TakenIf(parked)] = "none")
<1>1. CASE parked # <<>>
  BY <1>1, UnparkedItems
<1>2. CASE parked = <<>>
  <2>1. FreshIfs \in SUBSET Nat /\ FreshIfs # {} /\ TakenIf(parked) = Min(FreshIfs)
    BY <1>2, Basics DEF CanTakeIf, TakenIf, FreshIfs
  <2>2. Min(FreshIfs) \in FreshIfs
    BY <2>1, MinIn
  <2> QED BY <1>2, <2>1, <2>2 DEF FreshIfs
<1> QED BY <1>1, <1>2
-----------------------------------------------------------------------------
(* IPoE.                                                                   *)

LEMMA IpoeAddStep ==
  ASSUME Inv, NEW k \in IpoeKeys, NEW outer \in OuterVlans, NEW v \in Vrfs,
         IpoeAdd(k, outer, v), UNCHANGED <<pppoeVars, l2tpVars, bridges>>
  PROVE  Inv'
<1>1. PICK x : x = PoolGet(ipoes)
  OBVIOUS
<1>2. PICK i : i = TakenIf(<<>>)
  OBVIOUS
<1>3. PICK s : s = [key |-> k, outer |-> outer, vrf |-> v, lease |-> NoLease, sw |-> i]
  OBVIOUS
<1>4. /\ ipoeTable[k] = 0 /\ (careful => k.encap \in encaps)
      /\ CanGet(ipoes) /\ CanTakeIf(<<>>)
      /\ ipoes' = [ipoes EXCEPT ![x] = s]
      /\ kind' = [kind EXCEPT ![i] = "ipoe"] /\ parent' = [parent EXCEPT ![i] = k.encap]
      /\ ipoeOf' = [ipoeOf EXCEPT ![i] = x] /\ vrf' = [vrf EXCEPT ![i] = v]
      /\ ipoeTable' = [ipoeTable EXCEPT ![k] = x]
      /\ UNCHANGED <<ipoeOn, encaps, routes, careful, plugins, limit>>
  BY <1>1, <1>2, <1>3 DEF IpoeAdd
<1>5. Shared /\ Parented /\ IpoeInv /\ PppoeInv /\ L2tpInv /\ TunnelInv /\ BridgeInv
  BY DEF Inv
<1>6. /\ x \in Slots /\ ipoes[x] = NULL /\ x # 0
  BY <1>1, <1>4, PoolGetFree, Basics
<1>7. i \in Ifs /\ kind[i] = "none"
  <2>1. <<>> \in Seq(Ifs) /\ DOMAIN <<>> = {}
    OBVIOUS
  <2> QED BY <1>2, <1>4, <1>5, <2>1, TakenFacts
<1>8. s \in IpoeSessions /\ s.key = k /\ s.sw = i /\ s.vrf = v /\ s.lease = NoLease /\ s # NULL
  <2>1. s \in IpoeSessions
    BY <1>3, <1>7, NoLeaseIsLease DEF IpoeSessions
  <2> QED BY <1>3, <2>1, Basics
<1>9. /\ Typed(IpoeSessions, IpoeKeys, kind', ipoes', ipoeTable', ipoeOf', <<>>)
      /\ Books(kind', "ipoe", ipoes', ipoeTable', ipoeOf', <<>>)
  <2>1. /\ Typed(IpoeSessions, IpoeKeys, kind, ipoes, ipoeTable, ipoeOf, <<>>)
        /\ Books(kind, "ipoe", ipoes, ipoeTable, ipoeOf, <<>>)
    BY <1>5 DEF IpoeInv
  <2>2. Vacant(ipoes, ipoeTable, x, s, k, i) /\ Spare(kind, <<>>, i)
    BY <1>4, <1>6, <1>7, <1>8 DEF Vacant, Spare
  <2>3. /\ Upd(kind, kind', i, "ipoe") /\ Upd(ipoes, ipoes', x, s)
        /\ Upd(ipoeTable, ipoeTable', k, x) /\ Upd(ipoeOf, ipoeOf', i, x)
    BY <1>4 DEF Upd
  <2> QED BY <2>1, <2>2, <2>3, <1>8, BooksPut, Basics, UnparkedEmpty
<1>10. Shared'
  <2>1. k.encap \in Encaps
    BY DEF IpoeKeys
  <2> QED BY <1>4, <1>5, <1>7, <2>1, Basics DEF Shared
<1>11. /\ kind'[i] = "ipoe" /\ vrf'[i] = v /\ parent'[i] = k.encap /\ ipoeOf'[i] = x
       /\ \A j \in Ifs : j # i => /\ kind'[j] = kind[j] /\ vrf'[j] = vrf[j]
                                  /\ parent'[j] = parent[j] /\ ipoeOf'[j] = ipoeOf[j]
  BY <1>4, <1>5, <1>7 DEF Shared, IpoeInv, Typed
<1>12. /\ pppoeOf' = pppoeOf
       /\ UNCHANGED <<pppoes, pppoeTable, pppoeOf, pppoeParked, lacCount, tunnels, tunnelTable,
                      l2tps, l2tpTable, l2tpOf, l2tpParked, bridges>>
  BY DEF pppoeVars, l2tpVars
<1>13. Parented'
  BY <1>5, <1>6, <1>11, <1>12 DEF Parented
<1>14. IpoeInv'
  <2>1. Backed(routes, careful, "ipoe", ipoes) /\ DOMAIN ipoes = Slots
    BY <1>5 DEF IpoeInv, Typed
  <2>2. \A r : ~Leased("ipoe", s, r)
    BY <1>8, NoLeaseIsLease DEF Leased
  <2>3. Backed(routes, careful, "ipoe", ipoes')
    BY <2>1, <2>2, <1>4, <1>6, <1>8, BackedAdd
  <2>4. ipoes'[x] = s /\ \A y \in Slots : y # x => ipoes'[y] = ipoes[y]
    BY <2>1, <1>4, <1>6
  <2>5. ASSUME NEW y \in Slots, ipoes'[y] # NULL
        PROVE  /\ vrf'[ipoes'[y].sw] = ipoes'[y].vrf
               /\ parent'[ipoes'[y].sw] = ipoes'[y].key.encap
               /\ careful => ipoes'[y].key.encap \in encaps
    <3>1. CASE y = x
      BY <3>1, <2>4, <1>4, <1>8, <1>11
    <3>2. CASE y # x
      <4>1. ipoes'[y] = ipoes[y] /\ ipoes[y] # NULL /\ ipoes[y].sw \in Ifs /\ ipoes[y].sw # 0
        BY <3>2, <2>4, <2>5, <1>5, IpoeFields, Basics DEF IpoeInv, Typed
      <4>2. kind[ipoes[y].sw] = "ipoe"
        BY <4>1, <1>5 DEF IpoeInv, Books
      <4>3. ipoes[y].sw # i
        BY <4>2, <1>7
      <4> QED BY <4>1, <4>3, <1>5, <1>11 DEF IpoeInv
    <3> QED BY <3>1, <3>2
  <2> QED BY <1>4, <1>9, <2>3, <2>5 DEF IpoeInv
<1>15. PppoeInv' /\ L2tpInv'
  <2>1. /\ \A j \in Ifs : kind'[j] = "pppoe" <=> kind[j] = "pppoe"
        /\ \A j \in Ifs : kind'[j] = "l2tp" <=> kind[j] = "l2tp"
        /\ \A j \in Ifs : kind[j] = "pppoe" => vrf'[j] = vrf[j] /\ parent'[j] = parent[j]
    BY <1>7, <1>11
  <2>2. careful => \A y \in Slots : pppoes[y] # NULL => pppoes[y].encap \in encaps'
    BY <1>4, <1>5 DEF PppoeInv
  <2> QED BY <2>1, <2>2, <1>4, <1>5, <1>10, <1>12, PppoeFramed, L2tpFramed
<1>16. TunnelInv' /\ BridgeInv'
  BY <1>4, <1>5, <1>12, TunnelFramed, BridgeFramed
<1> QED BY <1>10, <1>13, <1>14, <1>15, <1>16 DEF Inv

LEMMA IpoeDelStep ==
  ASSUME Inv, NEW k \in IpoeKeys, IpoeDel(k), UNCHANGED <<pppoeVars, l2tpVars, bridges>>
  PROVE  Inv'
<1>1. PICK x : x = ipoeTable[k]
  OBVIOUS
<1>2. PICK s : s = ipoes[x]
  OBVIOUS
<1>3. PICK i : i = s.sw
  OBVIOUS
<1>4. /\ ipoeTable[k] # 0 /\ routes' = routes \ PathsOf("ipoe", s)
      /\ ipoeTable' = [ipoeTable EXCEPT ![k] = 0] /\ ipoeOf' = [ipoeOf EXCEPT ![i] = 0]
      /\ kind' = [kind EXCEPT ![i] = "none"] /\ parent' = [parent EXCEPT ![i] = i]
      /\ vrf' = [vrf EXCEPT ![i] = DefaultVrf] /\ ipoes' = [ipoes EXCEPT ![x] = NULL]
      /\ UNCHANGED <<ipoeOn, encaps, careful, plugins, limit>>
  BY <1>1, <1>2, <1>3 DEF IpoeDel, IpoeWithdrawn
<1>5. Shared /\ Parented /\ IpoeInv /\ PppoeInv /\ L2tpInv /\ TunnelInv /\ BridgeInv
  BY DEF Inv
<1>6. /\ Typed(IpoeSessions, IpoeKeys, kind, ipoes, ipoeTable, ipoeOf, <<>>)
      /\ Books(kind, "ipoe", ipoes, ipoeTable, ipoeOf, <<>>)
      /\ DOMAIN ipoeTable = IpoeKeys /\ DOMAIN ipoes = Slots
  BY <1>5 DEF IpoeInv, Typed
<1>7. x \in Slots /\ s # NULL /\ s \in IpoeSessions /\ i \in Ifs /\ i # 0
  <2>1. x \in Slots
    BY <1>1, <1>4, <1>6 DEF Typed
  <2>2. s # NULL
    BY <1>1, <1>2, <1>4, <1>6 DEF Books
  <2>3. s \in IpoeSessions
    BY <1>2, <1>6, <2>1, <2>2 DEF Typed
  <2> QED BY <1>3, <2>1, <2>2, <2>3, IpoeFields, Basics
<1>8. /\ kind[i] = "ipoe" /\ ipoeOf[i] = x
      /\ Typed(IpoeSessions, IpoeKeys, kind', ipoes', ipoeTable', ipoeOf', <<>>)
      /\ Books(kind', "ipoe", ipoes', ipoeTable', ipoeOf', <<>>)
  <2>1. Leads(ipoeTable, ipoes, k, x, i)
    BY <1>1, <1>2, <1>3, <1>4 DEF Leads
  <2>2. "ipoe" \in Plugins /\ i # 0 /\ Retired(kind, kind', <<>>, <<>>, i)
    BY <1>4, <1>7, Basics DEF Retired, Upd
  <2>3. /\ Upd(ipoes, ipoes', x, NULL)
        /\ Upd(ipoeTable, ipoeTable', k, 0) /\ Upd(ipoeOf, ipoeOf', i, 0)
    BY <1>4 DEF Upd
  <2>4. /\ Typed(IpoeSessions, IpoeKeys, kind, ipoes, ipoeTable, ipoeOf, <<>>)
        /\ Books(kind, "ipoe", ipoes, ipoeTable, ipoeOf, <<>>)
    BY <1>6
  <2> QED BY <2>1, <2>2, <2>3, <2>4, BooksDel
<1>9. \A r : r \in routes' <=> r \in routes /\ ~Leased("ipoe", s, r)
  BY <1>4, InPathsOf
<1>10. Shared'
  <2>1. routes' \subseteq
          [src : Plugins, vrf : Vrfs, kind : Kinds, prefix : Prefixes, via : Ifs]
    BY <1>5, <1>9 DEF Shared
  <2> QED BY <1>4, <1>5, <1>7, <2>1, SessionIfsAssumption DEF Shared
<1>11. /\ kind'[i] = "none" /\ parent'[i] = i
       /\ \A j \in Ifs : j # i => /\ kind'[j] = kind[j] /\ vrf'[j] = vrf[j]
                                  /\ parent'[j] = parent[j] /\ ipoeOf'[j] = ipoeOf[j]
  BY <1>4, <1>5, <1>7 DEF Shared, IpoeInv, Typed
<1>12. /\ pppoeOf' = pppoeOf
       /\ UNCHANGED <<pppoes, pppoeTable, pppoeOf, pppoeParked, lacCount, tunnels, tunnelTable,
                      l2tps, l2tpTable, l2tpOf, l2tpParked, bridges>>
  BY DEF pppoeVars, l2tpVars
<1>13. Parented'
  BY <1>5, <1>11, <1>12 DEF Parented
<1>14. IpoeInv'
  <2>1. Backed(routes', careful, "ipoe", ipoes')
    <3>1. Backed(routes, careful, "ipoe", ipoes)
      BY <1>5 DEF IpoeInv
    <3>2. LeaseIfs(ipoes)
      <4>1. \A y \in Slots : ipoes[y] # NULL => ipoes[y].sw # 0
        BY <1>6, IpoeFields, Basics DEF Typed
      <4> QED BY <1>6, <4>1, BooksLeaseIfs
    <3>3. /\ routes' \subseteq routes
          /\ \A r \in routes : r \in routes' \/ (r.via = i /\ Leased("ipoe", s, r))
          /\ \A r \in routes' : ~Leased("ipoe", s, r)
      BY <1>3, <1>9, LeasedFields
    <3> QED BY <3>1, <3>2, <3>3, <1>2, <1>3, <1>4, <1>6, <1>7, BackedDel
  <2>2. ipoes'[x] = NULL /\ \A y \in Slots : y # x => ipoes'[y] = ipoes[y]
    BY <1>4, <1>6, <1>7
  <2>3. ASSUME NEW y \in Slots, ipoes'[y] # NULL
        PROVE  /\ vrf'[ipoes'[y].sw] = ipoes'[y].vrf
               /\ parent'[ipoes'[y].sw] = ipoes'[y].key.encap
               /\ careful => ipoes'[y].key.encap \in encaps
    <3>1. y # x /\ ipoes'[y] = ipoes[y] /\ ipoes[y] # NULL
      BY <2>2, <2>3
    <3>2. ipoes[y].sw \in Ifs /\ ipoes[y].sw # 0
      BY <3>1, <1>6, IpoeFields, Basics DEF Typed
    <3>3. ipoes[y].sw # i
      BY <3>1, <3>2, <1>6, <1>8 DEF Books
    <3> QED BY <3>1, <3>2, <3>3, <1>5, <1>11 DEF IpoeInv
  <2> QED BY <1>4, <1>8, <2>1, <2>3 DEF IpoeInv
<1>15. PppoeInv' /\ L2tpInv'
  <2>1. /\ \A j \in Ifs : kind'[j] = "pppoe" <=> kind[j] = "pppoe"
        /\ \A j \in Ifs : kind'[j] = "l2tp" <=> kind[j] = "l2tp"
        /\ \A j \in Ifs : kind[j] = "pppoe" => vrf'[j] = vrf[j] /\ parent'[j] = parent[j]
    BY <1>8, <1>11
  <2>2. careful => \A y \in Slots : pppoes[y] # NULL => pppoes[y].encap \in encaps'
    BY <1>4, <1>5 DEF PppoeInv
  <2>3. \A r : r.src # "ipoe" => (r \in routes <=> r \in routes')
    BY <1>9, LeasedFields
  <2> QED BY <2>1, <2>2, <2>3, <1>4, <1>5, <1>10, <1>12, PppoeFramed, L2tpFramed
<1>16. TunnelInv' /\ BridgeInv'
  BY <1>4, <1>5, <1>12, TunnelFramed, BridgeFramed
<1> QED BY <1>10, <1>13, <1>14, <1>15, <1>16 DEF Inv

\* Leasing, of any kind.
LEMMA IpoeSetStep ==
  ASSUME Inv, NEW i \in Ifs, NEW p \in Prefixes, NEW add \in BOOLEAN, NEW k \in Kinds,
         ipoeOf[i] # 0,
         IF add THEN LeaseAdd("ipoe", ipoes[ipoeOf[i]], k, p)
                ELSE LeaseDel("ipoe", ipoes[ipoeOf[i]], k, p),
         IpoeLease(i, k, IF add THEN p ELSE NULL), UNCHANGED <<pppoeVars, l2tpVars, bridges>>
  PROVE  Inv'
<1>1. PICK x : x = ipoeOf[i]
  OBVIOUS
<1>2. PICK q : q = IF add THEN p ELSE NULL
  OBVIOUS
<1>3. PICK s : s = [ipoes[x] EXCEPT !.lease[k] = q]
  OBVIOUS
<1>4. Shared /\ Parented /\ IpoeInv /\ PppoeInv /\ L2tpInv /\ TunnelInv /\ BridgeInv
  BY DEF Inv
<1>5. /\ Typed(IpoeSessions, IpoeKeys, kind, ipoes, ipoeTable, ipoeOf, <<>>)
      /\ Books(kind, "ipoe", ipoes, ipoeTable, ipoeOf, <<>>)
      /\ DOMAIN ipoes = Slots
  BY <1>4 DEF IpoeInv, Typed
<1>6. /\ x \in Slots /\ ipoes[x] # NULL /\ ipoes[x].sw = i /\ ipoes[x] \in IpoeSessions
      /\ ipoes[x].vrf \in Vrfs /\ ipoes[x].lease \in Leases
  <2>1. x \in Slots
    BY <1>1, <1>5 DEF Typed
  <2>2. ipoes[x] # NULL /\ ipoes[x].sw = i
    BY <1>1, <1>5 DEF Books
  <2>3. ipoes[x] \in IpoeSessions
    BY <1>5, <2>1, <2>2 DEF Typed
  <2> QED BY <2>1, <2>2, <2>3, IpoeFields
<1>7. PICK old : /\ careful => old = ipoes[x].lease[k]
                 /\ Rerouted(routes, routes', "ipoe", ipoes[x], k, old, q)
  BY <1>1, <1>2, <1>4, <1>6, LeaseEffect, Basics
<1>8. /\ routes' \subseteq
           [src : Plugins, vrf : Vrfs, kind : Kinds, prefix : Prefixes, via : Ifs]
      /\ \A r : r.src # "ipoe" => (r \in routes <=> r \in routes')
      /\ q \in Prefixes \cup {NULL}
  BY <1>1, <1>2, <1>4, <1>6, LeaseEffect, Basics
<1>9. /\ s \in IpoeSessions /\ s # NULL /\ s.key = ipoes[x].key /\ s.sw = ipoes[x].sw
      /\ s.vrf = ipoes[x].vrf /\ s.lease[k] = q
      /\ \A j \in Kinds : j # k => s.lease[j] = ipoes[x].lease[j]
  <2>1. [ipoes[x].lease EXCEPT ![k] = q] \in Leases
    BY <1>6, <1>8 DEF Leases
  <2>2. s \in IpoeSessions /\ s.key = ipoes[x].key /\ s.sw = ipoes[x].sw
        /\ s.vrf = ipoes[x].vrf /\ s.lease = [ipoes[x].lease EXCEPT ![k] = q]
    BY <1>3, <1>6, <2>1 DEF IpoeSessions
  <2> QED BY <2>2, <1>6, Basics DEF Leases
<1>10. /\ ipoes' = [ipoes EXCEPT ![x] = s]
       /\ UNCHANGED <<ipoeTable, ipoeOf, ipoeOn, encaps, kind, parent, vrf, careful, plugins, limit>>
  BY <1>1, <1>2, <1>3 DEF IpoeLease
<1>11. UNCHANGED <<pppoes, pppoeTable, pppoeOf, pppoeParked, lacCount, tunnels, tunnelTable,
                   l2tps, l2tpTable, l2tpOf, l2tpParked, bridges>>
  BY DEF pppoeVars, l2tpVars
<1>12. Shared' /\ Parented'
  BY <1>4, <1>8, <1>10, <1>11 DEF Shared, Parented
<1>13. IpoeInv'
  <2>1. /\ Typed(IpoeSessions, IpoeKeys, kind, ipoes', ipoeTable, ipoeOf, <<>>)
        /\ Books(kind, "ipoe", ipoes', ipoeTable, ipoeOf, <<>>)
    BY <1>5, <1>6, <1>9, <1>10, BooksSet
  <2>2. LeaseIfs(ipoes)
    <3>1. \A y \in Slots : ipoes[y] # NULL => ipoes[y].sw # 0
      BY <1>5, IpoeFields, Basics DEF Typed
    <3> QED BY <1>5, <3>1, BooksLeaseIfs
  <2>3. Backed(routes', careful, "ipoe", ipoes')
    <3>1. Backed(routes, careful, "ipoe", ipoes) /\ s.sw # 0
      BY <1>4, <1>6, <1>9, Basics DEF IpoeInv
    <3>2. Upd(ipoes, ipoes', x, s)
      BY <1>10 DEF Upd
    <3>3. Released(s, ipoes[x], k, q)
      BY <3>1, <1>9 DEF Released
    <3> QED BY <3>1, <3>2, <3>3, <2>2, <1>5, <1>6, <1>7, BackedLease
  <2>4. ipoes'[x] = s /\ \A y \in Slots : y # x => ipoes'[y] = ipoes[y]
    BY <1>5, <1>6, <1>10
  <2>5. \A y \in Slots : ipoes'[y] # NULL =>
           /\ vrf[ipoes'[y].sw] = ipoes'[y].vrf /\ parent[ipoes'[y].sw] = ipoes'[y].key.encap
           /\ careful => ipoes'[y].key.encap \in encaps
    BY <2>4, <1>4, <1>6, <1>9 DEF IpoeInv
  <2> QED BY <2>1, <2>3, <2>5, <1>10 DEF IpoeInv
<1>14. PppoeInv' /\ L2tpInv'
  <2>1. careful => \A y \in Slots : pppoes[y] # NULL => pppoes[y].encap \in encaps'
    BY <1>4, <1>10 DEF PppoeInv
  <2> QED BY <2>1, <1>4, <1>8, <1>10, <1>11, <1>12, PppoeFramed, L2tpFramed
<1>15. TunnelInv' /\ BridgeInv'
  BY <1>4, <1>10, <1>11, TunnelFramed, BridgeFramed
<1> QED BY <1>12, <1>13, <1>14, <1>15 DEF Inv

LEMMA IpoeStep ==
  ASSUME Inv, Ipoe
  PROVE  Inv'
<1>1. IpoeNext /\ UNCHANGED <<pppoeVars, l2tpVars, bridges>>
  BY DEF Ipoe
<1>2. "v4" \in Kinds /\ "v6" \in Kinds /\ "pd" \in Kinds
  BY DEF Kinds
<1>3. ASSUME NEW i \in Ifs, NEW p \in Prefixes, NEW add \in BOOLEAN,
             IpoeSetIpv4(i, p, add) \/ IpoeSetIpv6(i, p, add) \/ IpoeSetPrefix(i, p, add)
      PROVE  Inv'
  <2>1. ASSUME NEW k \in Kinds, ipoeOf[i] # 0,
               IF add THEN LeaseAdd("ipoe", ipoes[ipoeOf[i]], k, p)
                      ELSE LeaseDel("ipoe", ipoes[ipoeOf[i]], k, p),
               IpoeLease(i, k, IF add THEN p ELSE NULL)
        PROVE  Inv'
    BY <1>1, <2>1, IpoeSetStep
  <2>2. CASE IpoeSetIpv4(i, p, add)
    BY <2>1, <2>2, <1>2 DEF IpoeSetIpv4
  <2>3. CASE IpoeSetIpv6(i, p, add)
    BY <2>1, <2>3, <1>2 DEF IpoeSetIpv6
  <2>4. CASE IpoeSetPrefix(i, p, add)
    BY <2>1, <2>4, <1>2 DEF IpoeSetPrefix
  <2> QED BY <1>3, <2>2, <2>3, <2>4
<1>4. ASSUME NEW e \in Encaps, NEW on \in BOOLEAN, IpoeEnable(e, on) PROVE Inv'
  <2>1. Shared /\ Parented /\ IpoeInv /\ PppoeInv /\ L2tpInv /\ TunnelInv /\ BridgeInv
    BY DEF Inv
  <2>2. /\ ipoeOn' \subseteq ipoeOn \cup {e}
        /\ UNCHANGED <<ipoes, ipoeTable, ipoeOf, encaps, kind, parent, vrf, routes, careful,
                       plugins, limit, pppoes, pppoeTable, pppoeOf, pppoeParked, lacCount,
                       tunnels, tunnelTable, l2tps, l2tpTable, l2tpOf, l2tpParked, bridges>>
    BY <1>1, <1>4 DEF IpoeEnable, ifVars, pppoeVars, l2tpVars
  <2>3. Shared'
    BY <2>1, <2>2 DEF Shared
  <2>4. Parented' /\ IpoeInv' /\ PppoeInv' /\ L2tpInv'
    BY <2>1, <2>2 DEF Parented, IpoeInv, PppoeInv, L2tpInv
  <2>5. TunnelInv' /\ BridgeInv'
    BY <2>1, <2>2, TunnelFramed, BridgeFramed
  <2> QED BY <2>3, <2>4, <2>5 DEF Inv
<1> QED BY <1>1, <1>3, <1>4, IpoeAddStep, IpoeDelStep DEF IpoeNext
-----------------------------------------------------------------------------
(* PPPoE.                                                                  *)

LEMMA PppoeAddStep ==
  ASSUME Inv, NEW k \in PppoeKeys, NEW e \in Encaps, NEW v \in Vrfs, NEW p \in Prefixes,
         PppoeAdd(k, e, v, p), UNCHANGED <<ipoeVars, l2tpVars, bridges>>
  PROVE  Inv'
<1>1. PICK x : x = PoolGet(pppoes)
  OBVIOUS
<1>2. PICK i : i = TakenIf(pppoeParked)
  OBVIOUS
<1>3. PICK s : s = [key |-> k, encap |-> e, vrf |-> v, lease |-> [NoLease EXCEPT !["v4"] = p],
                    sw |-> i, lac |-> NULL]
  OBVIOUS
<1>4. /\ pppoeTable[k] = 0 /\ e \in encaps
      /\ CanGet(pppoes) /\ CanTakeIf(pppoeParked)
      /\ pppoes' = [pppoes EXCEPT ![x] = s] /\ pppoeTable' = [pppoeTable EXCEPT ![k] = x]
      /\ pppoeParked' = Unparked(pppoeParked)
      /\ kind' = [kind EXCEPT ![i] = "pppoe"] /\ parent' = [parent EXCEPT ![i] = e]
      /\ pppoeOf' = [pppoeOf EXCEPT ![i] = x] /\ vrf' = [vrf EXCEPT ![i] = v]
      /\ routes' = routes \cup {Path("pppoe", s, "v4", p)}
      /\ UNCHANGED <<lacCount, encaps, careful, plugins, limit>>
  BY <1>1, <1>2, <1>3 DEF PppoeAdd, PppoeBoundVrf
<1>5. Shared /\ Parented /\ IpoeInv /\ PppoeInv /\ L2tpInv /\ TunnelInv /\ BridgeInv
  BY DEF Inv
<1>6. /\ Typed(PppoeSessions, PppoeKeys, kind, pppoes, pppoeTable, pppoeOf, pppoeParked)
      /\ Books(kind, "pppoe", pppoes, pppoeTable, pppoeOf, pppoeParked)
      /\ DOMAIN pppoes = Slots
  BY <1>5 DEF PppoeInv, Typed
<1>7. x \in Slots /\ pppoes[x] = NULL /\ x # 0
  BY <1>1, <1>4, PoolGetFree, Basics
<1>8. /\ i \in Ifs
      /\ \/ pppoeParked # <<>> /\ i = TakenIf(pppoeParked)
         \/ pppoeParked = <<>> /\ kind[i] = "none"
  <2>1. /\ pppoeParked \in Seq(Ifs)
        /\ \A m, n \in DOMAIN pppoeParked : m # n => pppoeParked[m] # pppoeParked[n]
    BY <1>6 DEF Typed, Books
  <2> QED BY <1>2, <1>4, <1>5, <2>1, TakenFacts
<1>9. /\ s \in PppoeSessions /\ s.key = k /\ s.sw = i /\ s.vrf = v /\ s.encap = e /\ s.lac = NULL
      /\ s # NULL /\ s.lease["v4"] = p /\ \A j \in Kinds : j # "v4" => s.lease[j] = NULL
  <2>1. /\ [NoLease EXCEPT !["v4"] = p] \in Leases /\ [NoLease EXCEPT !["v4"] = p]["v4"] = p
        /\ \A j \in Kinds : j # "v4" => [NoLease EXCEPT !["v4"] = p][j] = NULL
    BY DEF NoLease, Leases, Kinds
  <2>2. s \in PppoeSessions /\ s.lease = [NoLease EXCEPT !["v4"] = p]
    BY <1>3, <1>8, <2>1 DEF PppoeSessions
  <2> QED BY <1>3, <2>1, <2>2, Basics
<1>10. /\ kind[i] \in {"pppoe", "none"} /\ pppoeOf[i] = 0
       /\ Typed(PppoeSessions, PppoeKeys, kind', pppoes', pppoeTable', pppoeOf', pppoeParked')
       /\ Books(kind', "pppoe", pppoes', pppoeTable', pppoeOf', pppoeParked')
  <2>1. Vacant(pppoes, pppoeTable, x, s, k, i) /\ Spare(kind, pppoeParked, i)
    BY <1>4, <1>7, <1>8, <1>9 DEF Vacant, Spare
  <2>2. /\ Upd(kind, kind', i, "pppoe") /\ Upd(pppoes, pppoes', x, s)
        /\ Upd(pppoeTable, pppoeTable', k, x) /\ Upd(pppoeOf, pppoeOf', i, x)
    BY <1>4 DEF Upd
  <2>3. pppoeParked' = Unparked(pppoeParked) /\ s \in PppoeSessions /\ "pppoe" \in Plugins
    BY <1>4, <1>9, Basics
  <2> QED BY <2>1, <2>2, <2>3, <1>6, BooksPut
<1>11. \A r : r \in routes' <=> r \in routes \/ Leased("pppoe", s, r)
  <2>1. p # NULL /\ "v4" \in Kinds
    BY SessionIfsAssumption DEF Kinds
  <2>2. \A r : Leased("pppoe", s, r) <=> r = Path("pppoe", s, "v4", p)
    BY <1>9, <2>1 DEF Leased
  <2> QED BY <1>4, <2>2
<1>12. Shared'
  <2>1. Path("pppoe", s, "v4", p) \in
          [src : Plugins, vrf : Vrfs, kind : Kinds, prefix : Prefixes, via : Ifs]
    BY <1>8, <1>9, Basics DEF Path, Kinds
  <2>2. routes' \subseteq
          [src : Plugins, vrf : Vrfs, kind : Kinds, prefix : Prefixes, via : Ifs]
    BY <1>4, <1>5, <2>1 DEF Shared
  <2>3. ipoeOn' = ipoeOn
    BY DEF ipoeVars
  <2> QED BY <1>4, <1>5, <1>8, <2>2, <2>3, Basics DEF Shared
<1>13. /\ kind'[i] = "pppoe" /\ vrf'[i] = v /\ parent'[i] = e /\ pppoeOf'[i] = x
       /\ \A j \in Ifs : j # i => /\ kind'[j] = kind[j] /\ vrf'[j] = vrf[j]
                                  /\ parent'[j] = parent[j] /\ pppoeOf'[j] = pppoeOf[j]
  BY <1>4, <1>5, <1>6, <1>8 DEF Shared, Typed
<1>14. UNCHANGED <<ipoes, ipoeTable, ipoeOf, ipoeOn, tunnels, tunnelTable, l2tps, l2tpTable,
                   l2tpOf, l2tpParked, bridges>>
  BY DEF ipoeVars, l2tpVars
<1>15. Parented'
  BY <1>5, <1>7, <1>13, <1>14 DEF Parented
<1>16. pppoes'[x] = s /\ \A y \in Slots : y # x => pppoes'[y] = pppoes[y]
  BY <1>4, <1>6, <1>7
<1>17. PppoeInv'
  <2>1. Backed(routes', careful, "pppoe", pppoes')
    BY <1>4, <1>5, <1>6, <1>7, <1>9, <1>11, BackedAdd DEF PppoeInv
  <2>2. ASSUME NEW y \in Slots, pppoes'[y] # NULL
        PROVE  /\ vrf'[pppoes'[y].sw] = pppoes'[y].vrf
               /\ parent'[pppoes'[y].sw] = pppoes'[y].encap
               /\ careful => pppoes'[y].encap \in encaps
    <3>1. CASE y = x
      BY <3>1, <1>4, <1>9, <1>13, <1>16
    <3>2. CASE y # x
      <4>1. pppoes'[y] = pppoes[y] /\ pppoes[y] # NULL /\ pppoes[y].sw \in Ifs /\ pppoes[y].sw # 0
        BY <3>2, <2>2, <1>6, <1>16, PppoeFields, Basics DEF Typed
      <4>2. pppoeOf[pppoes[y].sw] = y /\ y # 0
        BY <4>1, <1>6, Basics DEF Books
      <4>3. pppoes[y].sw # i
        BY <4>2, <1>10
      <4> QED BY <4>1, <4>3, <1>5, <1>13 DEF PppoeInv
    <3> QED BY <3>1, <3>2
  <2> QED BY <1>4, <1>10, <2>1, <2>2 DEF PppoeInv
<1>18. IpoeInv' /\ L2tpInv'
  <2>1. /\ \A j \in Ifs : kind'[j] = "ipoe" <=> kind[j] = "ipoe"
        /\ \A j \in Ifs : kind'[j] = "l2tp" <=> kind[j] = "l2tp"
        /\ \A j \in Ifs : kind[j] = "ipoe" => vrf'[j] = vrf[j] /\ parent'[j] = parent[j]
    BY <1>10, <1>13
  <2>2. careful => \A y \in Slots : ipoes[y] # NULL => ipoes[y].key.encap \in encaps'
    BY <1>4, <1>5 DEF IpoeInv
  <2>3. \A r : r.src # "pppoe" => (r \in routes <=> r \in routes')
    BY <1>11, LeasedFields
  <2> QED BY <2>1, <2>2, <2>3, <1>4, <1>5, <1>12, <1>14, IpoeFramed, L2tpFramed
<1>19. TunnelInv'
  BY <1>5, <1>14, TunnelFramed
<1>20. BridgeInv'
  <2>1. Bridged' = Bridged
    BY <1>7, <1>9, <1>16 DEF Bridged
  <2>2. \A b \in bridges : Joined(b[1], b[2])'
    <3> TAKE b \in bridges
    <3>1. PICK c \in PppoeKeys : c = b[1]
      BY <1>5 DEF BridgeInv
    <3>0. PICK l : l = b[2]
      OBVIOUS
    <3>2. Joined(c, l)
      BY <3>0, <3>1, <1>5 DEF BridgeInv
    <3>3. c # k /\ pppoeTable'[c] = pppoeTable[c] /\ pppoeTable[c] \in Slots
      BY <3>2, <1>4, <1>6 DEF Joined, Typed
    <3>4. pppoes[pppoeTable[c]] # NULL
      BY <3>2, <1>6 DEF Joined, Books, Typed
    <3>5. pppoes'[pppoeTable'[c]] = pppoes[pppoeTable[c]]
      BY <3>3, <3>4, <1>7, <1>16
    <3>6. Joined(c, l)'
      BY <3>2, <3>3, <3>5, <1>14 DEF Joined
    <3> QED BY <3>0, <3>1, <3>6
  <2>3. careful => \A y \in Bridged : \E b \in bridges : b[1] = pppoes'[y].key
    BY <1>5, <1>7, <1>16 DEF BridgeInv, Bridged
  <2> QED BY <2>1, <2>2, <2>3, <1>4, <1>5, <1>14 DEF BridgeInv
<1> QED BY <1>12, <1>15, <1>17, <1>18, <1>19, <1>20 DEF Inv

\* Counting one more, and one less.
LEMMA Recount ==
  ASSUME NEW A, IsFiniteSet(A), NEW x
  PROVE  /\ Cardinality(A) \in Nat
         /\ x \notin A => Cardinality(A \cup {x}) = Cardinality(A) + 1
         /\ x \in A => Cardinality(A \ {x}) = Cardinality(A) - 1 /\ Cardinality(A) > 0
<1>1. Cardinality(A) \in Nat
  BY FS_CardinalityType
<1>2. ASSUME x \notin A PROVE Cardinality(A \cup {x}) = Cardinality(A) + 1
  BY <1>2, FS_AddElement
<1>3. ASSUME x \in A PROVE Cardinality(A \ {x}) = Cardinality(A) - 1 /\ Cardinality(A) > 0
  <2>1. Cardinality(A \ {x}) = Cardinality(A) - 1
    BY <1>3, FS_RemoveElement
  <2>2. Cardinality(A) # 0
    BY <1>3, FS_EmptySet
  <2> QED BY <1>1, <2>1, <2>2
<1> QED BY <1>1, <1>2, <1>3

LEMMA BridgedFinite == IsFiniteSet(Bridged)
<1>1. Bridged \in SUBSET Slots
  BY DEF Bridged
<1> QED BY <1>1, Basics, FS_Subset

LEMMA DeletePppoeStep ==
  ASSUME Inv, NEW k \in PppoeKeys, NEW v \in Vrfs, NEW p \in Prefixes,
         DeletePppoe(k, v, p), UNCHANGED ipoeVars
  PROVE  Inv'
<1>1. PICK x : x = pppoeTable[k]
  OBVIOUS
<1>2. PICK s : s = pppoes[x]
  OBVIOUS
<1>3. PICK i : i = s.sw
  OBVIOUS
<1>4. /\ pppoeTable[k] # 0
      /\ careful => s.lease = [NoLease EXCEPT !["v4"] = p] /\ s.vrf = v /\ s.lac = NULL
      /\ lacCount' = IF s.lac # NULL /\ lacCount > 0 THEN lacCount - 1 ELSE lacCount
      /\ pppoeTable' = [pppoeTable EXCEPT ![k] = 0] /\ pppoeOf' = [pppoeOf EXCEPT ![i] = 0]
      /\ routes' = routes \ {Path("pppoe", [s EXCEPT !.vrf = v], "v4", p)}
      /\ parent' = [parent EXCEPT ![i] = i] /\ pppoeParked' = Append(pppoeParked, i)
      /\ pppoes' = [pppoes EXCEPT ![x] = NULL]
      /\ UNCHANGED <<encaps, kind, vrf, careful, plugins, limit>>
  BY <1>1, <1>2, <1>3 DEF DeletePppoe, PppoeDel, PppoeUnparented
<1>5. Shared /\ Parented /\ IpoeInv /\ PppoeInv /\ L2tpInv /\ TunnelInv /\ BridgeInv
  BY DEF Inv
<1>6. /\ Typed(PppoeSessions, PppoeKeys, kind, pppoes, pppoeTable, pppoeOf, pppoeParked)
      /\ Books(kind, "pppoe", pppoes, pppoeTable, pppoeOf, pppoeParked)
      /\ DOMAIN pppoeTable = PppoeKeys /\ DOMAIN pppoes = Slots
  BY <1>5 DEF PppoeInv, Typed
<1>7. x \in Slots /\ s # NULL /\ s \in PppoeSessions /\ i \in Ifs /\ i # 0
  <2>1. x \in Slots
    BY <1>1, <1>4, <1>6 DEF Typed
  <2>2. s # NULL
    BY <1>1, <1>2, <1>4, <1>6 DEF Books
  <2>3. s \in PppoeSessions
    BY <1>2, <1>6, <2>1, <2>2 DEF Typed
  <2> QED BY <1>3, <2>1, <2>2, <2>3, PppoeFields, Basics
<1>8. /\ kind[i] = "pppoe" /\ pppoeOf[i] = x
      /\ Typed(PppoeSessions, PppoeKeys, kind', pppoes', pppoeTable', pppoeOf', pppoeParked')
      /\ Books(kind', "pppoe", pppoes', pppoeTable', pppoeOf', pppoeParked')
  <2>1. Leads(pppoeTable, pppoes, k, x, i)
    BY <1>1, <1>2, <1>3, <1>4 DEF Leads
  <2>2. "pppoe" \in Plugins /\ i # 0 /\ Retired(kind, kind', pppoeParked, pppoeParked', i)
    BY <1>4, <1>7, Basics DEF Retired, Upd
  <2>3. /\ Upd(pppoes, pppoes', x, NULL)
        /\ Upd(pppoeTable, pppoeTable', k, 0) /\ Upd(pppoeOf, pppoeOf', i, 0)
    BY <1>4 DEF Upd
  <2>4. /\ Typed(PppoeSessions, PppoeKeys, kind, pppoes, pppoeTable, pppoeOf, pppoeParked)
        /\ Books(kind, "pppoe", pppoes, pppoeTable, pppoeOf, pppoeParked)
    BY <1>6
  <2> QED BY <2>1, <2>2, <2>3, <2>4, BooksDel
<1>9. PICK g : /\ g = Path("pppoe", [s EXCEPT !.vrf = v], "v4", p)
               /\ g.src = "pppoe" /\ g.via = i
               /\ careful => \A r : Leased("pppoe", s, r) => r = g
  <2>1. [s EXCEPT !.vrf = v].sw = i /\ (s.vrf = v => [s EXCEPT !.vrf = v] = s)
    BY <1>3, <1>7 DEF PppoeSessions
  <2>2. ASSUME careful, NEW r, Leased("pppoe", s, r) PROVE r = Path("pppoe", s, "v4", p)
    <3>1. r.kind \in Kinds /\ s.lease[r.kind] # NULL /\ r = Path("pppoe", s, r.kind, s.lease[r.kind])
      BY <2>2, LeasedFields
    <3>2. s.lease["v4"] = p /\ \A j \in Kinds : j # "v4" => s.lease[j] = NULL
      BY <1>4, <2>2 DEF NoLease, Kinds
    <3> QED BY <3>1, <3>2
  <2>3. PICK u : u = [s EXCEPT !.vrf = v]
    OBVIOUS
  <2>4. careful => u = s
    BY <1>4, <2>1, <2>3
  <2>5. PICK h : h = Path("pppoe", u, "v4", p)
    OBVIOUS
  <2>6. h.src = "pppoe" /\ h.via = i
    <3>1. u.sw = i
      BY <2>1, <2>3
    <3> QED BY <2>5, <3>1, PathFields
  <2>7. careful => \A r : Leased("pppoe", s, r) => r = h
    BY <2>2, <2>4, <2>5
  <2> QED BY <2>3, <2>5, <2>6, <2>7
<1>10. \A r : r \in routes' <=> r \in routes /\ r # g
  BY <1>4, <1>9
<1>11. UNCHANGED <<ipoes, ipoeTable, ipoeOf, ipoeOn, tunnels, tunnelTable, l2tps, l2tpTable,
                   l2tpOf, l2tpParked, bridges>>
  BY DEF ipoeVars, l2tpVars, DeletePppoe
<1>12. Shared'
  <2>1. routes' \subseteq
          [src : Plugins, vrf : Vrfs, kind : Kinds, prefix : Prefixes, via : Ifs]
    BY <1>5, <1>10 DEF Shared
  <2> QED BY <1>4, <1>5, <1>7, <1>11, <2>1 DEF Shared
<1>13. /\ parent'[i] = i
       /\ \A j \in Ifs : j # i => parent'[j] = parent[j] /\ pppoeOf'[j] = pppoeOf[j]
  BY <1>4, <1>5, <1>6, <1>7 DEF Shared, Typed
<1>14. Parented'
  BY <1>5, <1>11, <1>13 DEF Parented
<1>15. pppoes'[x] = NULL /\ \A y \in Slots : y # x => pppoes'[y] = pppoes[y]
  BY <1>4, <1>6, <1>7
<1>16. PppoeInv'
  <2>1. Backed(routes', careful, "pppoe", pppoes')
    <3>1. Backed(routes, careful, "pppoe", pppoes)
      BY <1>5 DEF PppoeInv
    <3>2. LeaseIfs(pppoes)
      <4>1. \A y \in Slots : pppoes[y] # NULL => pppoes[y].sw # 0
        BY <1>6, PppoeFields, Basics DEF Typed
      <4> QED BY <1>6, <4>1, BooksLeaseIfs
    <3>3. /\ routes' \subseteq routes
          /\ \A r \in routes : r \in routes' \/ (r.via = i /\ i # 0)
          /\ careful => \A r \in routes' : ~Leased("pppoe", s, r)
      BY <1>7, <1>9, <1>10
    <3> QED BY <3>1, <3>2, <3>3, <1>2, <1>3, <1>4, <1>6, <1>7, BackedDel
  <2>2. ASSUME NEW y \in Slots, pppoes'[y] # NULL
        PROVE  /\ vrf'[pppoes'[y].sw] = pppoes'[y].vrf
               /\ parent'[pppoes'[y].sw] = pppoes'[y].encap
               /\ careful => pppoes'[y].encap \in encaps
    <3>1. y # x /\ pppoes'[y] = pppoes[y] /\ pppoes[y] # NULL
      BY <1>15, <2>2
    <3>2. pppoes[y].sw \in Ifs /\ pppoes[y].sw # 0
      BY <3>1, <1>6, PppoeFields, Basics DEF Typed
    <3>3. pppoes[y].sw # i
      BY <3>1, <3>2, <1>6, <1>8 DEF Books
    <3> QED BY <3>1, <3>2, <3>3, <1>4, <1>5, <1>13 DEF PppoeInv
  <2> QED BY <1>4, <1>8, <2>1, <2>2 DEF PppoeInv
<1>17. IpoeInv' /\ L2tpInv'
  <2>1. \A j \in Ifs : kind[j] = "ipoe" => vrf'[j] = vrf[j] /\ parent'[j] = parent[j]
    BY <1>4, <1>8, <1>13
  <2>2. careful => \A y \in Slots : ipoes[y] # NULL => ipoes[y].key.encap \in encaps'
    BY <1>4, <1>5 DEF IpoeInv
  <2>3. \A r : r.src # "pppoe" => (r \in routes <=> r \in routes')
    BY <1>9, <1>10
  <2> QED BY <2>1, <2>2, <2>3, <1>4, <1>5, <1>11, <1>12, IpoeFramed, L2tpFramed
<1>18. TunnelInv'
  BY <1>5, <1>11, TunnelFramed
<1>19. BridgeInv'
  <2>1. /\ lacCount \in Nat /\ lacCount = Cardinality(Bridged)
        /\ bridges \subseteq PppoeKeys \X (TunnelKeys \X SessionIds)
        /\ ~careful => bridges = {}
        /\ \A b \in bridges : Joined(b[1], b[2])
        /\ careful => \A y \in Bridged : \E b \in bridges : b[1] = pppoes[y].key
    BY <1>5 DEF BridgeInv
  <2>2. lacCount' \in Nat /\ lacCount' = Cardinality(Bridged')
    <3>1. CASE s.lac # NULL
      <4>1. Bridged' = Bridged \ {x} /\ x \in Bridged
        BY <3>1, <1>2, <1>7, <1>15 DEF Bridged
      <4> QED BY <3>1, <4>1, <2>1, <1>4, BridgedFinite, Recount
    <3>2. CASE s.lac = NULL
      <4>1. Bridged' = Bridged
        BY <3>2, <1>2, <1>7, <1>15 DEF Bridged
      <4> QED BY <3>2, <4>1, <2>1, <1>4
    <3> QED BY <3>1, <3>2
  <2>3. \A b \in bridges : Joined(b[1], b[2])'
    <3> TAKE b \in bridges
    <3>1. PICK c \in PppoeKeys, l \in TunnelKeys \X SessionIds : c = b[1] /\ l = b[2]
      BY <2>1
    <3>2. Joined(c, l) /\ careful
      BY <3>1, <2>1
    <3>3. l2tpTable[l] \in Slots
      BY <3>2, <1>5 DEF Joined, L2tpInv, Typed
    <3>4. c # k
      BY <3>2, <3>3, <1>1, <1>2, <1>4, Basics DEF Joined
    <3>5. pppoeTable'[c] = pppoeTable[c] /\ pppoeTable[c] \in Slots
      BY <3>2, <3>4, <1>4, <1>6 DEF Joined, Typed
    <3>6. pppoeTable[c] # x
      <4>1. pppoes[pppoeTable[c]].key = c /\ pppoes[x].key = k
        BY <3>2, <1>1, <1>4, <1>6 DEF Joined, Books
      <4> QED BY <4>1, <3>4
    <3>7. pppoes'[pppoeTable'[c]] = pppoes[pppoeTable[c]]
      BY <3>5, <3>6, <1>15
    <3>8. Joined(c, l)'
      BY <3>2, <3>5, <3>7, <1>11 DEF Joined
    <3> QED BY <3>1, <3>8
  <2>4. \A y \in Bridged' : y \in Bridged /\ pppoes'[y] = pppoes[y]
    BY <1>15 DEF Bridged
  <2>5. UNCHANGED <<bridges, careful>>
    BY <1>4, <1>11
  <2>6. careful => \A y \in Bridged' : \E b \in bridges : b[1] = pppoes'[y].key
    BY <2>1, <2>4
  <2> QED BY <2>1, <2>2, <2>3, <2>5, <2>6 DEF BridgeInv
<1> QED BY <1>12, <1>14, <1>16, <1>17, <1>18, <1>19 DEF Inv

\* The bridges survive a session that keeps its key, its interface and its
\* bridge, or its mode and its opaque.
LEMMA BridgeKept ==
  ASSUME BridgeInv, PppoeInv, L2tpInv,
         UNCHANGED <<pppoeTable, l2tpTable, lacCount, bridges, careful>>,
         \A y \in Slots : pppoes[y] # NULL =>
           /\ pppoes'[y] # NULL /\ pppoes'[y].lac = pppoes[y].lac
           /\ pppoes'[y].sw = pppoes[y].sw /\ pppoes'[y].key = pppoes[y].key,
         \A y \in Slots : pppoes[y] = NULL => pppoes'[y] = NULL,
         \A y \in Slots : l2tps[y] # NULL =>
           l2tps'[y].mode = l2tps[y].mode /\ l2tps'[y].opaque = l2tps[y].opaque
  PROVE  BridgeInv'
<1>1. Bridged' = Bridged
  BY DEF Bridged
<1>2. \A b \in bridges : Joined(b[1], b[2])'
  <2> TAKE b \in bridges
  <2>1. PICK c \in PppoeKeys, l \in TunnelKeys \X SessionIds : c = b[1] /\ l = b[2]
    BY DEF BridgeInv
  <2>2. Joined(c, l)
    BY <2>1 DEF BridgeInv
  <2>3. pppoeTable[c] \in Slots /\ pppoes[pppoeTable[c]] # NULL
    BY <2>2 DEF Joined, PppoeInv, Typed, Books
  <2>4. l2tpTable[l] \in Slots /\ l2tps[l2tpTable[l]] # NULL
    BY <2>2 DEF Joined, L2tpInv, Typed, Books
  <2>5. Joined(c, l)'
    BY <2>2, <2>3, <2>4 DEF Joined
  <2> QED BY <2>1, <2>5
<1>3. careful => \A y \in Bridged : \E b \in bridges : b[1] = pppoes'[y].key
  BY DEF BridgeInv, Bridged
<1> QED BY <1>1, <1>2, <1>3 DEF BridgeInv

LEMMA PppoeSetStep ==
  ASSUME Inv, NEW i \in Ifs, NEW p \in Prefixes, NEW add \in BOOLEAN, NEW k \in Kinds,
         pppoeOf[i] # 0,
         IF add THEN LeaseAdd("pppoe", pppoes[pppoeOf[i]], k, p)
                ELSE LeaseDel("pppoe", pppoes[pppoeOf[i]], k, p),
         PppoeLease(i, k, IF add THEN p ELSE NULL), UNCHANGED <<ipoeVars, l2tpVars, bridges>>
  PROVE  Inv'
<1>1. PICK x : x = pppoeOf[i]
  OBVIOUS
<1>2. PICK q : q = IF add THEN p ELSE NULL
  OBVIOUS
<1>3. PICK s : s = [pppoes[x] EXCEPT !.lease[k] = q]
  OBVIOUS
<1>4. Shared /\ Parented /\ IpoeInv /\ PppoeInv /\ L2tpInv /\ TunnelInv /\ BridgeInv
  BY DEF Inv
<1>5. /\ Typed(PppoeSessions, PppoeKeys, kind, pppoes, pppoeTable, pppoeOf, pppoeParked)
      /\ Books(kind, "pppoe", pppoes, pppoeTable, pppoeOf, pppoeParked)
      /\ DOMAIN pppoes = Slots
  BY <1>4 DEF PppoeInv, Typed
<1>6. /\ x \in Slots /\ pppoes[x] # NULL /\ pppoes[x].sw = i /\ pppoes[x] \in PppoeSessions
      /\ pppoes[x].vrf \in Vrfs /\ pppoes[x].lease \in Leases
  <2>1. x \in Slots
    BY <1>1, <1>5 DEF Typed
  <2>2. pppoes[x] # NULL /\ pppoes[x].sw = i
    BY <1>1, <1>5 DEF Books
  <2>3. pppoes[x] \in PppoeSessions
    BY <1>5, <2>1, <2>2 DEF Typed
  <2> QED BY <2>1, <2>2, <2>3, PppoeFields
<1>7. PICK old : /\ careful => old = pppoes[x].lease[k]
                 /\ Rerouted(routes, routes', "pppoe", pppoes[x], k, old, q)
  BY <1>1, <1>2, <1>4, <1>6, LeaseEffect, Basics
<1>8. /\ routes' \subseteq
           [src : Plugins, vrf : Vrfs, kind : Kinds, prefix : Prefixes, via : Ifs]
      /\ \A r : r.src # "pppoe" => (r \in routes <=> r \in routes')
      /\ q \in Prefixes \cup {NULL}
  BY <1>1, <1>2, <1>4, <1>6, LeaseEffect, Basics
<1>9. /\ s \in PppoeSessions /\ s # NULL /\ s.key = pppoes[x].key /\ s.sw = pppoes[x].sw
      /\ s.vrf = pppoes[x].vrf /\ s.lease[k] = q
      /\ s.encap = pppoes[x].encap /\ s.lac = pppoes[x].lac
      /\ \A j \in Kinds : j # k => s.lease[j] = pppoes[x].lease[j]
  <2>1. [pppoes[x].lease EXCEPT ![k] = q] \in Leases
    BY <1>6, <1>8 DEF Leases
  <2>2. s \in PppoeSessions /\ s.key = pppoes[x].key /\ s.sw = pppoes[x].sw
        /\ s.encap = pppoes[x].encap /\ s.lac = pppoes[x].lac
        /\ s.vrf = pppoes[x].vrf /\ s.lease = [pppoes[x].lease EXCEPT ![k] = q]
    BY <1>3, <1>6, <2>1 DEF PppoeSessions
  <2> QED BY <2>2, <1>6, Basics DEF Leases
<1>10. /\ pppoes' = [pppoes EXCEPT ![x] = s]
       /\ UNCHANGED <<pppoeTable, pppoeOf, pppoeParked, lacCount, encaps, kind, parent, vrf, careful,
                      plugins, limit>>
  BY <1>1, <1>2, <1>3 DEF PppoeLease
<1>11. UNCHANGED <<ipoes, ipoeTable, ipoeOf, ipoeOn, tunnels, tunnelTable, l2tps, l2tpTable,
                   l2tpOf, l2tpParked, bridges>>
  BY DEF ipoeVars, l2tpVars
<1>12. Shared' /\ Parented'
  BY <1>4, <1>8, <1>10, <1>11 DEF Shared, Parented
<1>13. PppoeInv'
  <2>1. /\ Typed(PppoeSessions, PppoeKeys, kind, pppoes', pppoeTable, pppoeOf, pppoeParked)
        /\ Books(kind, "pppoe", pppoes', pppoeTable, pppoeOf, pppoeParked)
    BY <1>5, <1>6, <1>9, <1>10, BooksSet
  <2>2. LeaseIfs(pppoes)
    <3>1. \A y \in Slots : pppoes[y] # NULL => pppoes[y].sw # 0
      BY <1>5, PppoeFields, Basics DEF Typed
    <3> QED BY <1>5, <3>1, BooksLeaseIfs
  <2>3. Backed(routes', careful, "pppoe", pppoes')
    <3>1. Backed(routes, careful, "pppoe", pppoes) /\ s.sw # 0
      BY <1>4, <1>6, <1>9, Basics DEF PppoeInv
    <3>2. Upd(pppoes, pppoes', x, s)
      BY <1>10 DEF Upd
    <3>3. Released(s, pppoes[x], k, q)
      BY <3>1, <1>9 DEF Released
    <3> QED BY <3>1, <3>2, <3>3, <2>2, <1>5, <1>6, <1>7, BackedLease
  <2>4. pppoes'[x] = s /\ \A y \in Slots : y # x => pppoes'[y] = pppoes[y]
    BY <1>5, <1>6, <1>10
  <2>5. \A y \in Slots : pppoes'[y] # NULL =>
           /\ vrf[pppoes'[y].sw] = pppoes'[y].vrf /\ parent[pppoes'[y].sw] = pppoes'[y].encap
           /\ careful => pppoes'[y].encap \in encaps
    BY <2>4, <1>4, <1>6, <1>9 DEF PppoeInv
  <2> QED BY <2>1, <2>3, <2>5, <1>10 DEF PppoeInv
<1>14. IpoeInv' /\ L2tpInv'
  <2>1. careful => \A y \in Slots : ipoes[y] # NULL => ipoes[y].key.encap \in encaps'
    BY <1>4, <1>10 DEF IpoeInv
  <2> QED BY <2>1, <1>4, <1>8, <1>10, <1>11, <1>12, IpoeFramed, L2tpFramed
<1>15. TunnelInv'
  BY <1>4, <1>11, TunnelFramed
<1>16. BridgeInv'
  <2>1. pppoes'[x] = s /\ \A y \in Slots : y # x => pppoes'[y] = pppoes[y]
    BY <1>5, <1>6, <1>10
  <2>2. \A y \in Slots : pppoes[y] # NULL =>
          /\ pppoes'[y] # NULL /\ pppoes'[y].lac = pppoes[y].lac
          /\ pppoes'[y].sw = pppoes[y].sw /\ pppoes'[y].key = pppoes[y].key
    BY <2>1, <1>9
  <2>3. \A y \in Slots : pppoes[y] = NULL => pppoes'[y] = NULL
    BY <2>1, <1>6
  <2> QED BY <2>2, <2>3, <1>4, <1>10, <1>11, BridgeKept
<1> QED BY <1>12, <1>13, <1>14, <1>15, <1>16 DEF Inv

\* A session's paths do not depend on its bridge.
LEMMA BackedKept ==
  ASSUME NEW rts, NEW crf, NEW src, NEW pool, NEW x \in Slots, NEW s, NEW p2,
         DOMAIN pool = Slots, pool[x] # NULL, s # NULL,
         s.vrf = pool[x].vrf, s.sw = pool[x].sw, s.lease = pool[x].lease,
         Backed(rts, crf, src, pool), Upd(pool, p2, x, s)
  PROVE  Backed(rts, crf, src, p2)
<1>1. p2[x] = s /\ \A y \in Slots : y # x => p2[y] = pool[y]
  BY DEF Upd
<1>2. \A r : Leased(src, s, r) <=> Leased(src, pool[x], r)
  BY DEF Leased, Path
<1>3. \A r : Owned(src, p2, r) <=> Owned(src, pool, r)
  BY <1>1, <1>2 DEF Owned
<1> QED BY <1>3 DEF Backed

\* The bridge of the session in slot y becomes x.
LEMMA BridgeStep ==
  ASSUME Inv, NEW i \in Ifs, NEW x \in Slots \cup {NULL}, Bridge(i, x), UNCHANGED ipoeVars
  PROVE  Inv'
<1>1. PICK y : y = pppoeOf[i]
  OBVIOUS
<1>2. PICK s : s = [pppoes[y] EXCEPT !.lac = x]
  OBVIOUS
<1>3. PICK k : k = pppoes[y].key
  OBVIOUS
<1>4. /\ pppoeOf[i] # 0 /\ pppoes[y].lac # x /\ lacCount' = LacCounted(pppoes[y], x)
      /\ pppoes' = [pppoes EXCEPT ![y] = s]
      /\ UNCHANGED <<pppoeTable, pppoeOf, pppoeParked, encaps, kind, parent, vrf, routes,
                     careful, plugins, limit>>
  BY <1>1, <1>2 DEF Bridge, SetLacTunnel, ifVars
<1>5. Shared /\ Parented /\ IpoeInv /\ PppoeInv /\ L2tpInv /\ TunnelInv /\ BridgeInv
  BY DEF Inv
<1>6. /\ Typed(PppoeSessions, PppoeKeys, kind, pppoes, pppoeTable, pppoeOf, pppoeParked)
      /\ Books(kind, "pppoe", pppoes, pppoeTable, pppoeOf, pppoeParked)
      /\ DOMAIN pppoes = Slots
  BY <1>5 DEF PppoeInv, Typed
<1>7. /\ y \in Slots /\ pppoes[y] # NULL /\ pppoes[y].sw = i /\ pppoes[y] \in PppoeSessions
      /\ pppoes[y].lac \in Slots \cup {NULL} /\ k \in PppoeKeys /\ pppoeTable[k] = y /\ y # 0
  <2>1. y \in Slots
    BY <1>1, <1>4, <1>6 DEF Typed
  <2>2. pppoes[y] # NULL /\ pppoes[y].sw = i
    BY <1>1, <1>4, <1>6 DEF Books
  <2>3. pppoes[y] \in PppoeSessions
    BY <1>6, <2>1, <2>2 DEF Typed
  <2>4. pppoeTable[k] = y
    BY <1>3, <1>6, <2>1, <2>2 DEF Books
  <2> QED BY <1>3, <2>1, <2>2, <2>3, <2>4, PppoeFields, Basics
<1>8. /\ s \in PppoeSessions /\ s.key = k /\ s.sw = i /\ s.vrf = pppoes[y].vrf
      /\ s.lease = pppoes[y].lease /\ s.encap = pppoes[y].encap /\ s.lac = x
  BY <1>2, <1>3, <1>7 DEF PppoeSessions
<1>9. s # NULL
  BY <1>8, Basics
<1>10. UNCHANGED <<ipoes, ipoeTable, ipoeOf, ipoeOn, tunnels, tunnelTable, l2tps, l2tpTable,
                   l2tpOf, l2tpParked>>
  BY DEF ipoeVars, l2tpVars, Bridge
<1>11. Shared' /\ Parented'
  BY <1>4, <1>5, <1>10 DEF Shared, Parented
<1>12. pppoes'[y] = s /\ \A z \in Slots : z # y => pppoes'[z] = pppoes[z]
  BY <1>4, <1>6, <1>7
<1>13. PppoeInv'
  <2>1. /\ Typed(PppoeSessions, PppoeKeys, kind, pppoes', pppoeTable, pppoeOf, pppoeParked)
        /\ Books(kind, "pppoe", pppoes', pppoeTable, pppoeOf, pppoeParked)
    BY <1>3, <1>4, <1>6, <1>7, <1>8, BooksSet
  <2>2. Backed(routes, careful, "pppoe", pppoes')
    <3>1. Upd(pppoes, pppoes', y, s) /\ Backed(routes, careful, "pppoe", pppoes)
      BY <1>4, <1>5 DEF Upd, PppoeInv
    <3> QED BY <3>1, <1>6, <1>7, <1>8, <1>9, BackedKept
  <2>3. \A z \in Slots : pppoes'[z] # NULL =>
          /\ vrf[pppoes'[z].sw] = pppoes'[z].vrf /\ parent[pppoes'[z].sw] = pppoes'[z].encap
          /\ careful => pppoes'[z].encap \in encaps
    BY <1>5, <1>7, <1>8, <1>12 DEF PppoeInv
  <2> QED BY <2>1, <2>2, <2>3, <1>4 DEF PppoeInv
<1>14. IpoeInv' /\ L2tpInv'
  BY <1>4, <1>5, <1>10 DEF IpoeInv, L2tpInv
<1>15. TunnelInv'
  BY <1>5, <1>10, TunnelFramed
<1>16. BridgeInv'
  <2>1. /\ lacCount \in Nat /\ lacCount = Cardinality(Bridged)
        /\ bridges \subseteq PppoeKeys \X (TunnelKeys \X SessionIds)
        /\ \A b \in bridges : Joined(b[1], b[2])
        /\ careful => \A z \in Bridged : \E b \in bridges : b[1] = pppoes[z].key
    BY <1>5 DEF BridgeInv
  <2>2. lacCount' \in Nat /\ lacCount' = Cardinality(Bridged')
    <3>1. CASE pppoes[y].lac # NULL /\ x = NULL
      <4>1. Bridged' = Bridged \ {y} /\ y \in Bridged
        BY <3>1, <1>7, <1>8, <1>12 DEF Bridged
      <4>2. Cardinality(Bridged \ {y}) = Cardinality(Bridged) - 1 /\ Cardinality(Bridged) > 0
        BY <4>1, BridgedFinite, Recount
      <4> QED BY <3>1, <4>1, <4>2, <2>1, <1>4 DEF LacCounted
    <3>2. CASE pppoes[y].lac = NULL /\ x # NULL
      <4>1. Bridged' = Bridged \cup {y} /\ y \notin Bridged
        BY <3>2, <1>7, <1>8, <1>9, <1>12 DEF Bridged
      <4>2. Cardinality(Bridged \cup {y}) = Cardinality(Bridged) + 1
        BY <4>1, BridgedFinite, Recount
      <4> QED BY <3>2, <4>1, <4>2, <2>1, <1>4 DEF LacCounted
    <3>3. CASE pppoes[y].lac # NULL /\ x # NULL
      <4>1. Bridged' = Bridged
        BY <3>3, <1>7, <1>8, <1>9, <1>12 DEF Bridged
      <4> QED BY <3>3, <4>1, <2>1, <1>4 DEF LacCounted
    <3> QED BY <3>1, <3>2, <3>3, <1>4
  <2>3. ASSUME ~careful PROVE bridges' = {}
    BY <2>3 DEF Bridge
  <2>4. CASE careful
    <3>1. bridges' = {b \in bridges : b[1] # k}
                     \cup {<<k, l2tps[z].key>> : z \in {x} \ {NULL}}
      BY <2>4, <1>1, <1>3 DEF Bridge
    <3>2. ASSUME x # NULL
          PROVE  /\ x \in Slots /\ l2tps[x] # NULL /\ l2tps[x].mode = "raw" /\ l2tps[x].opaque = i
                 /\ l2tps[x].key \in TunnelKeys \X SessionIds /\ l2tpTable[l2tps[x].key] = x
      <4>1. x \in Slots /\ l2tps[x] # NULL /\ l2tps[x].mode = "raw" /\ l2tps[x].opaque = i
        BY <3>2, <2>4 DEF Bridge, RawsTo, Live
      <4> QED BY <4>1, <1>5, L2tpFields DEF L2tpInv, Typed, Books
    <3>3. bridges' \subseteq PppoeKeys \X (TunnelKeys \X SessionIds)
      BY <3>1, <3>2, <2>1, <1>7
    <3>4. ASSUME NEW b \in bridges' PROVE Joined(b[1], b[2])'
      <4>1. CASE b \in bridges /\ b[1] # k
        <5>1. PICK c, l : c \in PppoeKeys /\ c = b[1] /\ l = b[2] /\ c # k
          BY <4>1, <2>1
        <5>2. Joined(c, l)
          BY <4>1, <5>1, <2>1
        <5>3. pppoeTable[c] \in Slots /\ pppoes[pppoeTable[c]].key = c
          BY <5>1, <5>2, <1>6 DEF Joined, Typed, Books
        <5>4. pppoes'[pppoeTable[c]] = pppoes[pppoeTable[c]]
          BY <5>1, <5>3, <1>3, <1>12
        <5>5. Joined(c, l)'
          BY <5>2, <5>4, <1>4, <1>10 DEF Joined
        <5> QED BY <5>1, <5>5
      <4>2. CASE x # NULL /\ b = <<k, l2tps[x].key>>
        <5>1. PICK l : l = l2tps[x].key
          OBVIOUS
        <5>2. l2tpTable[l] = x /\ x # 0 /\ l2tps[x].mode = "raw" /\ l2tps[x].opaque = i
          BY <4>2, <5>1, <3>2, Basics
        <5>3. Joined(k, l)'
          BY <5>2, <1>4, <1>7, <1>8, <1>10, <1>12 DEF Joined
        <5> QED BY <4>2, <5>1, <5>3
      <4> QED BY <3>1, <3>4, <4>1, <4>2
    <3>5. ASSUME NEW z \in Bridged' PROVE \E b \in bridges' : b[1] = pppoes'[z].key
      <4>1. CASE z = y
        <5>1. x # NULL
          BY <3>5, <4>1, <1>8, <1>12 DEF Bridged
        <5>2. <<k, l2tps[x].key>> \in bridges' /\ <<k, l2tps[x].key>>[1] = pppoes'[z].key
          BY <5>1, <4>1, <3>1, <1>8, <1>12
        <5> QED BY <5>2
      <4>2. CASE z # y
        <5>1. z \in Bridged /\ pppoes'[z] = pppoes[z] /\ z \in Slots /\ pppoes[z] # NULL
          BY <3>5, <4>2, <1>12 DEF Bridged
        <5>2. pppoes[z].key # k
          BY <5>1, <4>2, <1>6, <1>7 DEF Books
        <5> QED BY <5>1, <5>2, <2>1, <2>4, <3>1
      <4> QED BY <4>1, <4>2
    <3> QED BY <2>2, <2>4, <3>3, <3>4, <3>5, <1>4 DEF BridgeInv
  <2>5. CASE ~careful
    BY <2>2, <2>3, <2>5, <1>4 DEF BridgeInv
  <2> QED BY <2>4, <2>5
<1> QED BY <1>11, <1>13, <1>14, <1>15, <1>16 DEF Inv

LEMMA PppoeStep ==
  ASSUME Inv, Pppoe
  PROVE  Inv'
<1>1. "v6" \in Kinds /\ "pd" \in Kinds
  BY DEF Kinds
<1>2. UNCHANGED ipoeVars
  BY DEF Pppoe
<1>3. ASSUME NEW i \in Ifs, NEW p \in Prefixes, NEW add \in BOOLEAN,
             PppoeSetIpv6(i, p, add) \/ PppoeSetPrefix(i, p, add),
             UNCHANGED <<l2tpVars, bridges>>
      PROVE  Inv'
  <2>1. ASSUME NEW k \in Kinds, pppoeOf[i] # 0,
               IF add THEN LeaseAdd("pppoe", pppoes[pppoeOf[i]], k, p)
                      ELSE LeaseDel("pppoe", pppoes[pppoeOf[i]], k, p),
               PppoeLease(i, k, IF add THEN p ELSE NULL)
        PROVE  Inv'
    BY <1>2, <1>3, <2>1, PppoeSetStep
  <2>2. CASE PppoeSetIpv6(i, p, add)
    BY <2>1, <2>2, <1>1 DEF PppoeSetIpv6
  <2>3. CASE PppoeSetPrefix(i, p, add)
    BY <2>1, <2>3, <1>1 DEF PppoeSetPrefix
  <2> QED BY <1>3, <2>2, <2>3
<1>4. ASSUME NEW k \in PppoeKeys, NEW e \in Encaps, NEW v \in Vrfs, NEW p \in Prefixes,
             PppoeAdd(k, e, v, p), UNCHANGED <<l2tpVars, bridges>>
      PROVE  Inv'
  BY <1>2, <1>4, PppoeAddStep
<1> QED BY <1>2, <1>3, <1>4, DeletePppoeStep, BridgeStep DEF Pppoe
-----------------------------------------------------------------------------
(* L2TPv2.                                                                 *)

LEMMA UsersFinite ==
  ASSUME NEW y
  PROVE  IsFiniteSet(Users(y))
<1>1. Users(y) \in SUBSET Slots
  BY DEF Users
<1> QED BY <1>1, Basics, FS_Subset

\* Only the tunnels change.
LEMMA TunnelOnly ==
  ASSUME Inv, TunnelInv', UNCHANGED <<ipoeVars, pppoeVars, bridges>>,
         UNCHANGED <<l2tps, l2tpTable, l2tpOf, l2tpParked, ifVars>>
  PROVE  Inv'
<1>1. UNCHANGED <<ipoes, ipoeTable, ipoeOf, ipoeOn, encaps, kind, parent, vrf, routes, careful,
                  plugins, limit, pppoes, pppoeTable, pppoeOf, pppoeParked, lacCount,
                  l2tps, l2tpTable, l2tpOf, l2tpParked, bridges>>
  BY DEF ifVars, ipoeVars, pppoeVars
<1>2. Shared' /\ Parented' /\ IpoeInv' /\ PppoeInv' /\ L2tpInv'
  BY <1>1 DEF Inv, Shared, Parented, IpoeInv, PppoeInv, L2tpInv
<1>3. BridgeInv'
  BY <1>1, BridgeFramed DEF Inv
<1> QED BY <1>2, <1>3 DEF Inv

\* There are as many slots as keys, so a key without a tunnel has a slot.
LEMMA TunnelRoom ==
  ASSUME TunnelInv, NEW t \in TunnelKeys, tunnelTable[t] = 0
  PROVE  \E y \in TunnelSlots : tunnels[y] = NULL
<1> SUFFICES ASSUME \A y \in TunnelSlots : tunnels[y] # NULL PROVE FALSE
  OBVIOUS
<1>1. /\ IsFiniteSet(TunnelKeys) /\ Cardinality(TunnelKeys) \in Nat
      /\ IsFiniteSet(TunnelKeys \ {t}) /\ Cardinality(TunnelKeys) > 0
      /\ Cardinality(TunnelKeys \ {t}) = Cardinality(TunnelKeys) - 1
  <2>1. IsFiniteSet(TunnelKeys)
    BY L2tpAssumption
  <2>2. IsFiniteSet(TunnelKeys \ {t})
    BY <2>1, FS_RemoveElement
  <2> QED BY <2>1, <2>2, Recount
<1>2. IsFiniteSet(TunnelSlots) /\ Cardinality(TunnelSlots) = Cardinality(TunnelKeys)
  BY <1>1, FS_Interval DEF TunnelSlots
<1>3. \A y \in TunnelSlots :
        tunnels[y].key \in TunnelKeys \ {t} /\ tunnelTable[tunnels[y].key] = y
  <2> TAKE y \in TunnelSlots
  <2>1. tunnels[y] \in Tunnels /\ tunnelTable[tunnels[y].key] = y /\ y # 0
    BY Basics DEF TunnelInv
  <2> QED BY <2>1 DEF Tunnels
<1>4. PICK f : f = [y \in TunnelSlots |-> tunnels[y].key]
  OBVIOUS
<1>5. f \in [TunnelSlots -> TunnelKeys \ {t}] /\ \A y \in TunnelSlots : tunnelTable[f[y]] = y
  BY <1>3, <1>4
<1>6. \E y, z \in TunnelSlots : y # z /\ f[y] = f[z]
  BY <1>1, <1>2, <1>5, FS_PigeonHole
<1> QED BY <1>5, <1>6

LEMMA TunnelAddStep ==
  ASSUME Inv, NEW t \in TunnelKeys, TunnelAdd(t), UNCHANGED <<ipoeVars, pppoeVars, bridges>>
  PROVE  Inv'
<1>1. PICK y : y = Min({z \in TunnelSlots : tunnels[z] = NULL})
  OBVIOUS
<1>2. PICK u : u = [key |-> t, refs |-> 0]
  OBVIOUS
<1>3. /\ tunnelTable[t] = 0 /\ tunnels' = [tunnels EXCEPT ![y] = u]
      /\ tunnelTable' = [tunnelTable EXCEPT ![t] = y]
      /\ UNCHANGED <<l2tps, l2tpTable, l2tpOf, l2tpParked, ifVars>>
  BY <1>1, <1>2 DEF TunnelAdd
<1>4. TunnelInv /\ tunnels \in [TunnelSlots -> Tunnels \cup {NULL}]
      /\ tunnelTable \in [TunnelKeys -> TunnelSlots \cup {0}]
  BY DEF Inv, TunnelInv
<1>5. y \in TunnelSlots /\ tunnels[y] = NULL /\ y # 0
  <2>1. PICK free : free = {z \in TunnelSlots : tunnels[z] = NULL}
    OBVIOUS
  <2>2. free \in SUBSET Nat /\ free # {}
    BY <2>1, <1>3, <1>4, TunnelRoom DEF TunnelSlots
  <2>3. y \in free
    BY <2>1, <2>2, <1>1, MinIn
  <2> QED BY <2>1, <2>3, Basics
<1>6. u \in Tunnels /\ u # NULL /\ u.key = t /\ u.refs = 0
  BY <1>2, L2tpAssumption DEF Tunnels
<1>7. /\ tunnels'[y] = u /\ \A z \in TunnelSlots : z # y => tunnels'[z] = tunnels[z]
      /\ tunnelTable'[t] = y /\ \A c \in TunnelKeys : c # t => tunnelTable'[c] = tunnelTable[c]
      /\ tunnels' \in [TunnelSlots -> Tunnels \cup {NULL}]
      /\ tunnelTable' \in [TunnelKeys -> TunnelSlots \cup {0}]
  BY <1>3, <1>4, <1>5, <1>6
<1>8. \A z : Users(z)' = Users(z)
  BY <1>3 DEF Users
<1>9. \A x \in Slots : l2tps[x] # NULL => l2tps[x].tunnel \in TunnelSlots /\ l2tps[x].tunnel # y
  BY <1>4, <1>5, L2tpFields DEF Inv, L2tpInv, Typed, TunnelInv
<1>10. Cardinality(Users(y)) = 0
  <2>1. Users(y) = {}
    BY <1>9 DEF Users
  <2> QED BY <2>1, FS_EmptySet
<1>11. \A x \in Slots : l2tps[x] # NULL =>
         tunnels'[l2tps[x].tunnel] # NULL /\ tunnels'[l2tps[x].tunnel].key = l2tps[x].key[1]
  BY <1>4, <1>7, <1>9 DEF TunnelInv
<1>12. ASSUME NEW z \in TunnelSlots, tunnels'[z] # NULL
       PROVE  tunnelTable'[tunnels'[z].key] = z /\ tunnels'[z].refs = Cardinality(Users(z))
  <2>1. CASE z = y
    BY <2>1, <1>6, <1>7, <1>10
  <2>2. CASE z # y
    <3>1. /\ tunnels[z] # NULL /\ tunnels'[z] = tunnels[z] /\ tunnels[z] \in Tunnels
          /\ tunnelTable[tunnels[z].key] = z /\ tunnels[z].refs = Cardinality(Users(z))
      BY <2>2, <1>4, <1>7, <1>12 DEF TunnelInv
    <3>2. tunnels[z].key \in TunnelKeys /\ tunnels[z].key # t
      BY <3>1, <1>3, Basics DEF Tunnels
    <3> QED BY <3>1, <3>2, <1>7
  <2> QED BY <2>1, <2>2
<1>13. \A c \in TunnelKeys : tunnelTable'[c] # 0 =>
         tunnels'[tunnelTable'[c]] # NULL /\ tunnels'[tunnelTable'[c]].key = c
  BY <1>4, <1>5, <1>6, <1>7 DEF TunnelInv
<1>14. TunnelInv'
  BY <1>3, <1>7, <1>8, <1>11, <1>12, <1>13 DEF TunnelInv
<1> QED BY <1>3, <1>14, TunnelOnly

LEMMA TunnelDelStep ==
  ASSUME Inv, NEW t \in TunnelKeys, TunnelDel(t), UNCHANGED <<ipoeVars, pppoeVars, bridges>>
  PROVE  Inv'
<1>1. PICK y : y = tunnelTable[t]
  OBVIOUS
<1>2. /\ tunnelTable[t] # 0 /\ tunnels[y].refs = 0 /\ tunnels' = [tunnels EXCEPT ![y] = NULL]
      /\ tunnelTable' = [tunnelTable EXCEPT ![t] = 0]
      /\ UNCHANGED <<l2tps, l2tpTable, l2tpOf, l2tpParked, ifVars>>
  BY <1>1 DEF TunnelDel
<1>3. TunnelInv /\ tunnels \in [TunnelSlots -> Tunnels \cup {NULL}]
      /\ tunnelTable \in [TunnelKeys -> TunnelSlots \cup {0}]
  BY DEF Inv, TunnelInv
<1>4. y \in TunnelSlots /\ tunnels[y] # NULL /\ tunnels[y].key = t
  BY <1>1, <1>2, <1>3 DEF TunnelInv
<1>5. Users(y) = {}
  <2>1. Cardinality(Users(y)) = 0
    BY <1>2, <1>3, <1>4 DEF TunnelInv
  <2> QED BY <2>1, UsersFinite, FS_EmptySet
<1>6. /\ tunnels'[y] = NULL /\ \A z \in TunnelSlots : z # y => tunnels'[z] = tunnels[z]
      /\ tunnelTable'[t] = 0 /\ \A c \in TunnelKeys : c # t => tunnelTable'[c] = tunnelTable[c]
      /\ tunnels' \in [TunnelSlots -> Tunnels \cup {NULL}]
      /\ tunnelTable' \in [TunnelKeys -> TunnelSlots \cup {0}]
  BY <1>2, <1>3, <1>4
<1>7. \A z : Users(z)' = Users(z)
  BY <1>2 DEF Users
<1>8. \A x \in Slots : l2tps[x] # NULL => l2tps[x].tunnel \in TunnelSlots /\ l2tps[x].tunnel # y
  <2>1. \A x \in Slots : l2tps[x] # NULL => l2tps[x].tunnel # y
    BY <1>5 DEF Users
  <2> QED BY <2>1, L2tpFields DEF Inv, L2tpInv, Typed
<1>9. \A x \in Slots : l2tps[x] # NULL =>
        tunnels'[l2tps[x].tunnel] # NULL /\ tunnels'[l2tps[x].tunnel].key = l2tps[x].key[1]
  BY <1>3, <1>6, <1>8 DEF TunnelInv
<1>10. ASSUME NEW z \in TunnelSlots, tunnels'[z] # NULL
       PROVE  tunnelTable'[tunnels'[z].key] = z /\ tunnels'[z].refs = Cardinality(Users(z))
  <2>1. /\ z # y /\ tunnels[z] # NULL /\ tunnels'[z] = tunnels[z] /\ tunnels[z] \in Tunnels
        /\ tunnelTable[tunnels[z].key] = z /\ tunnels[z].refs = Cardinality(Users(z))
    BY <1>3, <1>6, <1>10 DEF TunnelInv
  <2>2. tunnels[z].key \in TunnelKeys /\ tunnels[z].key # t
    BY <2>1, <1>1 DEF Tunnels
  <2> QED BY <2>1, <2>2, <1>6
<1>11. \A c \in TunnelKeys : tunnelTable'[c] # 0 =>
         tunnels'[tunnelTable'[c]] # NULL /\ tunnels'[tunnelTable'[c]].key = c
  <2> TAKE c \in TunnelKeys
  <2> HAVE tunnelTable'[c] # 0
  <2>1. /\ c # t /\ tunnelTable'[c] = tunnelTable[c] /\ tunnelTable[c] \in TunnelSlots
        /\ tunnels[tunnelTable[c]] # NULL /\ tunnels[tunnelTable[c]].key = c
    BY <1>3, <1>6 DEF TunnelInv
  <2> QED BY <2>1, <1>4, <1>6
<1>12. TunnelInv'
  BY <1>2, <1>6, <1>7, <1>9, <1>10, <1>11 DEF TunnelInv
<1> QED BY <1>2, <1>12, TunnelOnly

\* A tunnel counts one session more.
LEMMA TunnelPut ==
  ASSUME TunnelInv, L2tpInv, NEW t \in TunnelKeys, NEW x \in Slots, l2tps[x] = NULL,
         NEW s \in L2tpSessions, s.tunnel = tunnelTable[t], s.key[1] = t, tunnelTable[t] # 0,
         l2tps' = [l2tps EXCEPT ![x] = s],
         tunnels' = [tunnels EXCEPT ![tunnelTable[t]].refs = @ + 1], UNCHANGED tunnelTable
  PROVE  TunnelInv'
<1>1. PICK y : y = tunnelTable[t]
  OBVIOUS
<1>2. PICK u : u = [tunnels[y] EXCEPT !.refs = @ + 1]
  OBVIOUS
<1>3. /\ tunnels \in [TunnelSlots -> Tunnels \cup {NULL}]
      /\ tunnelTable \in [TunnelKeys -> TunnelSlots \cup {0}]
      /\ DOMAIN l2tps = Slots /\ s # NULL
  BY Basics DEF TunnelInv, L2tpInv, Typed
<1>4. /\ y \in TunnelSlots /\ tunnels[y] # NULL /\ tunnels[y].key = t /\ tunnels[y] \in Tunnels
      /\ tunnels[y].refs = Cardinality(Users(y)) /\ tunnels[y].refs \in Nat
  <2>1. y \in TunnelSlots /\ tunnels[y] # NULL /\ tunnels[y].key = t
    BY <1>1, <1>3 DEF TunnelInv
  <2>2. tunnels[y] \in Tunnels
    BY <1>3, <2>1
  <2> QED BY <2>1, <2>2 DEF TunnelInv, Tunnels
<1>5. u \in Tunnels /\ u.key = t /\ u.refs = tunnels[y].refs + 1
  BY <1>2, <1>4 DEF Tunnels
<1>6. /\ tunnels'[y] = u /\ \A z \in TunnelSlots : z # y => tunnels'[z] = tunnels[z]
      /\ tunnels' \in [TunnelSlots -> Tunnels \cup {NULL}] /\ u # NULL
  <2>1. tunnels' = [tunnels EXCEPT ![y] = u]
    BY <1>1, <1>2
  <2>2. u # NULL
    BY <1>5, L2tpAssumption
  <2> QED BY <2>1, <2>2, <1>3, <1>4, <1>5
<1>7. l2tps'[x] = s /\ \A z \in Slots : z # x => l2tps'[z] = l2tps[z]
  BY <1>3
<1>8. Users(y)' = Users(y) \cup {x} /\ x \notin Users(y)
  BY <1>1, <1>3, <1>7 DEF Users
<1>9. \A z : z # y => Users(z)' = Users(z)
  BY <1>1, <1>3, <1>7 DEF Users
<1>10. Cardinality(Users(y)') = Cardinality(Users(y)) + 1
  BY <1>8, UsersFinite, Recount
<1>11. ASSUME NEW z \in Slots, l2tps'[z] # NULL
       PROVE  /\ tunnels'[l2tps'[z].tunnel] # NULL
              /\ tunnels'[l2tps'[z].tunnel].key = l2tps'[z].key[1]
  <2>1. CASE z = x
    <3>1. l2tps'[z].tunnel = y /\ l2tps'[z].key[1] = t
      BY <2>1, <1>1, <1>7
    <3> QED BY <3>1, <1>5, <1>6
  <2>2. CASE z # x
    <3>1. /\ l2tps'[z] = l2tps[z] /\ l2tps[z] # NULL /\ l2tps[z].tunnel \in TunnelSlots
          /\ tunnels[l2tps[z].tunnel] # NULL /\ tunnels[l2tps[z].tunnel].key = l2tps[z].key[1]
      BY <2>2, <1>7, <1>11, L2tpFields DEF TunnelInv, L2tpInv, Typed
    <3> QED BY <3>1, <1>4, <1>5, <1>6
  <2> QED BY <2>1, <2>2
<1>12. ASSUME NEW z \in TunnelSlots, tunnels'[z] # NULL
       PROVE  tunnelTable[tunnels'[z].key] = z /\ tunnels'[z].refs = Cardinality(Users(z)')
  <2>1. CASE z = y
    BY <2>1, <1>1, <1>4, <1>5, <1>6, <1>10
  <2>2. CASE z # y
    <3>1. tunnels'[z] = tunnels[z] /\ tunnels[z] # NULL /\ Users(z)' = Users(z)
      BY <2>2, <1>6, <1>9, <1>12
    <3>2. tunnelTable[tunnels[z].key] = z /\ tunnels[z].refs = Cardinality(Users(z))
      BY <3>1 DEF TunnelInv
    <3> QED BY <3>1, <3>2
  <2> QED BY <2>1, <2>2
<1>13. \A c \in TunnelKeys : tunnelTable[c] # 0 =>
         tunnels'[tunnelTable[c]] # NULL /\ tunnels'[tunnelTable[c]].key = c
  BY <1>3, <1>4, <1>5, <1>6 DEF TunnelInv
<1> QED BY <1>3, <1>6, <1>11, <1>12, <1>13 DEF TunnelInv

\* A new session is no part of a bridge.
LEMMA BridgePut ==
  ASSUME BridgeInv, L2tpInv, NEW x \in Slots, l2tps[x] = NULL, NEW s,
         NEW k \in TunnelKeys \X SessionIds, l2tpTable[k] = 0,
         l2tps' = [l2tps EXCEPT ![x] = s], l2tpTable' = [l2tpTable EXCEPT ![k] = x],
         UNCHANGED <<pppoes, pppoeTable, lacCount, bridges, careful>>
  PROVE  BridgeInv'
<1>1. Bridged' = Bridged
  BY DEF Bridged
<1>2. \A b \in bridges : Joined(b[1], b[2])'
  <2> TAKE b \in bridges
  <2>1. PICK c \in PppoeKeys, l \in TunnelKeys \X SessionIds : c = b[1] /\ l = b[2]
    BY DEF BridgeInv
  <2>2. Joined(c, l)
    BY <2>1 DEF BridgeInv
  <2>3. l # k /\ l2tpTable'[l] = l2tpTable[l] /\ l2tpTable[l] \in Slots
    BY <2>2 DEF Joined, L2tpInv, Typed
  <2>4. l2tps[l2tpTable[l]] # NULL
    BY <2>2, <2>3 DEF Joined, L2tpInv, Typed, Books
  <2>5. l2tps'[l2tpTable'[l]] = l2tps[l2tpTable[l]]
    BY <2>3, <2>4
  <2>6. Joined(c, l)'
    BY <2>2, <2>3, <2>5 DEF Joined
  <2> QED BY <2>1, <2>6
<1> QED BY <1>1, <1>2 DEF BridgeInv, Bridged

LEMMA L2tpAddIpStep ==
  ASSUME Inv, "l2tp" \in plugins, NEW t \in TunnelKeys, NEW id \in SessionIds, NEW v \in Vrfs,
         L2tpAddIp(t, id, v), UNCHANGED <<ipoeVars, pppoeVars, bridges>>
  PROVE  Inv'
<1>1. PICK x : x = PoolGet(l2tps)
  OBVIOUS
<1>2. PICK i : i = TakenIf(l2tpParked)
  OBVIOUS
<1>3. PICK k : k = <<t, id>>
  OBVIOUS
<1>4. PICK s : s = [key |-> k, tunnel |-> tunnelTable[t], mode |-> "ip", opaque |-> 0, vrf |-> v,
                    lease |-> NoLease, sw |-> i]
  OBVIOUS
<1>5. /\ CanTakeIf(l2tpParked) /\ tunnelTable[t] # 0 /\ l2tpTable[k] = 0 /\ CanGet(l2tps)
      /\ l2tps' = [l2tps EXCEPT ![x] = s] /\ l2tpTable' = [l2tpTable EXCEPT ![k] = x]
      /\ tunnels' = [tunnels EXCEPT ![tunnelTable[t]].refs = @ + 1] /\ UNCHANGED tunnelTable
      /\ kind' = [kind EXCEPT ![i] = "l2tp"] /\ l2tpParked' = Unparked(l2tpParked)
      /\ l2tpOf' = [l2tpOf EXCEPT ![i] = x]
      /\ UNCHANGED <<encaps, parent, vrf, routes, careful, plugins, limit>>
  BY <1>1, <1>2, <1>3, <1>4 DEF L2tpAddIp, L2tpPut
<1>6. Shared /\ Parented /\ IpoeInv /\ PppoeInv /\ L2tpInv /\ TunnelInv /\ BridgeInv
  BY DEF Inv
<1>7. /\ Typed(L2tpSessions, TunnelKeys \X SessionIds, kind, l2tps, l2tpTable, l2tpOf, l2tpParked)
      /\ Books(kind, "l2tp", l2tps, l2tpTable, l2tpOf, l2tpParked)
      /\ DOMAIN l2tps = Slots /\ k \in TunnelKeys \X SessionIds
  BY <1>3, <1>6 DEF L2tpInv, Typed
<1>8. x \in Slots /\ l2tps[x] = NULL /\ x # 0
  BY <1>1, <1>5, PoolGetFree, Basics
<1>9. /\ i \in Ifs /\ i # 0
      /\ \/ l2tpParked # <<>> /\ i = TakenIf(l2tpParked)
         \/ l2tpParked = <<>> /\ kind[i] = "none"
  <2>1. /\ l2tpParked \in Seq(Ifs)
        /\ \A m, n \in DOMAIN l2tpParked : m # n => l2tpParked[m] # l2tpParked[n]
    BY <1>7 DEF Typed, Books
  <2> QED BY <1>2, <1>5, <1>6, <2>1, TakenFacts, Basics
<1>10. /\ s \in L2tpSessions /\ s.key = k /\ s.sw = i /\ s.mode = "ip" /\ s.lease = NoLease
       /\ s.tunnel = tunnelTable[t] /\ s # NULL /\ s.key[1] = t
  <2>1. tunnelTable[t] \in TunnelSlots
    BY <1>5, <1>6 DEF TunnelInv
  <2>2. s \in L2tpSessions
    BY <1>4, <1>7, <1>9, <2>1, NoLeaseIsLease DEF L2tpSessions
  <2>3. s # NULL
    BY <2>2, Basics
  <2> QED BY <1>3, <1>4, <2>2, <2>3
<1>11. /\ kind[i] \in {"l2tp", "none"}
       /\ Typed(L2tpSessions, TunnelKeys \X SessionIds, kind', l2tps', l2tpTable', l2tpOf', l2tpParked')
       /\ Books(kind', "l2tp", l2tps', l2tpTable', l2tpOf', l2tpParked')
  <2>1. Vacant(l2tps, l2tpTable, x, s, k, i) /\ Spare(kind, l2tpParked, i)
    BY <1>5, <1>8, <1>9, <1>10 DEF Vacant, Spare
  <2>2. /\ Upd(kind, kind', i, "l2tp") /\ Upd(l2tps, l2tps', x, s)
        /\ Upd(l2tpTable, l2tpTable', k, x) /\ Upd(l2tpOf, l2tpOf', i, x)
    BY <1>5 DEF Upd
  <2>3. l2tpParked' = Unparked(l2tpParked) /\ s \in L2tpSessions /\ "l2tp" \in Plugins
    BY <1>5, <1>10, Basics
  <2> QED BY <2>1, <2>2, <2>3, <1>7, BooksPut
<1>12. UNCHANGED <<ipoes, ipoeTable, ipoeOf, ipoeOn, pppoes, pppoeTable, pppoeOf, pppoeParked,
                   lacCount, bridges>>
  BY DEF ipoeVars, pppoeVars
<1>13. Shared' /\ Parented'
  <2>1. Shared'
    BY <1>5, <1>6, <1>9, <1>12, Basics DEF Shared
  <2> QED BY <2>1, <1>5, <1>6, <1>12 DEF Parented
<1>14. L2tpInv'
  <2>1. \A r : ~Leased("l2tp", s, r)
    BY <1>10, NoLeaseIsLease DEF Leased
  <2>2. Backed(routes, careful, "l2tp", l2tps')
    BY <2>1, <1>5, <1>6, <1>7, <1>8, <1>10, BackedAdd DEF L2tpInv
  <2>3. l2tps'[x] = s /\ \A y \in Slots : y # x => l2tps'[y] = l2tps[y]
    BY <1>5, <1>7, <1>8
  <2>4. ASSUME NEW y \in Slots, l2tps'[y] # NULL
        PROVE  /\ "l2tp" \in plugins
               /\ l2tps'[y].mode = "ip" <=> l2tps'[y].sw # 0
               /\ l2tps'[y].sw = 0 => \A j \in Kinds : l2tps'[y].lease[j] = NULL
    <3>1. CASE y = x
      BY <3>1, <2>3, <1>9, <1>10
    <3>2. CASE y # x
      BY <3>2, <2>3, <2>4, <1>6 DEF L2tpInv
    <3> QED BY <3>1, <3>2
  <2> QED BY <1>5, <1>11, <2>2, <2>4 DEF L2tpInv
<1>15. IpoeInv' /\ PppoeInv'
  <2>1. /\ kind'[i] = "l2tp" /\ \A j \in Ifs : j # i => kind'[j] = kind[j]
    BY <1>5, <1>6, <1>9 DEF Shared
  <2>2. /\ \A j \in Ifs : kind'[j] = "ipoe" <=> kind[j] = "ipoe"
        /\ \A j \in Ifs : kind'[j] = "pppoe" <=> kind[j] = "pppoe"
    BY <2>1, <1>11
  <2>3. careful => \A y \in Slots : ipoes[y] # NULL => ipoes[y].key.encap \in encaps'
    BY <1>5, <1>6 DEF IpoeInv
  <2>4. careful => \A y \in Slots : pppoes[y] # NULL => pppoes[y].encap \in encaps'
    BY <1>5, <1>6 DEF PppoeInv
  <2> QED BY <2>2, <2>3, <2>4, <1>5, <1>6, <1>12, <1>13, IpoeFramed, PppoeFramed
<1>16. TunnelInv'
  BY <1>5, <1>6, <1>8, <1>10, TunnelPut
<1>17. BridgeInv'
  BY <1>5, <1>6, <1>7, <1>8, <1>12, BridgePut
<1> QED BY <1>13, <1>14, <1>15, <1>16, <1>17 DEF Inv

LEMMA L2tpAddRawStep ==
  ASSUME Inv, "l2tp" \in plugins, NEW t \in TunnelKeys, NEW id \in SessionIds, NEW opaque \in Ifs,
         L2tpAddRaw(t, id, opaque), UNCHANGED <<ipoeVars, pppoeVars, bridges>>
  PROVE  Inv'
<1>1. PICK x : x = PoolGet(l2tps)
  OBVIOUS
<1>2. PICK k : k = <<t, id>>
  OBVIOUS
<1>3. PICK s : s = [key |-> k, tunnel |-> tunnelTable[t], mode |-> "raw", opaque |-> opaque,
                    vrf |-> DefaultVrf, lease |-> NoLease, sw |-> 0]
  OBVIOUS
<1>4. /\ tunnelTable[t] # 0 /\ l2tpTable[k] = 0 /\ CanGet(l2tps)
      /\ l2tps' = [l2tps EXCEPT ![x] = s] /\ l2tpTable' = [l2tpTable EXCEPT ![k] = x]
      /\ tunnels' = [tunnels EXCEPT ![tunnelTable[t]].refs = @ + 1] /\ UNCHANGED tunnelTable
      /\ UNCHANGED <<l2tpOf, l2tpParked, encaps, kind, parent, vrf, routes, careful, plugins,
                     limit>>
  BY <1>1, <1>2, <1>3 DEF L2tpAddRaw, L2tpPut, ifVars
<1>5. Shared /\ Parented /\ IpoeInv /\ PppoeInv /\ L2tpInv /\ TunnelInv /\ BridgeInv
  BY DEF Inv
<1>6. /\ Typed(L2tpSessions, TunnelKeys \X SessionIds, kind, l2tps, l2tpTable, l2tpOf, l2tpParked)
      /\ Books(kind, "l2tp", l2tps, l2tpTable, l2tpOf, l2tpParked)
      /\ DOMAIN l2tps = Slots /\ k \in TunnelKeys \X SessionIds
  BY <1>2, <1>5 DEF L2tpInv, Typed
<1>7. x \in Slots /\ l2tps[x] = NULL /\ x # 0
  BY <1>1, <1>4, PoolGetFree, Basics
<1>8. /\ s \in L2tpSessions /\ s.key = k /\ s.sw = 0 /\ s.mode = "raw" /\ s.lease = NoLease
      /\ s.tunnel = tunnelTable[t] /\ s # NULL /\ s.key[1] = t
  <2>1. tunnelTable[t] \in TunnelSlots
    BY <1>4, <1>5 DEF TunnelInv
  <2>2. s \in L2tpSessions
    BY <1>3, <1>6, <2>1, NoLeaseIsLease, SessionIfsAssumption DEF L2tpSessions
  <2>3. s # NULL
    BY <2>2, Basics
  <2> QED BY <1>2, <1>3, <2>2, <2>3
<1>9. /\ Typed(L2tpSessions, TunnelKeys \X SessionIds, kind, l2tps', l2tpTable', l2tpOf, l2tpParked)
      /\ Books(kind, "l2tp", l2tps', l2tpTable', l2tpOf, l2tpParked)
  <2>1. l2tpTable[s.key] = 0 /\ x \in Slots /\ l2tps[x] = NULL /\ s \in L2tpSessions /\ s.sw = 0
    BY <1>4, <1>7, <1>8
  <2>2. /\ Typed(L2tpSessions, TunnelKeys \X SessionIds, kind, [l2tps EXCEPT ![x] = s],
                 [l2tpTable EXCEPT ![s.key] = x], l2tpOf, l2tpParked)
        /\ Books(kind, "l2tp", [l2tps EXCEPT ![x] = s], [l2tpTable EXCEPT ![s.key] = x],
                 l2tpOf, l2tpParked)
    BY <2>1, <1>6, BooksAddRaw
  <2> QED BY <2>2, <1>4, <1>8
<1>10. UNCHANGED <<ipoes, ipoeTable, ipoeOf, ipoeOn, pppoes, pppoeTable, pppoeOf, pppoeParked,
                   lacCount, bridges>>
  BY DEF ipoeVars, pppoeVars
<1>11. Shared' /\ Parented' /\ IpoeInv' /\ PppoeInv'
  BY <1>4, <1>5, <1>10 DEF Shared, Parented, IpoeInv, PppoeInv
<1>12. L2tpInv'
  <2>1. \A r : ~Leased("l2tp", s, r)
    BY <1>8, NoLeaseIsLease DEF Leased
  <2>2. Backed(routes, careful, "l2tp", l2tps')
    BY <2>1, <1>4, <1>5, <1>6, <1>7, <1>8, BackedAdd DEF L2tpInv
  <2>3. l2tps'[x] = s /\ \A y \in Slots : y # x => l2tps'[y] = l2tps[y]
    BY <1>4, <1>6, <1>7
  <2>4. ASSUME NEW y \in Slots, l2tps'[y] # NULL
        PROVE  /\ "l2tp" \in plugins
               /\ l2tps'[y].mode = "ip" <=> l2tps'[y].sw # 0
               /\ l2tps'[y].sw = 0 => \A j \in Kinds : l2tps'[y].lease[j] = NULL
    <3>1. CASE y = x
      BY <3>1, <2>3, <1>8, NoLeaseIsLease
    <3>2. CASE y # x
      BY <3>2, <2>3, <2>4, <1>5 DEF L2tpInv
    <3> QED BY <3>1, <3>2
  <2> QED BY <1>4, <1>9, <2>2, <2>4 DEF L2tpInv
<1>13. TunnelInv'
  BY <1>4, <1>5, <1>7, <1>8, TunnelPut
<1>14. BridgeInv'
  BY <1>4, <1>5, <1>6, <1>7, <1>10, BridgePut
<1> QED BY <1>11, <1>12, <1>13, <1>14 DEF Inv

\* A tunnel counts one session less.
LEMMA TunnelTake ==
  ASSUME TunnelInv, L2tpInv, NEW t \in TunnelKeys, NEW x \in Slots, l2tps[x] # NULL,
         l2tps[x].key[1] = t, l2tps' = [l2tps EXCEPT ![x] = NULL],
         tunnels' = L2tpUncounted(tunnelTable[t]), UNCHANGED tunnelTable
  PROVE  TunnelInv'
<1>1. PICK y : y = l2tps[x].tunnel
  OBVIOUS
<1>2. PICK u : u = [tunnels[y] EXCEPT !.refs = @ - 1]
  OBVIOUS
<1>3. /\ tunnels \in [TunnelSlots -> Tunnels \cup {NULL}]
      /\ tunnelTable \in [TunnelKeys -> TunnelSlots \cup {0}]
      /\ DOMAIN l2tps = Slots
  BY DEF TunnelInv, L2tpInv, Typed
<1>4. /\ y \in TunnelSlots /\ tunnels[y] # NULL /\ tunnels[y].key = t /\ tunnels[y] \in Tunnels
      /\ tunnelTable[t] = y /\ tunnels[y].refs = Cardinality(Users(y)) /\ tunnels[y].refs \in Nat
  <2>1. y \in TunnelSlots
    BY <1>1, L2tpFields DEF L2tpInv, Typed
  <2>2. tunnels[y] # NULL /\ tunnels[y].key = t
    BY <1>1 DEF TunnelInv
  <2>3. tunnels[y] \in Tunnels
    BY <1>3, <2>1, <2>2
  <2> QED BY <2>1, <2>2, <2>3 DEF TunnelInv, Tunnels
<1>5. l2tps'[x] = NULL /\ \A z \in Slots : z # x => l2tps'[z] = l2tps[z]
  BY <1>3
<1>6. Users(y)' = Users(y) \ {x} /\ x \in Users(y)
  BY <1>1, <1>5 DEF Users
<1>7. \A z : z # y => Users(z)' = Users(z)
  BY <1>1, <1>5 DEF Users
<1>8. Cardinality(Users(y)') = Cardinality(Users(y)) - 1 /\ Cardinality(Users(y)) > 0
  BY <1>6, UsersFinite, Recount
<1>9. u \in Tunnels /\ u # NULL /\ u.key = t /\ u.refs = Cardinality(Users(y)')
  <2>1. u \in Tunnels /\ u.key = t /\ u.refs = Cardinality(Users(y)')
    BY <1>2, <1>4, <1>8 DEF Tunnels
  <2> QED BY <2>1, L2tpAssumption
<1>10. /\ tunnels'[y] = u /\ \A z \in TunnelSlots : z # y => tunnels'[z] = tunnels[z]
       /\ tunnels' \in [TunnelSlots -> Tunnels \cup {NULL}]
  <2>1. tunnels[y].refs > 0
    BY <1>4, <1>8
  <2>2. tunnels' = [tunnels EXCEPT ![y] = u]
    BY <2>1, <1>2, <1>4 DEF L2tpUncounted
  <2> QED BY <2>2, <1>3, <1>4, <1>9
<1>11. ASSUME NEW z \in Slots, l2tps'[z] # NULL
       PROVE  /\ tunnels'[l2tps'[z].tunnel] # NULL
              /\ tunnels'[l2tps'[z].tunnel].key = l2tps'[z].key[1]
  <2>1. /\ l2tps'[z] = l2tps[z] /\ l2tps[z] # NULL /\ l2tps[z].tunnel \in TunnelSlots
        /\ tunnels[l2tps[z].tunnel] # NULL /\ tunnels[l2tps[z].tunnel].key = l2tps[z].key[1]
    BY <1>5, <1>11, L2tpFields DEF TunnelInv, L2tpInv, Typed
  <2> QED BY <2>1, <1>4, <1>9, <1>10
<1>12. ASSUME NEW z \in TunnelSlots, tunnels'[z] # NULL
       PROVE  tunnelTable[tunnels'[z].key] = z /\ tunnels'[z].refs = Cardinality(Users(z)')
  <2>1. CASE z = y
    BY <2>1, <1>4, <1>9, <1>10
  <2>2. CASE z # y
    <3>1. tunnels'[z] = tunnels[z] /\ tunnels[z] # NULL /\ Users(z)' = Users(z)
      BY <2>2, <1>7, <1>10, <1>12
    <3>2. tunnelTable[tunnels[z].key] = z /\ tunnels[z].refs = Cardinality(Users(z))
      BY <3>1 DEF TunnelInv
    <3> QED BY <3>1, <3>2
  <2> QED BY <2>1, <2>2
<1>13. \A c \in TunnelKeys : tunnelTable[c] # 0 =>
         tunnels'[tunnelTable[c]] # NULL /\ tunnels'[tunnelTable[c]].key = c
  BY <1>3, <1>4, <1>9, <1>10 DEF TunnelInv
<1> QED BY <1>3, <1>10, <1>11, <1>12, <1>13 DEF TunnelInv

LEMMA L2tpDelStep ==
  ASSUME Inv, NEW t \in TunnelKeys, NEW id \in SessionIds, L2tpDel(t, id),
         careful => \A b \in bridges : b[2] # <<t, id>>,
         UNCHANGED <<ipoeVars, pppoeVars, bridges>>
  PROVE  Inv'
<1>1. PICK k : k = <<t, id>>
  OBVIOUS
<1>2. PICK x : x = l2tpTable[k]
  OBVIOUS
<1>3. PICK s : s = l2tps[x]
  OBVIOUS
<1>4. PICK i : i = s.sw
  OBVIOUS
<1>5. /\ x # 0 /\ routes' = routes \ PathsOf("l2tp", s)
      /\ l2tpParked' = IF s.mode = "ip" THEN Append(l2tpParked, i) ELSE l2tpParked
      /\ l2tpOf' = IF s.mode = "ip" THEN [l2tpOf EXCEPT ![i] = 0] ELSE l2tpOf
      /\ l2tpTable' = [l2tpTable EXCEPT ![k] = 0]
      /\ tunnels' = L2tpUncounted(tunnelTable[t]) /\ l2tps' = [l2tps EXCEPT ![x] = NULL]
      /\ UNCHANGED <<tunnelTable, encaps, kind, parent, vrf, careful, plugins, limit>>
  BY <1>1, <1>2, <1>3, <1>4 DEF L2tpDel, L2tpWithdrawn, L2tpUnmapped
<1>6. Shared /\ Parented /\ IpoeInv /\ PppoeInv /\ L2tpInv /\ TunnelInv /\ BridgeInv
  BY DEF Inv
<1>7. PICK K : K = TunnelKeys \X SessionIds
  OBVIOUS
<1>8. /\ Typed(L2tpSessions, K, kind, l2tps, l2tpTable, l2tpOf, l2tpParked)
      /\ Books(kind, "l2tp", l2tps, l2tpTable, l2tpOf, l2tpParked)
      /\ DOMAIN l2tpTable = K /\ DOMAIN l2tps = Slots /\ k \in K
  BY <1>1, <1>6, <1>7 DEF L2tpInv, Typed
<1>9. /\ x \in Slots /\ s # NULL /\ s.key = k /\ i \in Ifs \cup {0}
      /\ s.mode \in {"ip", "raw"} /\ (s.mode = "ip" <=> i # 0)
  <2>1. x \in Slots
    BY <1>2, <1>5, <1>8 DEF Typed
  <2>2. s # NULL /\ s.key = k
    BY <1>2, <1>3, <1>5, <1>8 DEF Books
  <2>3. s \in L2tpSessions
    BY <1>3, <1>8, <2>1, <2>2 DEF Typed
  <2>4. s.mode = "ip" <=> i # 0
    BY <1>3, <1>4, <1>6, <2>1, <2>2 DEF L2tpInv
  <2> QED BY <1>4, <2>1, <2>2, <2>3, <2>4, L2tpFields
<1>10. /\ Typed(L2tpSessions, K, kind, l2tps', l2tpTable', l2tpOf', l2tpParked')
       /\ Books(kind, "l2tp", l2tps', l2tpTable', l2tpOf', l2tpParked')
  <2>1. Leads(l2tpTable, l2tps, k, x, i)
    BY <1>2, <1>3, <1>4, <1>5 DEF Leads
  <2>2. Upd(l2tps, l2tps', x, NULL) /\ Upd(l2tpTable, l2tpTable', k, 0)
    BY <1>5 DEF Upd
  <2>3. CASE s.mode = "ip"
    <3>1. Retired(kind, kind, l2tpParked, l2tpParked', i) /\ Upd(l2tpOf, l2tpOf', i, 0) /\ i # 0
      BY <2>3, <1>5, <1>9 DEF Retired, Upd
    <3>2. "l2tp" \in Plugins /\ k \in K
      BY <1>8, Basics
    <3> QED BY <2>1, <2>2, <3>1, <3>2, <1>8, BooksDel
  <2>4. CASE s.mode # "ip"
    <3>1. i = 0 /\ l2tpParked' = l2tpParked /\ l2tpOf' = l2tpOf /\ k \in K
      BY <2>4, <1>5, <1>8, <1>9
    <3> QED BY <2>1, <2>2, <3>1, <1>8, BooksDelRaw
  <2> QED BY <2>3, <2>4
<1>11. \A r : r \in routes' <=> r \in routes /\ ~Leased("l2tp", s, r)
  BY <1>5, InPathsOf
<1>12. UNCHANGED <<ipoes, ipoeTable, ipoeOf, ipoeOn, pppoes, pppoeTable, pppoeOf, pppoeParked,
                   lacCount, bridges>>
  BY DEF ipoeVars, pppoeVars
<1>13. Shared' /\ Parented'
  <2>1. routes' \subseteq
          [src : Plugins, vrf : Vrfs, kind : Kinds, prefix : Prefixes, via : Ifs]
    BY <1>6, <1>11 DEF Shared
  <2>2. Shared'
    BY <1>5, <1>6, <1>12, <2>1 DEF Shared
  <2> QED BY <2>2, <1>5, <1>6, <1>12 DEF Parented
<1>14. l2tps'[x] = NULL /\ \A y \in Slots : y # x => l2tps'[y] = l2tps[y]
  BY <1>5, <1>8, <1>9
<1>15. L2tpInv'
  <2>1. Backed(routes', careful, "l2tp", l2tps')
    <3>1. Backed(routes, careful, "l2tp", l2tps)
      BY <1>6 DEF L2tpInv
    <3>2. LeaseIfs(l2tps)
      BY <1>6, <1>8, BooksLeaseIfs DEF L2tpInv
    <3>3. /\ routes' \subseteq routes
          /\ \A r \in routes : r \in routes' \/ (r.via = i /\ Leased("l2tp", s, r))
          /\ \A r \in routes' : ~Leased("l2tp", s, r)
      BY <1>4, <1>11, LeasedFields
    <3> QED BY <3>1, <3>2, <3>3, <1>3, <1>4, <1>5, <1>8, <1>9, BackedDel
  <2>2. \A y \in Slots : l2tps'[y] # NULL => l2tps'[y] = l2tps[y] /\ l2tps[y] # NULL
    BY <1>14
  <2> QED BY <2>1, <2>2, <1>5, <1>6, <1>7, <1>10 DEF L2tpInv
<1>16. IpoeInv' /\ PppoeInv'
  <2>1. \A r : r.src # "l2tp" => (r \in routes <=> r \in routes')
    BY <1>11, LeasedFields
  <2>2. careful => \A y \in Slots : ipoes[y] # NULL => ipoes[y].key.encap \in encaps'
    BY <1>5, <1>6 DEF IpoeInv
  <2>3. careful => \A y \in Slots : pppoes[y] # NULL => pppoes[y].encap \in encaps'
    BY <1>5, <1>6 DEF PppoeInv
  <2> QED BY <2>1, <2>2, <2>3, <1>5, <1>6, <1>12, <1>13, IpoeFramed, PppoeFramed
<1>17. TunnelInv'
  <2>1. l2tps[x] # NULL /\ l2tps[x].key[1] = t
    BY <1>1, <1>3, <1>9
  <2> QED BY <2>1, <1>5, <1>6, <1>9, TunnelTake
<1>18. BridgeInv'
  <2>1. /\ bridges \subseteq PppoeKeys \X (TunnelKeys \X SessionIds)
        /\ ~careful => bridges = {}
        /\ \A b \in bridges : Joined(b[1], b[2])
    BY <1>6 DEF BridgeInv
  <2>2. \A b \in bridges : Joined(b[1], b[2])'
    <3> TAKE b \in bridges
    <3>1. PICK c \in PppoeKeys, l \in K : c = b[1] /\ l = b[2]
      BY <2>1, <1>7
    <3>2. Joined(c, l) /\ l # k
      BY <3>1, <2>1, <1>1
    <3>3. l2tpTable'[l] = l2tpTable[l] /\ l2tpTable[l] \in Slots
      BY <3>2, <1>5, <1>8 DEF Joined, Typed
    <3>4. l2tpTable[l] # x
      <4>1. l2tps[l2tpTable[l]].key = l
        BY <3>2, <1>8 DEF Joined, Books
      <4> QED BY <4>1, <3>2, <1>3, <1>9
    <3>5. l2tps'[l2tpTable'[l]] = l2tps[l2tpTable[l]]
      BY <3>3, <3>4, <1>14
    <3>6. Joined(c, l)'
      BY <3>2, <3>3, <3>5, <1>12 DEF Joined
    <3> QED BY <3>1, <3>6
  <2>3. Bridged' = Bridged
    BY <1>12 DEF Bridged
  <2> QED BY <2>2, <2>3, <1>5, <1>6, <1>12 DEF BridgeInv
<1> QED BY <1>13, <1>15, <1>16, <1>17, <1>18 DEF Inv

\* A lease changes nothing that a tunnel or a bridge depends on.
LEMMA TunnelKept ==
  ASSUME TunnelInv, UNCHANGED <<tunnels, tunnelTable>>,
         \A y \in Slots : l2tps'[y] # NULL <=> l2tps[y] # NULL,
         \A y \in Slots : l2tps[y] # NULL =>
           l2tps'[y].tunnel = l2tps[y].tunnel /\ l2tps'[y].key = l2tps[y].key
  PROVE  TunnelInv'
<1>1. \A z : Users(z)' = Users(z)
  BY DEF Users
<1> QED BY <1>1 DEF TunnelInv

LEMMA L2tpSetStep ==
  ASSUME Inv, NEW i \in Ifs, NEW p \in Prefixes, NEW add \in BOOLEAN, NEW k \in Kinds,
         l2tpOf[i] # 0,
         IF add THEN LeaseAdd("l2tp", l2tps[l2tpOf[i]], k, p)
                ELSE LeaseDel("l2tp", l2tps[l2tpOf[i]], k, p),
         L2tpLease(i, k, IF add THEN p ELSE NULL), UNCHANGED <<ipoeVars, pppoeVars, bridges>>
  PROVE  Inv'
<1>1. PICK x : x = l2tpOf[i]
  OBVIOUS
<1>2. PICK q : q = IF add THEN p ELSE NULL
  OBVIOUS
<1>3. PICK s : s = [l2tps[x] EXCEPT !.lease[k] = q]
  OBVIOUS
<1>4. Shared /\ Parented /\ IpoeInv /\ PppoeInv /\ L2tpInv /\ TunnelInv /\ BridgeInv
  BY DEF Inv
<1>0. PICK K : K = TunnelKeys \X SessionIds
  OBVIOUS
<1>5. /\ Typed(L2tpSessions, K, kind, l2tps, l2tpTable, l2tpOf, l2tpParked)
      /\ Books(kind, "l2tp", l2tps, l2tpTable, l2tpOf, l2tpParked)
      /\ DOMAIN l2tps = Slots
  BY <1>0, <1>4 DEF L2tpInv, Typed
<1>6. /\ x \in Slots /\ l2tps[x] # NULL /\ l2tps[x].sw = i /\ l2tps[x] \in L2tpSessions
      /\ l2tps[x].vrf \in Vrfs /\ l2tps[x].lease \in Leases
  <2>1. x \in Slots
    BY <1>1, <1>5 DEF Typed
  <2>2. l2tps[x] # NULL /\ l2tps[x].sw = i
    BY <1>1, <1>5 DEF Books
  <2>3. l2tps[x] \in L2tpSessions
    BY <1>5, <2>1, <2>2 DEF Typed
  <2> QED BY <2>1, <2>2, <2>3, L2tpFields
<1>7. PICK old : /\ careful => old = l2tps[x].lease[k]
                 /\ Rerouted(routes, routes', "l2tp", l2tps[x], k, old, q)
  BY <1>1, <1>2, <1>4, <1>6, LeaseEffect, Basics
<1>8. /\ routes' \subseteq
           [src : Plugins, vrf : Vrfs, kind : Kinds, prefix : Prefixes, via : Ifs]
      /\ \A r : r.src # "l2tp" => (r \in routes <=> r \in routes')
      /\ q \in Prefixes \cup {NULL}
  BY <1>1, <1>2, <1>4, <1>6, LeaseEffect, Basics
<1>9. /\ s \in L2tpSessions /\ s # NULL /\ s.key = l2tps[x].key /\ s.sw = l2tps[x].sw
      /\ s.tunnel = l2tps[x].tunnel /\ s.mode = l2tps[x].mode /\ s.opaque = l2tps[x].opaque
      /\ s.vrf = l2tps[x].vrf /\ s.lease[k] = q
      /\ \A j \in Kinds : j # k => s.lease[j] = l2tps[x].lease[j]
  <2>1. [l2tps[x].lease EXCEPT ![k] = q] \in Leases
    BY <1>6, <1>8 DEF Leases
  <2>2. s = [l2tps[x] EXCEPT !.lease = [l2tps[x].lease EXCEPT ![k] = q]]
    BY <1>3
  <2>3. PICK le \in Leases : le = [l2tps[x].lease EXCEPT ![k] = q]
    BY <2>1
  <2>4. /\ s \in L2tpSessions /\ s.key = l2tps[x].key /\ s.sw = l2tps[x].sw
        /\ s.tunnel = l2tps[x].tunnel /\ s.mode = l2tps[x].mode /\ s.opaque = l2tps[x].opaque
        /\ s.vrf = l2tps[x].vrf /\ s.lease = le
    BY <1>6, <2>2, <2>3 DEF L2tpSessions
  <2> QED BY <2>3, <2>4, <1>6, Basics DEF Leases
<1>10. /\ l2tps' = [l2tps EXCEPT ![x] = s]
       /\ UNCHANGED <<tunnels, tunnelTable, l2tpTable, l2tpOf, l2tpParked, encaps, kind, parent,
                      vrf, careful, plugins, limit>>
  BY <1>1, <1>2, <1>3 DEF L2tpLease
<1>11. UNCHANGED <<ipoes, ipoeTable, ipoeOf, ipoeOn, pppoes, pppoeTable, pppoeOf, pppoeParked,
                   lacCount, bridges>>
  BY DEF ipoeVars, pppoeVars
<1>12. Shared' /\ Parented'
  BY <1>4, <1>8, <1>10, <1>11 DEF Shared, Parented
<1>13. l2tps'[x] = s /\ \A y \in Slots : y # x => l2tps'[y] = l2tps[y]
  BY <1>5, <1>6, <1>10
<1>14. L2tpInv'
  <2>1. /\ Typed(L2tpSessions, K, kind, l2tps', l2tpTable, l2tpOf, l2tpParked)
        /\ Books(kind, "l2tp", l2tps', l2tpTable, l2tpOf, l2tpParked)
    BY <1>5, <1>6, <1>9, <1>10, BooksSet
  <2>2. LeaseIfs(l2tps)
    BY <1>4, <1>5, BooksLeaseIfs DEF L2tpInv
  <2>3. Backed(routes', careful, "l2tp", l2tps')
    <3>1. Backed(routes, careful, "l2tp", l2tps) /\ s.sw # 0
      BY <1>4, <1>6, <1>9, Basics DEF L2tpInv
    <3>2. Upd(l2tps, l2tps', x, s)
      BY <1>10 DEF Upd
    <3>3. Released(s, l2tps[x], k, q)
      BY <3>1, <1>9 DEF Released
    <3> QED BY <3>1, <3>2, <3>3, <2>2, <1>5, <1>6, <1>7, BackedLease
  <2>4. ASSUME NEW y \in Slots, l2tps'[y] # NULL
        PROVE  /\ "l2tp" \in plugins
               /\ l2tps'[y].mode = "ip" <=> l2tps'[y].sw # 0
               /\ l2tps'[y].sw = 0 => \A j \in Kinds : l2tps'[y].lease[j] = NULL
    <3>1. CASE y = x
      <4>1. s.sw # 0 /\ "l2tp" \in plugins /\ s.mode = "ip"
        BY <1>4, <1>6, <1>9, Basics DEF L2tpInv
      <4> QED BY <3>1, <4>1, <1>13
    <3>2. CASE y # x
      BY <3>2, <2>4, <1>4, <1>13 DEF L2tpInv
    <3> QED BY <3>1, <3>2
  <2> QED BY <2>1, <2>3, <2>4, <1>0, <1>10 DEF L2tpInv
<1>15. IpoeInv' /\ PppoeInv'
  <2>1. careful => \A y \in Slots : ipoes[y] # NULL => ipoes[y].key.encap \in encaps'
    BY <1>4, <1>10 DEF IpoeInv
  <2>2. careful => \A y \in Slots : pppoes[y] # NULL => pppoes[y].encap \in encaps'
    BY <1>4, <1>10 DEF PppoeInv
  <2> QED BY <2>1, <2>2, <1>4, <1>8, <1>10, <1>11, <1>12, IpoeFramed, PppoeFramed
<1>16. \A y \in Slots : /\ l2tps'[y] # NULL <=> l2tps[y] # NULL
                        /\ l2tps[y] # NULL =>
                             /\ l2tps'[y].tunnel = l2tps[y].tunnel /\ l2tps'[y].key = l2tps[y].key
                             /\ l2tps'[y].mode = l2tps[y].mode
                             /\ l2tps'[y].opaque = l2tps[y].opaque
  BY <1>6, <1>9, <1>13
<1>17. TunnelInv'
  BY <1>4, <1>10, <1>16, TunnelKept
<1>18. BridgeInv'
  BY <1>4, <1>10, <1>11, <1>16, BridgeKept
<1> QED BY <1>12, <1>14, <1>15, <1>17, <1>18 DEF Inv

LEMMA L2tpStep ==
  ASSUME Inv, L2tp
  PROVE  Inv'
<1>1. "v4" \in Kinds /\ "v6" \in Kinds /\ "pd" \in Kinds
  BY DEF Kinds
<1>2. "l2tp" \in plugins /\ UNCHANGED <<ipoeVars, pppoeVars, bridges>>
  BY DEF L2tp
<1>3. ASSUME NEW i \in Ifs, NEW p \in Prefixes, NEW add \in BOOLEAN,
             L2tpSetIpv4(i, p, add) \/ L2tpSetIpv6(i, p, add) \/ L2tpSetPrefix(i, p, add)
      PROVE  Inv'
  <2>1. ASSUME NEW k \in Kinds, l2tpOf[i] # 0,
               IF add THEN LeaseAdd("l2tp", l2tps[l2tpOf[i]], k, p)
                      ELSE LeaseDel("l2tp", l2tps[l2tpOf[i]], k, p),
               L2tpLease(i, k, IF add THEN p ELSE NULL)
        PROVE  Inv'
    BY <1>2, <2>1, L2tpSetStep
  <2>2. CASE L2tpSetIpv4(i, p, add)
    BY <2>1, <2>2, <1>1 DEF L2tpSetIpv4
  <2>3. CASE L2tpSetIpv6(i, p, add)
    BY <2>1, <2>3, <1>1 DEF L2tpSetIpv6
  <2>4. CASE L2tpSetPrefix(i, p, add)
    BY <2>1, <2>4, <1>1 DEF L2tpSetPrefix
  <2> QED BY <1>3, <2>2, <2>3, <2>4
<1>4. ASSUME NEW t \in TunnelKeys, TunnelAdd(t) \/ TunnelDel(t) PROVE Inv'
  BY <1>2, <1>4, TunnelAddStep, TunnelDelStep
<1>5. ASSUME NEW t \in TunnelKeys, NEW id \in SessionIds,
             \/ \E v \in Vrfs : L2tpAddIp(t, id, v)
             \/ \E i \in Ifs : L2tpAddRaw(t, id, i)
             \/ (careful => \A b \in bridges : b[2] # <<t, id>>) /\ L2tpDel(t, id)
      PROVE  Inv'
  <2>1. CASE \E v \in Vrfs : L2tpAddIp(t, id, v)
    BY <2>1, <1>2, L2tpAddIpStep
  <2>2. CASE \E i \in Ifs : L2tpAddRaw(t, id, i)
    BY <2>2, <1>2, L2tpAddRawStep
  <2>3. CASE (careful => \A b \in bridges : b[2] # <<t, id>>) /\ L2tpDel(t, id)
    BY <2>3, <1>2, L2tpDelStep
  <2> QED BY <1>5, <2>1, <2>2, <2>3
<1> QED BY <1>3, <1>4, <1>5 DEF L2tp
-----------------------------------------------------------------------------
\* An interface that subscribers are behind comes or goes.
LEMMA EncapStep ==
  ASSUME Inv, NEW e \in Encaps, CreateEncap(e) \/ DeleteEncap(e)
  PROVE  Inv'
<1>1. Shared /\ Parented /\ IpoeInv /\ PppoeInv /\ L2tpInv /\ TunnelInv /\ BridgeInv
  BY DEF Inv
<1>2. UNCHANGED <<kind, parent, vrf, routes, careful, plugins, limit,
                  ipoes, ipoeTable, ipoeOf, ipoeOn, pppoes, pppoeTable, pppoeOf, pppoeParked,
                  lacCount, tunnels, tunnelTable, l2tps, l2tpTable, l2tpOf, l2tpParked, bridges>>
  BY DEF CreateEncap, DeleteEncap, EncapCreate, EncapDelete, ipoeVars, pppoeVars, l2tpVars
<1>3. /\ encaps' \subseteq Encaps
      /\ careful => /\ \A x \in Slots : ipoes[x] # NULL /\ ipoes[x].key.encap \in encaps =>
                                        ipoes[x].key.encap \in encaps'
                    /\ \A x \in Slots : pppoes[x] # NULL /\ pppoes[x].encap \in encaps =>
                                        pppoes[x].encap \in encaps'
  <2>1. CASE CreateEncap(e)
    BY <1>1, <2>1 DEF CreateEncap, EncapCreate, Shared
  <2>2. CASE DeleteEncap(e)
    BY <1>1, <2>2 DEF DeleteEncap, EncapDelete, Shared, Live
  <2> QED BY <2>1, <2>2
<1>4. Shared' /\ Parented'
  BY <1>1, <1>2, <1>3 DEF Shared, Parented
<1>5. IpoeInv' /\ PppoeInv' /\ L2tpInv'
  <2>1. careful => \A x \in Slots : ipoes[x] # NULL => ipoes[x].key.encap \in encaps'
    BY <1>1, <1>3 DEF IpoeInv
  <2>2. careful => \A x \in Slots : pppoes[x] # NULL => pppoes[x].encap \in encaps'
    BY <1>1, <1>3 DEF PppoeInv
  <2> QED BY <2>1, <2>2, <1>1, <1>2, <1>4, IpoeFramed, PppoeFramed, L2tpFramed
<1>6. TunnelInv' /\ BridgeInv'
  BY <1>1, <1>2, TunnelFramed, BridgeFramed
<1> QED BY <1>4, <1>5, <1>6 DEF Inv

LEMMA NextInv == Inv /\ [Next]_vars => Inv'
<1> SUFFICES ASSUME Inv, [Next]_vars PROVE Inv'
  OBVIOUS
<1>1. CASE Next
  BY <1>1, IpoeStep, PppoeStep, L2tpStep, EncapStep DEF Next
<1>2. CASE UNCHANGED vars
  <2>1. UNCHANGED <<encaps, kind, parent, vrf, routes, careful, plugins, limit,
                    ipoes, ipoeTable, ipoeOf, ipoeOn, pppoes, pppoeTable, pppoeOf, pppoeParked,
                    lacCount, tunnels, tunnelTable, l2tps, l2tpTable, l2tpOf, l2tpParked, bridges>>
    BY <1>2 DEF vars, ifVars, ipoeVars, pppoeVars, l2tpVars
  <2>2. Shared' /\ Parented' /\ IpoeInv' /\ PppoeInv' /\ L2tpInv'
    BY <2>1 DEF Inv, Shared, Parented, IpoeInv, PppoeInv, L2tpInv
  <2>3. TunnelInv' /\ BridgeInv'
    BY <2>1, TunnelFramed, BridgeFramed DEF Inv
  <2> QED BY <2>2, <2>3 DEF Inv
<1> QED BY <1>1, <1>2
-----------------------------------------------------------------------------
\* The invariant of the session plugins, for any number of interfaces, slots,
\* subscribers, tunnels and prefixes, and any client.
THEOREM SubscribersInvariant == Spec => []Inv
<1> QED BY InitInv, NextInv, PTL DEF Spec

\* The state of the session plugins keeps its shape.
THEOREM SubscribersTyped == Spec => []TypeOK
<1> QED BY SubscribersInvariant, InvTypes, PTL

\* Session by key, session by interface, parked interfaces and tunnels agree
\* after every call (osvbng_ipoe.c:212, osvbng_pppoe.c:515,
\* l2tpv2_session.c:70 and 248).
THEOREM SessionsAlwaysResolve == Spec => []SessionsResolve
<1> QED BY SubscribersInvariant, InvResolves, PTL

\* A leased prefix is routed through its session's interface, and with a
\* careful client nothing else is (osvbng_pppoe.c:541, l2tpv2_session.c:258).
THEOREM RoutesAlwaysOwned == Spec => []RoutesOwned
<1> QED BY SubscribersInvariant, InvRoutes, PTL

\* A careful client's bridge joins the two sessions it was made for, both
\* ways, and the count of bridged sessions is exact for any client
\* (osvbng_pppoe.c:956).
THEOREM BridgesAlwaysJoin == Spec => []BridgeBothWays
<1> QED BY SubscribersInvariant, InvBridges, PTL

\* A recycled interface has nothing of its last session's (osvbng_pppoe.c:541).
THEOREM InterfacesAlwaysFresh == Spec => []InterfacesFresh
<1> QED BY SubscribersInvariant, InvFresh, PTL

\* What a subscriber answers comes in on the session's interface, but for a
\* session of an S-VLAN without a C-VLAN, whose subscriber is never heard
\* (osvbng_ipoe_input.c:52).
THEOREM AnswersAlwaysFound == Spec => []AnswersFound
<1> QED BY SubscribersInvariant, InvAnswers, PTL
=============================================================================
