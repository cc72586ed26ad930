-------------------------- MODULE CakeOwnerProofs --------------------------
(***************************************************************************)
(* The flow queues and the ownership of schedulers, for any number of      *)
(* threads, interfaces, tins, sets, ways and hosts, and any traffic.       *)
(***************************************************************************)
EXTENDS CakeOwner, FiniteSums, SequenceTheorems

-----------------------------------------------------------------------------
(* The inductive invariant. *)

\* A thread visits only schedulers that are in its bitmap, and has no packet in
\* its enqueue node then.
Walks == \A t \in Threads : /\ walk[t] \subseteq active[t]
                            /\ walk[t] # {} => doing[t] = Idle

\* A packet whose scheduler was seen unowned still finds one.
Claims == \A t \in Threads : doing[t].step = "claim" => schedOf[doing[t].on] # None

\* Interfaces lead to live schedulers, one to one.
Attached ==
  /\ \A i \in Ifaces : schedOf[i] # None => schedOf[i] \in Live
  /\ \A i, j \in Ifaces : schedOf[i] # None /\ schedOf[i] = schedOf[j] => i = j

OwnerInv == FlowsWhole /\ OwnerServes /\ Walks /\ Claims /\ Attached
-----------------------------------------------------------------------------
(* Numbers, sequences and sums. *)

LEMMA MinIn ==
  ASSUME NEW S \in SUBSET Nat, S # {}
  PROVE  Min(S) \in S /\ \A y \in S : Min(S) <= y
<1>1. \E x \in S : \A y \in S : x <= y
  BY LeastOf
<1> QED BY <1>1 DEF Min

LEMMA MaxIn ==
  ASSUME NEW n \in Nat, NEW S \in SUBSET (0..n), S # {}
  PROVE  Max(S) \in S /\ \A y \in S : Max(S) >= y
<1> DEFINE T == {n - x : x \in S}
<1>1. T \in SUBSET Nat /\ T # {}
  <2>1. \A x \in S : n - x \in Nat
    OBVIOUS
  <2> QED BY <2>1
<1>2. PICK m \in T : \A y \in T : m <= y
  BY <1>1, LeastOf
<1>3. PICK x \in S : m = n - x
  BY <1>2
<1>4. \A y \in S : x >= y
  <2>1. SUFFICES ASSUME NEW y \in S PROVE x >= y
    OBVIOUS
  <2>2. m <= n - y /\ x \in Nat /\ y \in Nat
    BY <1>2
  <2> QED BY <1>3, <2>2
<1> QED BY <1>4 DEF Max

\* What is left of a list without one of its elements.
LEMMA RemovedAt ==
  ASSUME NEW S, NEW l \in Seq(S), NEW k \in 1..Len(l)
  PROVE  /\ RemoveAt(l, k) \in Seq(S) /\ Len(RemoveAt(l, k)) = Len(l) - 1
         /\ \A i \in 1..(Len(l) - 1) :
              RemoveAt(l, k)[i] = IF i < k THEN l[i] ELSE l[i + 1]
<1> DEFINE a == SubSeq(l, 1, k - 1)
           b == SubSeq(l, k + 1, Len(l))
<1>1. Len(l) \in Nat /\ k \in Nat /\ 1 <= k /\ k <= Len(l)
  OBVIOUS
<1>2. /\ a \in Seq(S) /\ Len(a) = k - 1
      /\ \A i \in 1..(k - 1) : a[i] = l[i]
  BY <1>1
<1>3. /\ b \in Seq(S) /\ Len(b) = Len(l) - k
      /\ \A i \in 1..(Len(l) - k) : b[i] = l[i + k]
  BY <1>1
<1>4. RemoveAt(l, k) = a \o b
  BY DEF RemoveAt
<1> HIDE DEF a, b
<1>5. /\ a \o b \in Seq(S) /\ Len(a \o b) = Len(a) + Len(b)
      /\ \A i \in 1..(Len(a) + Len(b)) :
           (a \o b)[i] = IF i <= Len(a) THEN a[i] ELSE b[i - Len(a)]
  BY <1>2, <1>3, ConcatProperties
<1>6. ASSUME NEW i \in 1..(Len(l) - 1)
      PROVE  (a \o b)[i] = IF i < k THEN l[i] ELSE l[i + 1]
  <2>1. CASE i < k
    BY <1>1, <1>2, <1>3, <1>5, <2>1
  <2>2. CASE ~(i < k)
    <3>1. PICK j \in Int : j = i - (k - 1)
      BY <1>1
    <3>2. j \in 1..(Len(l) - k) /\ j + k = i + 1 /\ ~(i <= k - 1) /\ i \in 1..((k - 1) + (Len(l) - k))
      BY <1>1, <2>2, <3>1
    <3>3. (a \o b)[i] = b[j]
      BY <1>2, <1>3, <1>5, <3>1, <3>2
    <3> QED BY <1>3, <2>2, <3>2, <3>3
  <2> QED BY <2>1, <2>2
<1> QED BY <1>1, <1>2, <1>3, <1>4, <1>5, <1>6

LEMMA Removed ==
  ASSUME NEW S, NEW l \in Seq(S), IsInjective(l), NEW e
  PROVE  /\ RemoveFirst(l, e) \in Seq(S) /\ IsInjective(RemoveFirst(l, e))
         /\ ToSet(RemoveFirst(l, e)) = ToSet(l) \ {e}
         /\ Len(RemoveFirst(l, e)) = Len(l) - (IF e \in ToSet(l) THEN 1 ELSE 0)
<1>0. DOMAIN l = 1..Len(l) /\ Len(l) \in Nat
  OBVIOUS
<1>1. CASE e \notin ToSet(l)
  <2>1. RemoveFirst(l, e) = l
    BY <1>0, <1>1 DEF RemoveFirst, ToSet
  <2> QED BY <1>0, <1>1, <2>1
<1>2. CASE e \in ToSet(l)
  <2>1. PICK k \in 1..Len(l) : l[k] = e
    BY <1>0, <1>2 DEF ToSet
  <2>2. {i \in 1..Len(l) : l[i] = e} = {k}
    BY <1>0, <2>1 DEF IsInjective
  <2>3. Min({k}) = k
    <3>1. {k} \in SUBSET Nat /\ {k} # {}
      OBVIOUS
    <3>2. Min({k}) \in {k}
      BY <3>1, MinIn
    <3> QED BY <3>2
  <2>4. RemoveFirst(l, e) = RemoveAt(l, k)
    BY <2>1, <2>2, <2>3 DEF RemoveFirst, SelectInSeq
  <2>5. PICK r : r = RemoveAt(l, k)
    OBVIOUS
  <2>6. /\ r \in Seq(S) /\ Len(r) = Len(l) - 1 /\ DOMAIN r = 1..(Len(l) - 1)
        /\ \A i \in 1..(Len(l) - 1) : r[i] = IF i < k THEN l[i] ELSE l[i + 1]
    <3>1. DOMAIN r = 1..Len(r) /\ Len(r) = Len(l) - 1 /\ r \in Seq(S)
      BY <2>5, RemovedAt
    <3>2. \A i \in 1..(Len(l) - 1) : r[i] = IF i < k THEN l[i] ELSE l[i + 1]
      BY <2>5, RemovedAt
    <3> QED BY <3>1, <3>2
  <2>7. IsInjective(r)
    <3>1. SUFFICES ASSUME NEW i \in 1..(Len(l) - 1), NEW j \in 1..(Len(l) - 1), r[i] = r[j]
                   PROVE  i = j
      BY <2>6 DEF IsInjective
    <3>2. \A x, y \in 1..Len(l) : l[x] = l[y] => x = y
      BY <1>0 DEF IsInjective
    <3>3. i + 1 \in 1..Len(l) /\ j + 1 \in 1..Len(l) /\ i \in 1..Len(l) /\ j \in 1..Len(l)
      BY <1>0
    <3> QED BY <1>0, <2>6, <3>1, <3>2, <3>3
  <2>8. ToSet(r) = ToSet(l) \ {e}
    <3>1. ASSUME NEW i \in 1..(Len(l) - 1) PROVE r[i] \in ToSet(l) /\ r[i] # e
      <4>1. \A x, y \in 1..Len(l) : l[x] = l[y] => x = y
        BY <1>0 DEF IsInjective
      <4>2. i + 1 \in 1..Len(l) /\ i \in 1..Len(l)
        BY <1>0
      <4>3. PICK x \in 1..Len(l) : r[i] = l[x] /\ x # k
        BY <1>0, <2>6, <4>2
      <4> QED BY <1>0, <2>1, <4>1, <4>3 DEF ToSet
    <3>2. ASSUME NEW x \in 1..Len(l), l[x] # e PROVE \E i \in 1..(Len(l) - 1) : r[i] = l[x]
      <4>1. CASE x < k
        BY <1>0, <2>6, <4>1
      <4>2. CASE x > k
        <5>1. x - 1 \in 1..(Len(l) - 1) /\ ~(x - 1 < k) /\ (x - 1) + 1 = x
          BY <1>0, <4>2
        <5>2. r[x - 1] = l[x]
          BY <2>6, <5>1
        <5> QED BY <5>1, <5>2
      <4>3. x # k
        BY <2>1, <3>2
      <4> QED BY <1>0, <4>1, <4>2, <4>3
    <3>3. ToSet(r) \subseteq ToSet(l) \ {e}
      BY <2>6, <3>1 DEF ToSet
    <3>4. ASSUME NEW y \in ToSet(l) \ {e} PROVE y \in ToSet(r)
      <4>1. PICK x \in 1..Len(l) : y = l[x]
        BY <1>0 DEF ToSet
      <4> QED BY <2>6, <3>2, <4>1 DEF ToSet
    <3> QED BY <3>3, <3>4
  <2> QED BY <1>0, <1>2, <2>4, <2>5, <2>6, <2>7, <2>8
<1> QED BY <1>1, <1>2

\* A list with one element more at its end, or at its head.
LEMMA Appended ==
  ASSUME NEW S, NEW l \in Seq(S), IsInjective(l), NEW e \in S, e \notin ToSet(l)
  PROVE  /\ Append(l, e) \in Seq(S) /\ IsInjective(Append(l, e))
         /\ ToSet(Append(l, e)) = ToSet(l) \cup {e} /\ Len(Append(l, e)) = Len(l) + 1
<1>1. PICK r : r = Append(l, e)
  OBVIOUS
<1>2. /\ r \in Seq(S) /\ Len(r) = Len(l) + 1 /\ DOMAIN r = 1..(Len(l) + 1)
      /\ Len(l) \in Nat /\ DOMAIN l = 1..Len(l)
      /\ \A i \in 1..Len(l) : r[i] = l[i]
      /\ r[Len(l) + 1] = e
  BY <1>1
<1>3. IsInjective(r)
  BY <1>2 DEF IsInjective, ToSet
<1>4. ToSet(r) = ToSet(l) \cup {e}
  BY <1>2 DEF ToSet
<1> QED BY <1>1, <1>2, <1>3, <1>4

LEMMA Prepended ==
  ASSUME NEW S, NEW l \in Seq(S), IsInjective(l), NEW e \in S, e \notin ToSet(l)
  PROVE  /\ <<e>> \o l \in Seq(S) /\ IsInjective(<<e>> \o l)
         /\ ToSet(<<e>> \o l) = ToSet(l) \cup {e} /\ Len(<<e>> \o l) = Len(l) + 1
<1>1. PICK r : r = <<e>> \o l
  OBVIOUS
<1>2. /\ r \in Seq(S) /\ Len(r) = Len(l) + 1 /\ DOMAIN r = 1..(Len(l) + 1)
      /\ Len(l) \in Nat /\ DOMAIN l = 1..Len(l)
      /\ r[1] = e
      /\ \A i \in 1..Len(l) : r[i + 1] = l[i]
  BY <1>1
<1>3. \A i \in 1..(Len(l) + 1) : i = 1 \/ (i - 1 \in 1..Len(l) /\ (i - 1) + 1 = i)
  BY <1>2
<1>4. \A i \in 1..(Len(l) + 1) : r[i] = IF i = 1 THEN e ELSE l[i - 1]
  BY <1>2, <1>3
<1>5. IsInjective(r)
  <2>1. SUFFICES ASSUME NEW i \in 1..(Len(l) + 1), NEW j \in 1..(Len(l) + 1), r[i] = r[j]
                 PROVE  i = j
    BY <1>2 DEF IsInjective
  <2>2. \A x \in 1..Len(l) : l[x] # e
    BY <1>2 DEF ToSet
  <2>3. CASE i = 1 \/ j = 1
    BY <1>3, <1>4, <2>1, <2>2, <2>3
  <2>4. CASE i # 1 /\ j # 1
    <3>1. l[i - 1] = l[j - 1] /\ i - 1 \in 1..Len(l) /\ j - 1 \in 1..Len(l)
      BY <1>3, <1>4, <2>1, <2>4
    <3>2. i - 1 = j - 1
      BY <1>2, <3>1 DEF IsInjective
    <3> QED BY <3>2
  <2> QED BY <2>3, <2>4
<1>6. ToSet(r) = ToSet(l) \cup {e}
  <2>1. \A i \in 1..(Len(l) + 1) : r[i] \in ToSet(l) \cup {e}
    BY <1>2, <1>3, <1>4 DEF ToSet
  <2>2. \A i \in 1..Len(l) : i + 1 \in 1..(Len(l) + 1) /\ r[i + 1] = l[i]
    BY <1>2
  <2>3. ToSet(r) \subseteq ToSet(l) \cup {e}
    BY <1>2, <2>1 DEF ToSet
  <2>4. \A i \in 1..Len(l) : l[i] \in ToSet(r)
    BY <1>2, <2>2 DEF ToSet
  <2>5. 1 \in 1..(Len(l) + 1)
    BY <1>2
  <2>6. e \in ToSet(r)
    BY <1>2, <2>5 DEF ToSet
  <2>7. ToSet(l) \subseteq ToSet(r)
    BY <1>2, <2>4 DEF ToSet
  <2> QED BY <2>3, <2>6, <2>7
<1> QED BY <1>1, <1>2, <1>5, <1>6

\* The bytes of a ring.
LEMMA BytesIs ==
  ASSUME NEW r \in Seq(Nat)
  PROVE  /\ Bytes(r) = SumFunctionOnSet(r, 1..Len(r)) /\ Bytes(r) \in Nat
         /\ IsFiniteSet(1..Len(r))
<1>1. DOMAIN r = 1..Len(r) /\ Len(r) \in Nat /\ \A i \in 1..Len(r) : r[i] \in Nat
  OBVIOUS
<1>2. IsFiniteSet(1..Len(r))
  BY <1>1, FS_Interval
<1>3. Bytes(r) = SumFunctionOnSet(r, 1..Len(r))
  BY <1>1 DEF Bytes, SumFunction
<1> QED BY <1>1, <1>2, <1>3, SumNat

LEMMA BytesEmpty == Bytes(<<>>) = 0
<1>1. <<>> \in Seq(Nat) /\ 1..Len(<<>>) = {}
  OBVIOUS
<1> QED BY <1>1, BytesIs, SumEmpty

LEMMA BytesAppend ==
  ASSUME NEW r \in Seq(Nat), NEW l \in Nat
  PROVE  Bytes(Append(r, l)) = Bytes(r) + l
<1>1. PICK q, n : q = Append(r, l) /\ n = Len(r)
  OBVIOUS
<1>2. /\ q \in Seq(Nat) /\ n \in Nat /\ Len(q) = n + 1 /\ q[n + 1] = l
      /\ \A i \in 1..n : q[i] = r[i]
  BY <1>1
<1>3. n + 1 \in 1..(n + 1) /\ (1..(n + 1)) \ {n + 1} = 1..n
  BY <1>2
<1>4. \A i \in 1..(n + 1) : q[i] \in Int
  BY <1>2
<1>5. Bytes(q) = SumFunctionOnSet(q, 1..(n + 1)) /\ IsFiniteSet(1..(n + 1))
  BY <1>2, BytesIs
<1>6. Bytes(r) = SumFunctionOnSet(r, 1..n) /\ IsFiniteSet(1..n) /\ Bytes(r) \in Nat
  BY <1>1, BytesIs
<1>7. SumFunctionOnSet(q, 1..(n + 1)) = q[n + 1] + SumFunctionOnSet(q, 1..n)
  <2>1. PICK S, e : S = 1..(n + 1) /\ e = n + 1
    OBVIOUS
  <2>2. IsFiniteSet(S) /\ e \in S /\ \A x \in S : q[x] \in Int
    BY <1>3, <1>4, <1>5, <2>1
  <2>3. SumFunctionOnSet(q, S) = q[e] + SumFunctionOnSet(q, S \ {e})
    BY ONLY <2>2, SumPick
  <2> QED BY <1>3, <2>1, <2>3
<1>8. SumFunctionOnSet(q, 1..n) = SumFunctionOnSet(r, 1..n)
  <2>1. PICK S : S = 1..n
    OBVIOUS
  <2>2. IsFiniteSet(S) /\ \A x \in S : q[x] = r[x]
    BY <1>2, <1>6, <2>1
  <2>3. SumFunctionOnSet(q, S) = SumFunctionOnSet(r, S)
    BY ONLY <2>2, SumSame
  <2> QED BY <2>1, <2>3
<1> QED BY <1>1, <1>2, <1>5, <1>6, <1>7, <1>8

\* The bytes of what is left when the first packet is taken: by the shortest
\* ring for which it were otherwise.
LEMMA BytesTail ==
  ASSUME NEW r \in Seq(Nat), r # <<>>
  PROVE  /\ Bytes(r) = Head(r) + Bytes(Tail(r)) /\ Head(r) \in Nat
         /\ Tail(r) \in Seq(Nat) /\ Len(Tail(r)) = Len(r) - 1
<1> DEFINE Good(q) == Bytes(q) = Head(q) + Bytes(Tail(q))
           Bad == {n \in Nat : \E q \in Seq(Nat) : q # <<>> /\ Len(q) = n /\ ~Good(q)}
<1>1. SUFFICES ASSUME ~Good(r) PROVE FALSE
  OBVIOUS
<1>2. Len(r) \in Bad
  BY <1>1
<1>3. PICK n \in Bad : \A m \in Bad : n <= m
  <2>1. Bad \in SUBSET Nat /\ Bad # {}
    BY <1>2
  <2> QED BY <2>1, LeastOf
<1>4. PICK q \in Seq(Nat) : q # <<>> /\ Len(q) = n /\ ~Good(q)
  BY <1>3
<1>5. \A u \in Seq(Nat) : u # <<>> /\ Len(u) < n => Good(u)
  <2>1. SUFFICES ASSUME NEW u \in Seq(Nat), u # <<>>, Len(u) < n, ~Good(u) PROVE FALSE
    OBVIOUS
  <2>2. Len(u) \in Bad
    BY <2>1
  <2> QED BY <1>3, <2>1, <2>2
<1>6. PICK u \in Seq(Nat), l \in Nat : q = Append(u, l)
  BY <1>4, SequenceEmptyOrAppend
<1> HIDE DEF Good, Bad
<1>7. Bytes(q) = Bytes(u) + l /\ Bytes(u) \in Nat
  BY <1>6, BytesAppend, BytesIs
<1>8. CASE u = <<>>
  <2>1. Head(q) = l /\ Tail(q) = <<>>
    BY <1>6, <1>8
  <2>2. Bytes(u) = 0 /\ Bytes(Tail(q)) = 0
    BY <1>8, <2>1, BytesEmpty
  <2> QED BY <1>4, <1>7, <2>1, <2>2 DEF Good
<1>9. CASE u # <<>>
  <2>1. Head(q) = Head(u) /\ Tail(q) = Append(Tail(u), l)
    BY <1>6, <1>9, HeadTailAppend
  <2>0. Tail(u) \in Seq(Nat) /\ Len(u) < n
    BY <1>4, <1>6, <1>9
  <2>2. Bytes(u) = Head(u) + Bytes(Tail(u))
    BY <1>5, <1>9, <2>0 DEF Good
  <2>3. Bytes(Tail(q)) = Bytes(Tail(u)) + l /\ Bytes(Tail(u)) \in Nat
    BY <2>0, <2>1, BytesAppend, BytesIs
  <2>4. Head(u) \in Nat
    BY <1>9
  <2>5. PICK a, b, c, d : a = Bytes(q) /\ b = Bytes(Tail(q)) /\ c = Bytes(Tail(u)) /\ d = Head(u)
    OBVIOUS
  <2>6. a = d + b
    <3>1. a = (d + c) + l
      BY <1>7, <2>2, <2>5
    <3>2. b = c + l /\ c \in Nat
      BY <2>3, <2>5
    <3>3. d \in Nat
      BY <2>4, <2>5
    <3> QED BY <3>1, <3>2, <3>3
  <2>7. Good(q)
    BY <2>1, <2>5, <2>6 DEF Good
  <2> QED BY <1>4, <2>7
<1> QED BY <1>8, <1>9

\* Two parts of a set that differ in one element.
LEMMA CardMoved ==
  ASSUME NEW Q, IsFiniteSet(Q), NEW i \in Q, NEW A \in SUBSET Q, NEW B \in SUBSET Q,
         A \ {i} = B \ {i}
  PROVE  /\ Cardinality(A) \in Nat /\ Cardinality(B) \in Nat
         /\ Cardinality(B) = Cardinality(A) - (IF i \in A THEN 1 ELSE 0)
                                            + (IF i \in B THEN 1 ELSE 0)
<1>1. IsFiniteSet(A) /\ IsFiniteSet(B)
  BY FS_Subset
<1>2. Cardinality(A) \in Nat /\ Cardinality(B) \in Nat
  BY <1>1, FS_CardinalityType
<1>3. \A C : IsFiniteSet(C) /\ i \in C => Cardinality(C \ {i}) = Cardinality(C) - 1
  BY FS_RemoveElement
<1>4. \A C : i \notin C => C \ {i} = C
  OBVIOUS
<1> DEFINE c == Cardinality(A \ {i})
<1>5. c = Cardinality(A) - (IF i \in A THEN 1 ELSE 0)
  BY <1>1, <1>2, <1>3, <1>4
<1>6. c = Cardinality(B) - (IF i \in B THEN 1 ELSE 0)
  BY <1>1, <1>2, <1>3, <1>4
<1> HIDE DEF c
<1> QED BY <1>2, <1>5, <1>6
-----------------------------------------------------------------------------
(* One tin. *)

\* List l has the n flows in state x, each once.
ListIs(l, n, F, x) ==
  /\ l \in Seq(Queues) /\ IsInjective(l)
  /\ ToSet(l) = {i \in Queues : F[i].state = x} /\ n = Len(l)

\* F and G differ at flow i only.
Others(F, G, i) == \A j \in Queues \ {i} : F[j] = G[j]

LEMMA ListDrop ==
  ASSUME NEW l, NEW n, NEW F, NEW G, NEW x, NEW i \in Queues, Others(F, G, i),
         ListIs(l, n, F, x), G[i].state # x
  PROVE  /\ ListIs(RemoveFirst(l, i), n - (IF F[i].state = x THEN 1 ELSE 0), G, x)
         /\ n - (IF F[i].state = x THEN 1 ELSE 0) \in Nat
<1>1. l \in Seq(Queues) /\ IsInjective(l) /\ n = Len(l) /\ n \in Nat
  BY DEF ListIs
<1>2. i \in ToSet(l) <=> F[i].state = x
  BY DEF ListIs
<1>3. PICK r : r = RemoveFirst(l, i)
  OBVIOUS
<1>4. /\ r \in Seq(Queues) /\ IsInjective(r) /\ ToSet(r) = ToSet(l) \ {i}
      /\ Len(r) = Len(l) - (IF i \in ToSet(l) THEN 1 ELSE 0)
  BY <1>1, <1>3, Removed
<1>5. ToSet(r) = {j \in Queues : G[j].state = x}
  BY <1>4 DEF ListIs, Others
<1>6. Len(r) \in Nat
  BY <1>4
<1> QED BY <1>1, <1>2, <1>3, <1>4, <1>5, <1>6 DEF ListIs

\* The same, by the count that is left.
LEMMA ListLess ==
  ASSUME NEW l, NEW n, NEW F, NEW G, NEW x, NEW i \in Queues, Others(F, G, i),
         ListIs(l, n, F, x), G[i].state # x,
         NEW m, m = IF F[i].state = x THEN n - 1 ELSE n
  PROVE  ListIs(RemoveFirst(l, i), m, G, x)
<1>1. ListIs(RemoveFirst(l, i), n - (IF F[i].state = x THEN 1 ELSE 0), G, x)
  BY ListDrop
<1>2. n \in Nat
  BY DEF ListIs
<1>3. m = n - (IF F[i].state = x THEN 1 ELSE 0)
  BY <1>2
<1> QED BY <1>1, <1>3

LEMMA ListJoin ==
  ASSUME NEW l, NEW n, NEW F, NEW G, NEW x, NEW i \in Queues, Others(F, G, i),
         ListIs(l, n, F, x), F[i].state # x, G[i].state = x
  PROVE  /\ ListIs(Append(l, i), n + 1, G, x) /\ ListIs(<<i>> \o l, n + 1, G, x)
         /\ n + 1 \in Nat
<1>1. l \in Seq(Queues) /\ IsInjective(l) /\ n = Len(l) /\ n \in Nat
  BY DEF ListIs
<1>2. i \notin ToSet(l)
  BY DEF ListIs
<1>3. {j \in Queues : G[j].state = x} = ToSet(l) \cup {i}
  BY DEF ListIs, Others
<1>4. ListIs(Append(l, i), n + 1, G, x)
  BY <1>1, <1>2, <1>3, Appended DEF ListIs
<1>5. ListIs(<<i>> \o l, n + 1, G, x)
  BY <1>1, <1>2, <1>3, Prepended DEF ListIs
<1> QED BY <1>1, <1>4, <1>5

LEMMA ListKeep ==
  ASSUME NEW l, NEW n, NEW F, NEW G, NEW x, NEW i \in Queues, Others(F, G, i),
         ListIs(l, n, F, x), F[i].state = x <=> G[i].state = x
  PROVE  ListIs(l, n, G, x) /\ n \in Nat
<1>1. {j \in Queues : G[j].state = x} = {j \in Queues : F[j].state = x}
  BY DEF Others
<1> QED BY <1>1 DEF ListIs

\* A flow goes to the tail of its list.
LEMMA ListTurn ==
  ASSUME NEW l, NEW n, NEW F, NEW G, NEW x, NEW i \in Queues, Others(F, G, i),
         ListIs(l, n, F, x), F[i].state = x, G[i].state = x
  PROVE  ListIs(Append(RemoveFirst(l, i), i), n, G, x) /\ n \in Nat
<1>1. l \in Seq(Queues) /\ IsInjective(l) /\ n = Len(l) /\ n \in Nat /\ i \in ToSet(l)
  BY DEF ListIs
<1>2. PICK r : r = RemoveFirst(l, i)
  OBVIOUS
<1>3. /\ r \in Seq(Queues) /\ IsInjective(r) /\ ToSet(r) = ToSet(l) \ {i}
      /\ Len(r) = Len(l) - 1
  BY <1>1, <1>2, Removed
<1>6. /\ Append(r, i) \in Seq(Queues) /\ IsInjective(Append(r, i))
      /\ ToSet(Append(r, i)) = ToSet(r) \cup {i} /\ Len(Append(r, i)) = Len(r) + 1
  BY ONLY <1>3, i \in Queues, Appended
<1>7. ToSet(r) \cup {i} = ToSet(l)
  BY <1>1, <1>3
<1>8. Len(r) + 1 = Len(l)
  BY <1>1, <1>3
<1>4. /\ Append(r, i) \in Seq(Queues) /\ IsInjective(Append(r, i))
      /\ ToSet(Append(r, i)) = ToSet(l) /\ Len(Append(r, i)) = Len(l)
  BY ONLY <1>6, <1>7, <1>8
<1>5. {j \in Queues : G[j].state = x} = ToSet(l)
  BY DEF ListIs, Others
<1> QED BY <1>1, <1>2, <1>4, <1>5 DEF ListIs

Host == [hash : Nat, bulk : Nat]
InUse(F) == {i \in Queues : F[i].state # "none"}
BulkOf(F, h) == {i \in Queues : F[i].state = "bulk" /\ F[i].host = h}
HostsFit(H, F) == /\ H \in [HostSlots -> Host]
                  /\ \A h \in HostSlots : H[h].bulk <= Cardinality(BulkOf(F, h))

LEMMA QueuesFinite == IsFiniteSet(Queues) /\ Queues \subseteq Nat
<1>1. NSets * NWays \in Int
  BY FlowAssumption
<1>2. PICK m \in Int : m = NSets * NWays - 1
  BY <1>1
<1>3. IsFiniteSet(0..m) /\ 0..m \subseteq Nat
  BY FS_Interval
<1> QED BY <1>2, <1>3 DEF Queues

\* The flows in use, when one opens or goes.
LEMMA UseMoved ==
  ASSUME NEW F, NEW G, NEW i \in Queues, Others(F, G, i)
  PROVE  /\ Cardinality(InUse(F)) \in Nat /\ Cardinality(InUse(G)) \in Nat
         /\ Cardinality(InUse(G)) = Cardinality(InUse(F))
              - (IF F[i].state # "none" THEN 1 ELSE 0) + (IF G[i].state # "none" THEN 1 ELSE 0)
<1>1. PICK A, B : A = InUse(F) /\ B = InUse(G)
  OBVIOUS
<1>2. /\ A \in SUBSET Queues /\ B \in SUBSET Queues /\ A \ {i} = B \ {i}
      /\ i \in A <=> F[i].state # "none"
      /\ i \in B <=> G[i].state # "none"
  BY <1>1 DEF InUse, Others
<1>3. /\ Cardinality(A) \in Nat /\ Cardinality(B) \in Nat
      /\ Cardinality(B) = Cardinality(A) - (IF i \in A THEN 1 ELSE 0)
                                         + (IF i \in B THEN 1 ELSE 0)
  BY ONLY <1>2, i \in Queues, QueuesFinite, CardMoved
<1> QED BY <1>1, <1>2, <1>3

\* The bulk flows of a host, when one comes or goes.
LEMMA BulkMoved ==
  ASSUME NEW F, NEW G, NEW i \in Queues, Others(F, G, i), NEW h
  PROVE  /\ Cardinality(BulkOf(F, h)) \in Nat /\ Cardinality(BulkOf(G, h)) \in Nat
         /\ Cardinality(BulkOf(G, h)) = Cardinality(BulkOf(F, h))
              - (IF F[i].state = "bulk" /\ F[i].host = h THEN 1 ELSE 0)
              + (IF G[i].state = "bulk" /\ G[i].host = h THEN 1 ELSE 0)
<1>1. PICK A, B : A = BulkOf(F, h) /\ B = BulkOf(G, h)
  OBVIOUS
<1>2. A \in SUBSET Queues /\ B \in SUBSET Queues /\ A \ {i} = B \ {i}
  BY <1>1 DEF BulkOf, Others
<1>3. /\ i \in A <=> F[i].state = "bulk" /\ F[i].host = h
      /\ i \in B <=> G[i].state = "bulk" /\ G[i].host = h
  BY <1>1 DEF BulkOf
<1>4. /\ Cardinality(A) \in Nat /\ Cardinality(B) \in Nat
      /\ Cardinality(B) = Cardinality(A) - (IF i \in A THEN 1 ELSE 0)
                                         + (IF i \in B THEN 1 ELSE 0)
  <2>1. PICK Q : Q = Queues
    OBVIOUS
  <2>2. IsFiniteSet(Q) /\ i \in Q /\ A \in SUBSET Q /\ B \in SUBSET Q
    BY <1>2, <2>1, QueuesFinite
  <2> QED BY ONLY <1>2, <2>2, CardMoved
<1> QED BY ONLY <1>1, <1>3, <1>4

LEMMA HostsKeep ==
  ASSUME NEW H, NEW F, NEW G, NEW i \in Queues, Others(F, G, i), HostsFit(H, F),
         F[i].state = "bulk" => G[i].state = "bulk" /\ G[i].host = F[i].host
  PROVE  HostsFit(H, G)
<1>1. ASSUME NEW h \in HostSlots PROVE H[h].bulk <= Cardinality(BulkOf(G, h))
  <2>1. /\ Cardinality(BulkOf(F, h)) \in Nat /\ Cardinality(BulkOf(G, h)) \in Nat
        /\ Cardinality(BulkOf(G, h)) >= Cardinality(BulkOf(F, h))
    BY BulkMoved
  <2>2. H[h].bulk \in Nat /\ H[h].bulk <= Cardinality(BulkOf(F, h))
    BY DEF HostsFit, Host
  <2> QED BY <2>1, <2>2
<1> QED BY <1>1 DEF HostsFit

\* A bulk flow leaves its host: the count goes down unless it is 0 already.
LEMMA HostsLeave ==
  ASSUME NEW H, NEW F, NEW G, NEW i \in Queues, Others(F, G, i), HostsFit(H, F),
         F[i].state = "bulk", G[i].state # "bulk", F[i].host \in HostSlots
  PROVE  HostsFit([H EXCEPT ![F[i].host].bulk = IF @ > 0 THEN @ - 1 ELSE 0], G)
<1>1. PICK k, K : /\ k = F[i].host
                  /\ K = [H EXCEPT ![F[i].host].bulk = IF @ > 0 THEN @ - 1 ELSE 0]
  OBVIOUS
<1>2. H \in [HostSlots -> Host] /\ k \in HostSlots
  BY <1>1 DEF HostsFit
<1>3. /\ K \in [HostSlots -> Host]
      /\ K[k].bulk = IF H[k].bulk > 0 THEN H[k].bulk - 1 ELSE 0
      /\ \A h \in HostSlots \ {k} : K[h] = H[h]
  BY <1>1, <1>2 DEF Host
<1>4. ASSUME NEW h \in HostSlots PROVE K[h].bulk <= Cardinality(BulkOf(G, h))
  <2>1. PICK b, c : b = Cardinality(BulkOf(F, h)) /\ c = Cardinality(BulkOf(G, h))
    OBVIOUS
  <2>2. b \in Nat /\ c \in Nat /\ c = b - (IF h = k THEN 1 ELSE 0)
    BY <1>1, <2>1, BulkMoved
  <2>3. H[h].bulk \in Nat /\ H[h].bulk <= b
    BY <2>1 DEF HostsFit, Host
  <2> QED BY <1>3, <2>1, <2>2, <2>3
<1> QED BY <1>1, <1>3, <1>4 DEF HostsFit

\* A flow becomes bulk, and its host counts it.
LEMMA HostsJoin ==
  ASSUME NEW H, NEW F, NEW G, NEW i \in Queues, Others(F, G, i), HostsFit(H, F),
         F[i].state # "bulk", G[i].state = "bulk", G[i].host = F[i].host,
         F[i].host \in HostSlots
  PROVE  HostsFit([H EXCEPT ![F[i].host].bulk = @ + 1], G)
<1>1. PICK k, K : /\ k = F[i].host
                  /\ K = [H EXCEPT ![F[i].host].bulk = @ + 1]
  OBVIOUS
<1>2. H \in [HostSlots -> Host] /\ k \in HostSlots
  BY <1>1 DEF HostsFit
<1>3. /\ K \in [HostSlots -> Host] /\ K[k].bulk = H[k].bulk + 1
      /\ \A h \in HostSlots \ {k} : K[h] = H[h]
  BY <1>1, <1>2 DEF Host
<1>4. ASSUME NEW h \in HostSlots PROVE K[h].bulk <= Cardinality(BulkOf(G, h))
  <2>1. PICK b, c : b = Cardinality(BulkOf(F, h)) /\ c = Cardinality(BulkOf(G, h))
    OBVIOUS
  <2>2. b \in Nat /\ c \in Nat /\ c = b + (IF h = k THEN 1 ELSE 0)
    BY <1>1, <2>1, BulkMoved
  <2>3. H[h].bulk \in Nat /\ H[h].bulk <= b
    BY <2>1 DEF HostsFit, Host
  <2> QED BY <1>3, <2>1, <2>2, <2>3
<1> QED BY <1>1, <1>3, <1>4 DEF HostsFit

\* A tin's lists and counts say the same as the states of its flows.
Linked(tin) ==
  /\ tin \in Tin
  /\ ListIs(tin.new, tin.sparse, tin.flows, "sparse")
  /\ ListIs(tin.old, tin.bulk, tin.flows, "bulk")
  /\ ListIs(tin.decaying, Len(tin.decaying), tin.flows, "decaying")
  /\ tin.flowCount = Cardinality(InUse(tin.flows))
  /\ HostsFit(tin.hosts, tin.flows)

\* The two states of a flow that only carries more or less, or at another price.
Alike(f, g) == g \in Flow /\ g.state = f.state /\ g.host = f.host

\* A tin from its parts.
LEMMA LinkedOf ==
  ASSUME NEW F \in [Queues -> Flow], NEW g \in [Queues -> Nat], NEW n, NEW o, NEW d,
         NEW c, NEW s, NEW b, NEW H, NEW u,
         u = [flows |-> F, tags |-> g, new |-> n, old |-> o, decaying |-> d,
              flowCount |-> c, sparse |-> s, bulk |-> b, hosts |-> H],
         ListIs(n, s, F, "sparse"), ListIs(o, b, F, "bulk"),
         ListIs(d, Len(d), F, "decaying"), c = Cardinality(InUse(F)), HostsFit(H, F)
  PROVE  Linked(u)
<1>1. c \in Nat
  BY QueuesFinite, FS_Subset, FS_CardinalityType DEF InUse
<1>2. n \in Seq(Queues) /\ o \in Seq(Queues) /\ d \in Seq(Queues) /\ s \in Nat /\ b \in Nat
  BY DEF ListIs
<1>3. H \in [HostSlots -> [hash : Nat, bulk : Nat]]
  BY DEF HostsFit, Host
<1>4. u \in Tin
  BY <1>1, <1>2, <1>3 DEF Tin
<1> QED BY <1>4 DEF Linked

LEMMA NoFlowIn == NoFlow \in Flow /\ NoFlow.state = "none" /\ NoFlow.ring = <<>>
                  /\ NoFlow.backlog = 0
<1>1. 0 \in HostSlots
  BY FlowAssumption DEF HostSlots
<1> QED BY <1>1 DEF NoFlow, Flow

\* cake_flow_evict and cake_flow_reclaim
LEMMA UnlinkedLinked ==
  ASSUME NEW tin, Linked(tin), NEW i \in Queues, NEW u, u = Unlinked(tin, i)
  PROVE  /\ Linked(u) /\ u.tags = tin.tags
         /\ u.flows[i] = NoFlow /\ Others(tin.flows, u.flows, i)
<1> DEFINE f == tin.flows[i]
           In(s) == IF f.state = s THEN 1 ELSE 0
<1>1. tin \in Tin /\ f \in Flow
  BY DEF Linked, Tin
<1>2. PICK F, g, n, o, d, c, s, b, H :
        /\ F = [tin.flows EXCEPT ![i] = NoFlow] /\ g = tin.tags
        /\ n = RemoveFirst(tin.new, i) /\ o = RemoveFirst(tin.old, i)
        /\ d = RemoveFirst(tin.decaying, i)
        /\ c = tin.flowCount - (1 - In("none"))
        /\ s = tin.sparse - In("sparse") /\ b = tin.bulk - In("bulk")
        /\ H = IF f.state = "bulk" THEN HostLeft(tin, i) ELSE tin.hosts
  OBVIOUS
<1>3. u = [flows |-> F, tags |-> g, new |-> n, old |-> o, decaying |-> d,
           flowCount |-> c, sparse |-> s, bulk |-> b, hosts |-> H]
  BY <1>1, <1>2 DEF Unlinked, Tin
<1>4. F \in [Queues -> Flow] /\ F[i] = NoFlow /\ Others(tin.flows, F, i)
  BY <1>1, <1>2, NoFlowIn DEF Tin, Others
<1>5. ListIs(n, s, F, "sparse") /\ ListIs(o, b, F, "bulk")
  BY <1>2, <1>4, NoFlowIn, ListDrop DEF Linked
<1>6. ListIs(d, Len(d), F, "decaying")
  <2>1. PICK m : ListIs(d, m, F, "decaying")
    BY <1>2, <1>4, NoFlowIn, ListDrop DEF Linked
  <2> QED BY <2>1 DEF ListIs
<1>7. c = Cardinality(InUse(F))
  BY <1>2, <1>4, NoFlowIn, UseMoved DEF Linked
<1>8. HostsFit(H, F)
  <2>1. HostsFit(tin.hosts, tin.flows) /\ f.host \in HostSlots /\ F[i].state # "bulk"
    BY <1>1, <1>4, NoFlowIn DEF Linked, Flow
  <2>2. CASE f.state = "bulk"
    <3>1. H = [tin.hosts EXCEPT ![tin.flows[i].host].bulk = IF @ > 0 THEN @ - 1 ELSE 0]
      BY <1>2, <2>2 DEF HostLeft
    <3> QED BY <1>4, <2>1, <2>2, <3>1, HostsLeave
  <2>3. CASE f.state # "bulk"
    BY <1>2, <1>4, <2>1, <2>3, HostsKeep
  <2> QED BY <2>2, <2>3
<1>9. g \in [Queues -> Nat]
  BY <1>1, <1>2 DEF Tin
<1>10. Linked(u)
  BY ONLY <1>3, <1>4, <1>5, <1>6, <1>7, <1>8, <1>9, LinkedOf
<1> QED BY <1>2, <1>3, <1>4, <1>10

\* A flow that stays in its list, with other packets or another deficit, and
\* tags that change.
LEMMA TouchedLinked ==
  ASSUME NEW tin, Linked(tin), NEW i \in Queues, NEW F \in [Queues -> Flow],
         NEW g \in [Queues -> Nat], NEW u,
         u = [flows |-> F, tags |-> g, new |-> tin.new, old |-> tin.old,
              decaying |-> tin.decaying, flowCount |-> tin.flowCount,
              sparse |-> tin.sparse, bulk |-> tin.bulk, hosts |-> tin.hosts],
         Others(tin.flows, F, i), Alike(tin.flows[i], F[i])
  PROVE  Linked(u)
<1>1. /\ ListIs(tin.new, tin.sparse, F, "sparse") /\ ListIs(tin.old, tin.bulk, F, "bulk")
      /\ ListIs(tin.decaying, Len(tin.decaying), F, "decaying")
  BY ListKeep DEF Linked, Alike
<1>2. tin.flowCount = Cardinality(InUse(F))
  BY UseMoved DEF Linked, Alike
<1>3. HostsFit(tin.hosts, F)
  BY HostsKeep DEF Linked, Alike
<1> QED BY <1>1, <1>2, <1>3, LinkedOf

\* One slot's flow, or tag, set.
FlowSet(tin, i, f) == [tin EXCEPT !.flows[i] = f]
TagSet(tin, i, tag) == [tin EXCEPT !.tags[i] = tag]

\* A flow's record changes within its list.
LEMMA FlowTouched ==
  ASSUME NEW tin, Linked(tin), NEW i \in Queues, NEW f, Alike(tin.flows[i], f),
         NEW u, u = FlowSet(tin, i, f)
  PROVE  /\ Linked(u) /\ u.tags = tin.tags
         /\ u.flows[i] = f /\ Others(tin.flows, u.flows, i)
         /\ u.hosts = tin.hosts /\ u.new = tin.new /\ u.old = tin.old
<1>1. tin \in Tin /\ f \in Flow
  BY DEF Linked, Alike
<1>2. PICK F : F = [tin.flows EXCEPT ![i] = f]
  OBVIOUS
<1>3. F \in [Queues -> Flow] /\ F[i] = f /\ Others(tin.flows, F, i)
  BY <1>1, <1>2 DEF Tin, Others
<1>4. u = [flows |-> F, tags |-> tin.tags, new |-> tin.new, old |-> tin.old,
           decaying |-> tin.decaying, flowCount |-> tin.flowCount,
           sparse |-> tin.sparse, bulk |-> tin.bulk, hosts |-> tin.hosts]
  BY <1>1, <1>2 DEF Tin, FlowSet
<1>5. tin.tags \in [Queues -> Nat]
  BY <1>1 DEF Tin
<1>6. Linked(u)
  BY ONLY Linked(tin), i \in Queues, Alike(tin.flows[i], f), <1>3, <1>4, <1>5, TouchedLinked
<1> QED BY <1>3, <1>4, <1>6

LEMMA Retagged ==
  ASSUME NEW tin, Linked(tin), NEW i \in Queues, NEW tag \in Nat,
         NEW u, u = TagSet(tin, i, tag)
  PROVE  /\ Linked(u) /\ u.tags[i] = tag /\ Others(tin.tags, u.tags, i)
         /\ u.flows = tin.flows
<1>1. tin \in Tin /\ tin.flows \in [Queues -> Flow]
  BY DEF Linked, Tin
<1>2. PICK F, g : F = tin.flows /\ g = [tin.tags EXCEPT ![i] = tag]
  OBVIOUS
<1>3. /\ F \in [Queues -> Flow] /\ Others(tin.flows, F, i) /\ Alike(tin.flows[i], F[i])
      /\ g \in [Queues -> Nat]
  BY <1>1, <1>2 DEF Tin, Others, Alike
<1>4. u = [flows |-> F, tags |-> g, new |-> tin.new, old |-> tin.old,
           decaying |-> tin.decaying, flowCount |-> tin.flowCount,
           sparse |-> tin.sparse, bulk |-> tin.bulk, hosts |-> tin.hosts]
  BY <1>1, <1>2 DEF Tin, TagSet
<1>5. Linked(u)
  BY ONLY Linked(tin), i \in Queues, <1>3, <1>4, TouchedLinked
<1>6. g[i] = tag /\ Others(tin.tags, g, i)
  BY <1>1, <1>2 DEF Tin, Others
<1> QED BY <1>2, <1>4, <1>5, <1>6

\* cake_flow_reclaim
LEMMA ReclaimedLinked ==
  ASSUME NEW tin, Linked(tin), NEW i \in Queues, NEW u, u = Reclaimed(tin, i)
  PROVE  /\ Linked(u) /\ u.tags[i] = 0 /\ Others(tin.tags, u.tags, i)
         /\ u.flows[i] = NoFlow /\ Others(tin.flows, u.flows, i)
<1>1. PICK v : v = Unlinked(tin, i)
  OBVIOUS
<1>2. /\ Linked(v) /\ v.tags = tin.tags
      /\ v.flows[i] = NoFlow /\ Others(tin.flows, v.flows, i)
  BY <1>1, UnlinkedLinked
<1>3. u = TagSet(v, i, 0) /\ 0 \in Nat
  BY <1>1 DEF Reclaimed, TagSet
<1>4. /\ Linked(u) /\ u.tags[i] = 0 /\ Others(v.tags, u.tags, i) /\ u.flows = v.flows
  BY ONLY <1>2, <1>3, i \in Queues, Retagged
<1> QED BY <1>2, <1>4

\* Of two numbers.
LEMMA MaxPair ==
  ASSUME NEW a \in Int, NEW b \in Int, NEW S, S = {a, b}
  PROVE  /\ Max(S) \in Int /\ Max(S) >= a /\ Max(S) >= b
         /\ Min(S) \in S
<1>1. \E x \in S : \A y \in S : x >= y
  OBVIOUS
<1>2. \E x \in S : \A y \in S : x <= y
  OBVIOUS
<1> QED BY <1>1, <1>2 DEF Max, Min

LEMMA QuantumInt ==
  ASSUME NEW tin, NEW f, tin.hosts[f.host].bulk \in Nat
  PROVE  QuantumOf(tin, f) \in Int
<1> DEFINE A == {tin.hosts[f.host].bulk, NSets * NWays}
           B == {1, Min(A)}
           d == 65535 \div Max(B)
           e == (Quantum * d) \div 65536
           C == {1, e}
<1>1. QuantumOf(tin, f) = Max(C)
  BY DEF QuantumOf
<1>2. Min(A) \in Int
  <2>1. PICK a \in Int, b \in Int : A = {a, b}
    BY FlowAssumption
  <2> HIDE DEF A
  <2> QED BY <2>1, MaxPair
<1>3. Max(B) \in Int /\ Max(B) >= 1
  <2>1. PICK b \in Int : B = {1, b}
    BY <1>2
  <2> HIDE DEF B
  <2> QED BY <2>1, MaxPair
<1>4. e \in Int
  <2>1. d \in Int
    BY <1>3
  <2>2. Quantum * d \in Int
    BY <2>1, FlowAssumption
  <2> QED BY <2>2
<1>5. Max(C) \in Int
  <2>1. PICK b \in Int : C = {1, b}
    BY <1>4
  <2> HIDE DEF C
  <2> QED BY <2>1, MaxPair
<1> QED BY <1>1, <1>5

\* cake_host_lookup
LEMMA HostFound ==
  ASSUME NEW tin, NEW hash \in Nat
  PROVE  HostOf(tin, hash) \in HostSlots
<1> DEFINE probe(k) == (hash + k) % NHosts
           hit == {k \in 0..(HostProbes - 1) : tin.hosts[probe(k)].hash \in {hash, 0}}
<1>1. \A k \in Nat : probe(k) \in HostSlots
  <2>1. \A x, m \in Nat : m > 0 => x % m \in 0..(m - 1)
    OBVIOUS
  <2>2. \A k \in Nat : hash + k \in Nat
    OBVIOUS
  <2> QED BY <2>1, <2>2, FlowAssumption DEF HostSlots
<1>2. hit \in SUBSET Nat
  BY DEF HostProbes
<1>3. hit # {} => Min(hit) \in Nat
  <2> HIDE DEF hit
  <2> QED BY <1>2, MinIn
<1>4. HostOf(tin, hash) = IF hit # {} THEN probe(Min(hit)) ELSE probe(0)
  BY DEF HostOf
<1> HIDE DEF hit, probe
<1> QED BY <1>1, <1>3, <1>4

\* A host that is found keeps its count, and one taken over starts at 0.
LEMMA HostsFound ==
  ASSUME NEW tin, NEW F, HostsFit(tin.hosts, F), NEW hash \in Nat, NEW H,
         H = HostsWith(tin, hash)
  PROVE  HostsFit(H, F)
<1>1. PICK k : k = HostOf(tin, hash) /\ k \in HostSlots
  BY HostFound
<1>2. PICK b : b = IF tin.hosts[k].hash \in {hash, 0} THEN tin.hosts[k].bulk ELSE 0
  OBVIOUS
<1>3. H = [tin.hosts EXCEPT ![k] = [hash |-> hash, bulk |-> b]]
  BY <1>1, <1>2 DEF HostsWith
<1>4. tin.hosts \in [HostSlots -> Host] /\ tin.hosts[k].bulk \in Nat
  BY <1>1 DEF HostsFit, Host
<1>5. b \in Nat /\ b <= tin.hosts[k].bulk
  BY <1>2, <1>4
<1>6. /\ H \in [HostSlots -> Host] /\ H[k].bulk = b
      /\ \A h \in HostSlots \ {k} : H[h] = tin.hosts[h]
  BY <1>1, <1>3, <1>4, <1>5 DEF Host
<1>7. ASSUME NEW h \in HostSlots PROVE H[h].bulk <= Cardinality(BulkOf(F, h))
  <2>1. PICK c : c = Cardinality(BulkOf(F, h))
    OBVIOUS
  <2>2. c \in Nat
    BY <2>1, QueuesFinite, FS_Subset, FS_CardinalityType DEF BulkOf
  <2>3. tin.hosts[h].bulk \in Nat /\ tin.hosts[h].bulk <= c
    BY <2>1 DEF HostsFit, Host
  <2> QED BY <1>5, <1>6, <2>1, <2>2, <2>3
<1> QED BY <1>6, <1>7 DEF HostsFit

\* A flow is put to use.
LEMMA OpenedLinked ==
  ASSUME NEW tin, Linked(tin), NEW i \in Queues, tin.flows[i].state = "none",
         NEW p \in Packet, NEW u, u = Opened(tin, i, p)
  PROVE  /\ Linked(u) /\ u.tags = tin.tags /\ Others(tin.flows, u.flows, i)
         /\ u.flows[i].state = "sparse" /\ u.flows[i].ring = <<>>
         /\ u.flows[i].backlog = 0
<1>1. tin \in Tin /\ p.host \in Nat
  BY DEF Linked, Packet
<1>2. PICK H : H = HostsWith(tin, p.host)
  OBVIOUS
<1>3. HostsFit(H, tin.flows) /\ HostOf(tin, p.host) \in HostSlots
  BY <1>1, <1>2, HostsFound, HostFound DEF Linked
<1>4. PICK f0, tin0 : /\ f0 = [NoFlow EXCEPT !.state = "sparse", !.host = HostOf(tin, p.host)]
                      /\ tin0 = [tin EXCEPT !.hosts = H]
  OBVIOUS
<1>5. PICK d : d = QuantumOf(tin0, f0)
  OBVIOUS
<1>6. d \in Int
  <2>1. tin0.hosts = H /\ f0.host \in HostSlots
    BY <1>1, <1>3, <1>4 DEF Tin, NoFlow
  <2>2. H[f0.host].bulk \in Nat
    BY <1>3, <2>1 DEF HostsFit, Host
  <2> QED BY <1>5, <2>1, <2>2, QuantumInt
<1>7. PICK f : f = [f0 EXCEPT !.deficit = d]
  OBVIOUS
<1>8. /\ f \in Flow /\ f.state = "sparse" /\ f.ring = <<>> /\ f.backlog = 0
  <2>1. PICK h \in HostSlots : h = HostOf(tin, p.host)
    BY <1>3
  <2>2. f0 = [state |-> "sparse", ring |-> <<>>, backlog |-> 0, deficit |-> 0, host |-> h]
    BY <1>4, <2>1 DEF NoFlow
  <2>3. f = [state |-> "sparse", ring |-> <<>>, backlog |-> 0, deficit |-> d, host |-> h]
    BY <1>7, <2>2
  <2>4. <<>> \in Seq(Nat)
    OBVIOUS
  <2> QED BY <1>6, <2>3, <2>4 DEF Flow
<1>9. PICK F, n, c, s : /\ F = [tin.flows EXCEPT ![i] = f]
                        /\ n = <<i>> \o tin.new /\ c = tin.flowCount + 1 /\ s = tin.sparse + 1
  OBVIOUS
<1>10. F \in [Queues -> Flow] /\ F[i] = f /\ Others(tin.flows, F, i)
  BY <1>1, <1>8, <1>9 DEF Tin, Others
<1>11. u = [flows |-> F, tags |-> tin.tags, new |-> n, old |-> tin.old,
            decaying |-> tin.decaying, flowCount |-> c,
            sparse |-> s, bulk |-> tin.bulk, hosts |-> H]
  BY <1>1, <1>2, <1>4, <1>5, <1>7, <1>9 DEF Opened, Tin
<1>12. /\ ListIs(n, s, F, "sparse")
       /\ ListIs(tin.old, tin.bulk, F, "bulk")
       /\ ListIs(tin.decaying, Len(tin.decaying), F, "decaying")
  BY <1>8, <1>9, <1>10, ListJoin, ListKeep DEF Linked
<1>13. c = Cardinality(InUse(F))
  BY <1>8, <1>9, <1>10, UseMoved DEF Linked
<1>14. HostsFit(H, F)
  BY <1>3, <1>8, <1>10, HostsKeep
<1>15. tin.tags \in [Queues -> Nat]
  BY <1>1 DEF Tin
<1>16. Linked(u)
  BY ONLY <1>10, <1>11, <1>12, <1>13, <1>14, <1>15, LinkedOf
<1> QED BY <1>8, <1>10, <1>11, <1>16

\* Flow i alone may change, and its packets stay.
Carries(tin, u, i) ==
  /\ Linked(u) /\ u.tags = tin.tags /\ Others(tin.flows, u.flows, i)
  /\ u.flows[i].ring = tin.flows[i].ring /\ u.flows[i].backlog = tin.flows[i].backlog

LEMMA PromotedLinked ==
  ASSUME NEW tin, Linked(tin), NEW i \in Queues, NEW u, u = Promoted(tin, i)
  PROVE  /\ Carries(tin, u, i)
         /\ u.flows[i].state = IF Promotes(tin.flows[i]) THEN "bulk" ELSE tin.flows[i].state
<1>1. tin \in Tin /\ tin.flows[i] \in Flow /\ tin.tags \in [Queues -> Nat]
  BY DEF Linked, Tin
<1>2. CASE ~Promotes(tin.flows[i])
  BY <1>2 DEF Promoted, Carries, Others
<1>3. CASE Promotes(tin.flows[i])
  <2>1. PICK f, x : f = tin.flows[i] /\ x = f.state /\ x \in {"sparse", "decaying"}
    BY <1>3 DEF Promotes
  <2>2. PICK g, F, n, o, d, s, b, H :
          /\ g = [f EXCEPT !.state = "bulk"] /\ F = [tin.flows EXCEPT ![i] = g]
          /\ n = RemoveFirst(tin.new, i) /\ d = RemoveFirst(tin.decaying, i)
          /\ o = Append(tin.old, i)
          /\ s = (IF x = "sparse" THEN tin.sparse - 1 ELSE tin.sparse)
          /\ b = tin.bulk + 1 /\ H = HostJoined(tin, i)
    OBVIOUS
  <2>3. g \in Flow /\ g.state = "bulk" /\ g.host = f.host /\ g.ring = f.ring /\ g.backlog = f.backlog
    BY <1>1, <2>1, <2>2 DEF Flow
  <2>4. F \in [Queues -> Flow] /\ F[i] = g /\ Others(tin.flows, F, i)
    BY <1>1, <2>2, <2>3 DEF Tin, Others
  <2>5. u = [flows |-> F, tags |-> tin.tags, new |-> n, old |-> o, decaying |-> d,
             flowCount |-> tin.flowCount, sparse |-> s, bulk |-> b, hosts |-> H]
    BY <1>1, <1>3, <2>1, <2>2 DEF Promoted, Tin
  <2>6. /\ ListIs(tin.new, tin.sparse, tin.flows, "sparse") /\ tin.sparse \in Nat
        /\ ListIs(tin.old, tin.bulk, tin.flows, "bulk")
        /\ ListIs(tin.decaying, Len(tin.decaying), tin.flows, "decaying")
    BY <1>1 DEF Linked, Tin
  <2>7. ListIs(n, s, F, "sparse")
    <3>1. s = IF tin.flows[i].state = "sparse" THEN tin.sparse - 1 ELSE tin.sparse
      BY <2>1, <2>2
    <3>2. F[i].state # "sparse" /\ n = RemoveFirst(tin.new, i)
      BY <2>2, <2>3, <2>4
    <3> QED BY ONLY i \in Queues, <2>4, <2>6, <3>1, <3>2, ListLess
  <2>8. ListIs(o, b, F, "bulk")
    BY <2>1, <2>2, <2>3, <2>4, <2>6, ListJoin
  <2>9. ListIs(d, Len(d), F, "decaying")
    <3>1. PICK m : ListIs(d, m, F, "decaying")
      BY <2>2, <2>3, <2>4, <2>6, ListDrop
    <3> QED BY <3>1 DEF ListIs
  <2>10. tin.flowCount = Cardinality(InUse(F))
    BY <2>1, <2>3, <2>4, UseMoved DEF Linked
  <2>11. HostsFit(H, F)
    <3>1. H = [tin.hosts EXCEPT ![tin.flows[i].host].bulk = @ + 1]
      BY <2>2 DEF HostJoined
    <3>2. HostsFit(tin.hosts, tin.flows) /\ tin.flows[i].host \in HostSlots
      BY <1>1 DEF Linked, Flow
    <3>3. tin.flows[i].state # "bulk" /\ F[i].state = "bulk" /\ F[i].host = tin.flows[i].host
      BY <2>1, <2>3, <2>4
    <3> QED BY <2>4, <3>1, <3>2, <3>3, HostsJoin
  <2>12. Linked(u)
    BY ONLY <1>1, <2>4, <2>5, <2>7, <2>8, <2>9, <2>10, <2>11, LinkedOf
  <2> QED BY <1>3, <2>1, <2>3, <2>4, <2>5, <2>12 DEF Carries
<1> QED BY <1>2, <1>3

LEMMA RotatedLinked ==
  ASSUME NEW tin, Linked(tin), NEW i \in Queues, NEW u, u = Rotated(tin, i)
  PROVE  Carries(tin, u, i) /\ u.flows[i].state = tin.flows[i].state
<1>1. tin \in Tin /\ tin.flows[i] \in Flow /\ tin.tags \in [Queues -> Nat]
  BY DEF Linked, Tin
<1>2. CASE u = tin
  BY <1>2 DEF Carries, Others
<1>3. CASE u # tin
  <2>1. PICK f : f = tin.flows[i] /\ f.state = "bulk"
    BY <1>3 DEF Rotated
  <2>2. PICK g, F, o : /\ g = [f EXCEPT !.deficit = 0] /\ F = [tin.flows EXCEPT ![i] = g]
                       /\ o = Append(RemoveFirst(tin.old, i), i)
    OBVIOUS
  <2>3. g \in Flow /\ g.state = "bulk" /\ g.host = f.host /\ g.ring = f.ring /\ g.backlog = f.backlog
    <3>1. f \in Flow /\ f.state = "bulk" /\ g = [f EXCEPT !.deficit = 0]
      BY <1>1, <2>1, <2>2
    <3> QED BY ONLY <3>1 DEF Flow
  <2>4. F \in [Queues -> Flow] /\ F[i] = g /\ Others(tin.flows, F, i)
    BY <1>1, <2>2, <2>3 DEF Tin, Others
  <2>5. u = [flows |-> F, tags |-> tin.tags, new |-> tin.new, old |-> o,
             decaying |-> tin.decaying, flowCount |-> tin.flowCount,
             sparse |-> tin.sparse, bulk |-> tin.bulk, hosts |-> tin.hosts]
    BY <1>1, <1>3, <2>1, <2>2 DEF Rotated, Tin
  <2>6. /\ ListIs(tin.new, tin.sparse, F, "sparse")
        /\ ListIs(tin.decaying, Len(tin.decaying), F, "decaying")
    BY <2>1, <2>3, <2>4, ListKeep DEF Linked
  <2>7. ListIs(o, tin.bulk, F, "bulk")
    BY <2>1, <2>2, <2>3, <2>4, ListTurn DEF Linked
  <2>8. tin.flowCount = Cardinality(InUse(F))
    BY <2>1, <2>3, <2>4, UseMoved DEF Linked
  <2>9. HostsFit(tin.hosts, F)
    BY <2>1, <2>3, <2>4, HostsKeep DEF Linked
  <2>10. Linked(u)
    BY ONLY <1>1, <2>4, <2>5, <2>6, <2>7, <2>8, <2>9, LinkedOf
  <2> QED BY <2>1, <2>3, <2>4, <2>5, <2>10 DEF Carries
<1> QED BY <1>2, <1>3

LEMMA DecayedLinked ==
  ASSUME NEW tin, Linked(tin), NEW i \in Queues, tin.flows[i].state = "bulk",
         NEW u, u = Decayed(tin, i)
  PROVE  Carries(tin, u, i) /\ u.flows[i].state = "decaying"
<1>1. tin \in Tin /\ tin.flows[i] \in Flow /\ tin.tags \in [Queues -> Nat]
  BY DEF Linked, Tin
<1>2. PICK f, g, F, o, d, b, H :
        /\ f = tin.flows[i] /\ g = [f EXCEPT !.state = "decaying"]
        /\ F = [tin.flows EXCEPT ![i] = g]
        /\ o = RemoveFirst(tin.old, i) /\ d = Append(tin.decaying, i)
        /\ b = tin.bulk - 1 /\ H = HostLeft(tin, i)
  OBVIOUS
<1>3. g \in Flow /\ g.state = "decaying" /\ g.host = f.host /\ g.ring = f.ring /\ g.backlog = f.backlog
  BY <1>1, <1>2 DEF Flow
<1>4. F \in [Queues -> Flow] /\ F[i] = g /\ Others(tin.flows, F, i)
  BY <1>1, <1>2, <1>3 DEF Tin, Others
<1>5. u = [flows |-> F, tags |-> tin.tags, new |-> tin.new, old |-> o, decaying |-> d,
           flowCount |-> tin.flowCount, sparse |-> tin.sparse, bulk |-> b, hosts |-> H]
  BY <1>1, <1>2 DEF Decayed, Tin
<1>6. ListIs(tin.new, tin.sparse, F, "sparse")
  BY <1>3, <1>4, ListKeep DEF Linked
<1>7. ListIs(o, b, F, "bulk")
  <2>1. b = IF tin.flows[i].state = "bulk" THEN tin.bulk - 1 ELSE tin.bulk
    BY <1>2
  <2>2. F[i].state # "bulk" /\ o = RemoveFirst(tin.old, i) /\ ListIs(tin.old, tin.bulk, tin.flows, "bulk")
    BY <1>2, <1>3, <1>4 DEF Linked
  <2> QED BY ONLY i \in Queues, <1>4, <2>1, <2>2, ListLess
<1>8. ListIs(d, Len(d), F, "decaying")
  <2>1. PICK m : ListIs(d, m, F, "decaying")
    BY <1>2, <1>3, <1>4, ListJoin DEF Linked
  <2> QED BY <2>1 DEF ListIs
<1>9. tin.flowCount = Cardinality(InUse(F))
  BY <1>3, <1>4, UseMoved DEF Linked
<1>10. HostsFit(H, F)
  <2>1. H = [tin.hosts EXCEPT ![tin.flows[i].host].bulk = IF @ > 0 THEN @ - 1 ELSE 0]
    BY <1>2 DEF HostLeft
  <2>2. HostsFit(tin.hosts, tin.flows) /\ tin.flows[i].host \in HostSlots
    BY <1>1 DEF Linked, Flow
  <2>3. tin.flows[i].state = "bulk" /\ F[i].state # "bulk"
    BY <1>3, <1>4
  <2> QED BY <1>4, <2>1, <2>2, <2>3, HostsLeave
<1>11. Linked(u)
  BY ONLY <1>1, <1>4, <1>5, <1>6, <1>7, <1>8, <1>9, <1>10, LinkedOf
<1> QED BY <1>2, <1>3, <1>4, <1>5, <1>11 DEF Carries

\* What a flow's state says of its ring.
FlowFits(f) == /\ f.backlog = Bytes(f.ring) /\ Len(f.ring) <= RingSize
               /\ f.state = "sparse" => Len(f.ring) = 1
               /\ f.state \in {"none", "decaying"} => f.ring = <<>>

\* A tin's tags name the slots of its flows.
TagsAgree(tin) ==
  \A i \in Queues :
    /\ tin.flows[i].state # "none" => tin.tags[i] # 0
    /\ tin.tags[i] # 0 => i \in Ways([tag |-> tin.tags[i]])
    /\ \A j \in Queues \ {i} : tin.tags[i] = tin.tags[j] => tin.tags[i] = 0

Sound(tin) == Linked(tin) /\ TagsAgree(tin) /\ \A i \in Queues : FlowFits(tin.flows[i])

\* The parts of the model's invariant, put together for the proof.
LEMMA SoundIs ==
  ASSUME NEW tin
  PROVE  Sound(tin) <=> tin \in Tin /\ ListsAgree(tin) /\ QueuesAgree(tin) /\ HostsBounded(tin)
<1>1. QueuesAgree(tin) <=> TagsAgree(tin) /\ \A i \in Queues : FlowFits(tin.flows[i])
  BY DEF QueuesAgree, TagsAgree, FlowFits
<1>2. Queues \ {i \in Queues : tin.flows[i].state = "none"} = InUse(tin.flows)
  BY DEF InUse
<1>3. HostsBounded(tin) <=> \A h \in HostSlots : tin.hosts[h].bulk <= Cardinality(BulkOf(tin.flows, h))
  BY DEF HostsBounded, BulkOf
<1>4. ASSUME tin \in Tin
      PROVE  /\ tin.new \in Seq(Queues) /\ tin.old \in Seq(Queues) /\ tin.decaying \in Seq(Queues)
             /\ tin.hosts \in [HostSlots -> Host]
  BY <1>4 DEF Tin, Host
<1>5. ASSUME tin \in Tin, ListsAgree(tin), HostsBounded(tin) PROVE Linked(tin)
  <2>1. /\ ListIs(tin.new, tin.sparse, tin.flows, "sparse")
        /\ ListIs(tin.old, tin.bulk, tin.flows, "bulk")
        /\ ListIs(tin.decaying, Len(tin.decaying), tin.flows, "decaying")
    BY <1>4, <1>5 DEF ListsAgree, ListIs
  <2>2. tin.flowCount = Cardinality(InUse(tin.flows))
    BY <1>2, <1>5 DEF ListsAgree
  <2>3. HostsFit(tin.hosts, tin.flows)
    BY <1>3, <1>4, <1>5 DEF HostsFit
  <2> QED BY <1>5, <2>1, <2>2, <2>3 DEF Linked
<1>6. ASSUME Linked(tin) PROVE tin \in Tin /\ ListsAgree(tin) /\ HostsBounded(tin)
  <2>1. tin.flowCount = Cardinality(Queues \ {i \in Queues : tin.flows[i].state = "none"})
    BY <1>2, <1>6 DEF Linked
  <2>2. ListsAgree(tin)
    BY <1>6, <2>1 DEF Linked, ListIs, ListsAgree
  <2> QED BY <1>3, <1>6, <2>2 DEF Linked, HostsFit
<1> QED BY <1>1, <1>5, <1>6 DEF Sound

\* One flow changed, and its slot fits.
LEMMA SoundStep ==
  ASSUME NEW tin, Sound(tin), NEW i \in Queues, NEW u, Linked(u), TagsAgree(u),
         Others(tin.flows, u.flows, i), FlowFits(u.flows[i])
  PROVE  Sound(u)
BY DEF Sound, Others

\* The tags stay, and the slot if it is in use has one.
LEMMA TagsKept ==
  ASSUME NEW tin, TagsAgree(tin), NEW i \in Queues, NEW u, u.tags = tin.tags,
         Others(tin.flows, u.flows, i), u.flows[i].state # "none" => tin.tags[i] # 0
  PROVE  TagsAgree(u)
BY DEF TagsAgree, Others

LEMMA TagsFreed ==
  ASSUME NEW tin, TagsAgree(tin), NEW i \in Queues, NEW u,
         u.tags[i] = 0, Others(tin.tags, u.tags, i),
         Others(tin.flows, u.flows, i), u.flows[i].state = "none"
  PROVE  TagsAgree(u)
BY DEF TagsAgree, Others

LEMMA TagsTaken ==
  ASSUME NEW tin, TagsAgree(tin), NEW i \in Queues, NEW tag, NEW u,
         u.tags[i] = tag, Others(tin.tags, u.tags, i), Others(tin.flows, u.flows, i),
         tag # 0, i \in Ways([tag |-> tag]),
         \A j \in Queues \ {i} : tin.tags[j] # tag
  PROVE  TagsAgree(u)
<1>1. SUFFICES ASSUME NEW j \in Queues
               PROVE  /\ u.flows[j].state # "none" => u.tags[j] # 0
                      /\ u.tags[j] # 0 => j \in Ways([tag |-> u.tags[j]])
                      /\ \A k \in Queues \ {j} : u.tags[j] = u.tags[k] => u.tags[j] = 0
  BY DEF TagsAgree
<1>2. CASE j = i
  BY <1>2 DEF Others
<1>3. CASE j # i
  BY <1>3 DEF Others, TagsAgree
<1> QED BY <1>2, <1>3
-----------------------------------------------------------------------------
(* The slot of a packet. *)

LEMMA WaysIn ==
  ASSUME NEW p, p.tag \in Nat
  PROVE  Ways(p) \subseteq Queues /\ Ways(p) # {} /\ Ways(p) = Ways([tag |-> p.tag])
<1>1. PICK s, w \in Nat : s = NSets /\ w = NWays /\ s > 0 /\ w > 0
  BY FlowAssumption
<1>2. PICK r \in Nat : r = p.tag % s /\ r + 1 <= s
  BY <1>1
<1>3. PICK d \in Nat : s = (r + 1) + d
  <2>1. s - (r + 1) \in Nat /\ s = (r + 1) + (s - (r + 1))
    BY <1>1, <1>2
  <2> QED BY <2>1
<1>4. PICK b, e, m \in Nat : b = r * w /\ e = d * w /\ m = s * w
  BY <1>1
<1>5. m = b + w + e
  <2>1. s * w = (r + (d + 1)) * w
    BY <1>3
  <2>2. \A x, y, z \in Nat : (x + y) * z = x * z + y * z
    OBVIOUS
  <2>3. (r + (d + 1)) * w = r * w + (d + 1) * w /\ (d + 1) * w = d * w + 1 * w
    BY <2>2
  <2> QED BY <1>4, <2>1, <2>3
<1>6. Ways(p) = b..(b + w - 1)
  BY <1>1, <1>2, <1>4 DEF Ways
<1>7. Queues = 0..(m - 1)
  BY <1>1, <1>4 DEF Queues
<1>8. b..(b + w - 1) \subseteq 0..(m - 1) /\ b \in b..(b + w - 1)
  BY <1>1, <1>4, <1>5
<1>9. Ways(p) = Ways([tag |-> p.tag])
  BY DEF Ways
<1> QED BY <1>6, <1>7, <1>8, <1>9

\* cake_flow_lookup: among the ways of the packet, and no other slot is its.
LEMMA SlotFound ==
  ASSUME NEW tin, Sound(tin), NEW p \in Packet, NEW i, i = SlotOf(tin, p)
  PROVE  /\ i \in Queues /\ i \in Ways([tag |-> p.tag])
         /\ \A j \in Queues \ {i} : tin.tags[j] # p.tag
         /\ (\E j \in Ways(p) : tin.tags[j] = p.tag) => tin.tags[i] = p.tag
<1> DEFINE own == {j \in Ways(p) : tin.tags[j] = p.tag}
           free == {j \in Ways(p) : tin.tags[j] = 0}
           least == {j \in Ways(p) : \A k \in Ways(p) :
                                  tin.flows[j].backlog <= tin.flows[k].backlog}
<1>1. p.tag \in Nat \ {0}
  BY DEF Packet
<1>2. Ways(p) \subseteq Queues /\ Ways(p) # {} /\ Ways(p) = Ways([tag |-> p.tag])
  BY <1>1, WaysIn
<1>3. Ways(p) \subseteq Nat
  BY <1>2, QueuesFinite
<1>4. i = IF own # {} THEN Min(own) ELSE IF free # {} THEN Min(free) ELSE Min(least)
  BY DEF SlotOf
<1>5. least # {}
  <2>1. PICK W : W = Ways(p)
    OBVIOUS
  <2>2. \A j \in W : tin.flows[j].backlog \in Nat
    BY <1>2, <2>1 DEF Sound, Linked, Tin, Flow
  <2>3. PICK S : S = {tin.flows[j].backlog : j \in W}
    OBVIOUS
  <2>4. S \in SUBSET Nat /\ S # {}
    BY <1>2, <2>1, <2>2, <2>3
  <2>5. PICK x \in S : \A y \in S : x <= y
    BY <2>4, LeastOf
  <2>6. PICK j \in W : \A k \in W : tin.flows[j].backlog <= tin.flows[k].backlog
    BY <2>3, <2>5
  <2> QED BY <2>1, <2>6
<1>6. own \in SUBSET Nat /\ free \in SUBSET Nat /\ least \in SUBSET Nat
  BY <1>3
<1>7. /\ own \subseteq Ways(p) /\ free \subseteq Ways(p) /\ least \subseteq Ways(p)
      /\ \A j \in own : tin.tags[j] = p.tag
      /\ own = {} => \A j \in Ways(p) : tin.tags[j] # p.tag
  OBVIOUS
<1> HIDE DEF own, free, least
<1>8. i \in Ways(p) /\ (own # {} => i \in own)
  BY <1>4, <1>5, <1>6, <1>7, MinIn
<1>9. ASSUME NEW j \in Queues \ {i}, tin.tags[j] = p.tag PROVE FALSE
  <2>1. j \in Ways(p)
    BY <1>1, <1>2, <1>9 DEF Sound, TagsAgree
  <2>2. tin.tags[i] = p.tag
    BY <1>7, <1>8, <1>9, <2>1
  <2> QED BY <1>1, <1>2, <1>8, <1>9, <2>2 DEF Sound, TagsAgree
<1> QED BY <1>2, <1>7, <1>8, <1>9
-----------------------------------------------------------------------------
(* One scheduler. *)

WholeSched(cs) == cs \in Scheduler /\ Whole(cs)

LEMMA RingsFinite == IsFiniteSet(Rings) /\ IsFiniteSet(Tins) /\ Tins \subseteq Nat
<1>1. IsFiniteSet(Tins) /\ Tins \subseteq Nat
  <2>1. NTins \in Int
    BY FlowAssumption
  <2>2. IsFiniteSet(1..NTins) /\ 1..NTins \subseteq Nat
    BY <2>1, FS_Interval
  <2> QED BY <2>2 DEF Tins
<1> QED BY <1>1, QueuesFinite, FS_Product DEF Rings

LEMMA WholeIs ==
  ASSUME NEW cs \in Scheduler
  PROVE  Whole(cs) <=> /\ \A t \in Tins : Sound(cs.tins[t])
                       /\ cs.usage = SumFunctionOnSet(Backlogs(cs), Rings)
                       /\ cs.queued = SumFunctionOnSet(Lengths(cs), Rings)
                       /\ cs.usage <= Limit
<1>1. \A t \in Tins : cs.tins[t] \in Tin
  BY DEF Scheduler
<1>2. \A t \in Tins : Sound(cs.tins[t]) <=> /\ ListsAgree(cs.tins[t]) /\ QueuesAgree(cs.tins[t])
                                            /\ HostsBounded(cs.tins[t])
  BY <1>1, SoundIs
<1> QED BY <1>2 DEF Whole

\* What a scheduler's queues hold changes by what one flow does.
LEMMA AccountsFollow ==
  ASSUME NEW cs, NEW c, cs.tins \in [Tins -> Tin], c.tins \in [Tins -> Tin],
         NEW t \in Tins, NEW i \in Queues,
         \A s \in Tins \ {t} : c.tins[s] = cs.tins[s],
         Others(cs.tins[t].flows, c.tins[t].flows, i)
  PROVE  /\ SumFunctionOnSet(Backlogs(c), Rings) = SumFunctionOnSet(Backlogs(cs), Rings)
              + (c.tins[t].flows[i].backlog - cs.tins[t].flows[i].backlog)
         /\ SumFunctionOnSet(Lengths(c), Rings) = SumFunctionOnSet(Lengths(cs), Rings)
              + (Len(c.tins[t].flows[i].ring) - Len(cs.tins[t].flows[i].ring))
         /\ SumFunctionOnSet(Backlogs(c), Rings) \in Nat
         /\ SumFunctionOnSet(Lengths(c), Rings) \in Nat
<1>0. PICK e, S : e = <<t, i>> /\ S = Rings
  OBVIOUS
<1>1. e = <<t, i>> /\ e \in Rings /\ S = Rings /\ IsFiniteSet(S)
  BY ONLY <1>0, t \in Tins, i \in Queues, RingsFinite DEF Rings
<1>2. ASSUME NEW r \in S
      PROVE  /\ Backlogs(c)[r] = c.tins[r[1]].flows[r[2]].backlog
             /\ Backlogs(cs)[r] = cs.tins[r[1]].flows[r[2]].backlog
             /\ Lengths(c)[r] = Len(c.tins[r[1]].flows[r[2]].ring)
             /\ Lengths(cs)[r] = Len(cs.tins[r[1]].flows[r[2]].ring)
             /\ r[1] \in Tins /\ r[2] \in Queues /\ r = <<r[1], r[2]>>
  BY ONLY <1>1, <1>2 DEF Backlogs, Lengths, Rings
<1>3. ASSUME NEW s \in Tins, NEW j \in Queues
      PROVE  /\ c.tins[s].flows[j].backlog \in Nat /\ Len(c.tins[s].flows[j].ring) \in Nat
             /\ cs.tins[s].flows[j].backlog \in Nat /\ Len(cs.tins[s].flows[j].ring) \in Nat
  <2>1. \A v \in Tin : v.flows[j] \in Flow
    BY ONLY j \in Queues DEF Tin
  <2>0. c.tins[s] \in Tin /\ cs.tins[s] \in Tin
    OBVIOUS
  <2>2. \A f \in Flow : f.backlog \in Nat /\ Len(f.ring) \in Nat
    BY DEF Flow
  <2> QED BY ONLY <2>0, <2>1, <2>2
<1>4. ASSUME NEW r \in S \ {e}
      PROVE  cs.tins[r[1]].flows[r[2]] = c.tins[r[1]].flows[r[2]]
  <2>1. r[1] \in Tins /\ r[2] \in Queues /\ (r[1] # t \/ r[2] # i)
    BY <1>1, <1>2
  <2> QED BY <2>1 DEF Others
<1>5. PICK B0, B1, L0, L1 : /\ B0 = Backlogs(cs) /\ B1 = Backlogs(c)
                            /\ L0 = Lengths(cs) /\ L1 = Lengths(c)
  OBVIOUS
<1>6. \A r \in S : B0[r] \in Nat /\ B1[r] \in Nat /\ L0[r] \in Nat /\ L1[r] \in Nat
  BY ONLY <1>2, <1>3, <1>5
<1>7. \A r \in S \ {e} : B0[r] = B1[r] /\ L0[r] = L1[r]
  <2>1. SUFFICES ASSUME NEW r \in S \ {e} PROVE B0[r] = B1[r] /\ L0[r] = L1[r]
    OBVIOUS
  <2>2. cs.tins[r[1]].flows[r[2]] = c.tins[r[1]].flows[r[2]]
    BY <1>4
  <2> QED BY ONLY <1>2, <1>5, <2>2, r \in S \ {e}
<1>8. e \in S
  BY <1>1
<1>9. /\ B0[e] = cs.tins[t].flows[i].backlog /\ B1[e] = c.tins[t].flows[i].backlog
      /\ L0[e] = Len(cs.tins[t].flows[i].ring) /\ L1[e] = Len(c.tins[t].flows[i].ring)
  BY <1>1, <1>2, <1>5
<1>10. \A r \in S : B0[r] \in Int /\ B1[r] \in Int /\ L0[r] \in Int /\ L1[r] \in Int
  BY <1>6
<1>11. SumFunctionOnSet(B1, S) = SumFunctionOnSet(B0, S) + (B1[e] - B0[e])
  BY ONLY <1>1, <1>7, <1>8, <1>10, SumChange
<1>12. SumFunctionOnSet(L1, S) = SumFunctionOnSet(L0, S) + (L1[e] - L0[e])
  BY ONLY <1>1, <1>7, <1>8, <1>10, SumChange
<1>13. SumFunctionOnSet(B1, S) \in Nat /\ SumFunctionOnSet(L1, S) \in Nat
  BY ONLY <1>1, <1>6, SumNat
<1>14. /\ SumFunctionOnSet(B1, S) = SumFunctionOnSet(Backlogs(c), Rings)
       /\ SumFunctionOnSet(B0, S) = SumFunctionOnSet(Backlogs(cs), Rings)
       /\ SumFunctionOnSet(L1, S) = SumFunctionOnSet(Lengths(c), Rings)
       /\ SumFunctionOnSet(L0, S) = SumFunctionOnSet(Lengths(cs), Rings)
  BY ONLY <1>1, <1>5
<1>15. /\ SumFunctionOnSet(Backlogs(c), Rings) = SumFunctionOnSet(Backlogs(cs), Rings) + (B1[e] - B0[e])
       /\ SumFunctionOnSet(Lengths(c), Rings) = SumFunctionOnSet(Lengths(cs), Rings) + (L1[e] - L0[e])
       /\ SumFunctionOnSet(Backlogs(c), Rings) \in Nat
       /\ SumFunctionOnSet(Lengths(c), Rings) \in Nat
  BY ONLY <1>11, <1>12, <1>13, <1>14, Zenon
<1> QED BY ONLY <1>9, <1>15, Zenon

\* A scheduler with another tin t and other accounts.
SchedSet(cs, t, u, x, q) == [cs EXCEPT !.tins[t] = u, !.usage = x, !.queued = q]

\* Accounts x and q follow when flow i of tin t becomes that of u.
Follow(cs, t, i, u, x, q) ==
  /\ x \in Int /\ x = cs.usage + (u.flows[i].backlog - cs.tins[t].flows[i].backlog)
  /\ q \in Int /\ q = cs.queued + (Len(u.flows[i].ring) - Len(cs.tins[t].flows[i].ring))
  /\ x <= Limit

\* The accounts follow the one flow that changed.
LEMMA TinChanged ==
  ASSUME NEW cs, WholeSched(cs), NEW t \in Tins, NEW i \in Queues,
         NEW u, Sound(u), Others(cs.tins[t].flows, u.flows, i),
         NEW x, NEW q, Follow(cs, t, i, u, x, q), NEW c, c = SchedSet(cs, t, u, x, q)
  PROVE  /\ WholeSched(c) /\ c.owner = cs.owner /\ c.weighted = cs.weighted /\ c.queued = q
         /\ c.usage = x /\ c.tins[t] = u
<1>1. /\ cs \in Scheduler /\ cs.tins \in [Tins -> Tin] /\ u \in Tin
      /\ cs.owner \in Threads \cup {None} /\ cs.weighted \in BOOLEAN
  BY ONLY WholeSched(cs), Sound(u) DEF WholeSched, Scheduler, Sound, Linked
<1>2. PICK T : T = [cs.tins EXCEPT ![t] = u]
  OBVIOUS
<1>3. T \in [Tins -> Tin] /\ T[t] = u /\ \A s \in Tins \ {t} : T[s] = cs.tins[s]
  BY ONLY <1>1, <1>2, t \in Tins
<1>4. c = [owner |-> cs.owner, tins |-> T, usage |-> x, queued |-> q, weighted |-> cs.weighted]
  BY ONLY <1>1, <1>2, c = SchedSet(cs, t, u, x, q) DEF SchedSet, Scheduler
<1>5. /\ c.owner = cs.owner /\ c.tins = T /\ c.usage = x /\ c.queued = q /\ c.weighted = cs.weighted
  BY ONLY <1>4
<1>6. /\ \A s \in Tins : Sound(cs.tins[s])
      /\ cs.usage = SumFunctionOnSet(Backlogs(cs), Rings)
      /\ cs.queued = SumFunctionOnSet(Lengths(cs), Rings)
  BY ONLY <1>1, WholeSched(cs), WholeIs DEF WholeSched
<1>7. \A s \in Tins : Sound(c.tins[s])
  BY ONLY <1>3, <1>5, <1>6, Sound(u)
<1>8. c.tins \in [Tins -> Tin] /\ c.tins[t] = u /\ \A s \in Tins \ {t} : c.tins[s] = cs.tins[s]
  BY ONLY <1>3, <1>5
<1>9. Others(cs.tins[t].flows, c.tins[t].flows, i)
  BY ONLY <1>8, Others(cs.tins[t].flows, u.flows, i)
<1> DEFINE b0 == SumFunctionOnSet(Backlogs(cs), Rings)
           b1 == SumFunctionOnSet(Backlogs(c), Rings)
           l0 == SumFunctionOnSet(Lengths(cs), Rings)
           l1 == SumFunctionOnSet(Lengths(c), Rings)
<1>10. cs.usage = b0 /\ cs.queued = l0
  BY ONLY <1>6
<1>11. /\ b1 = b0 + (c.tins[t].flows[i].backlog - cs.tins[t].flows[i].backlog)
       /\ l1 = l0 + (Len(c.tins[t].flows[i].ring) - Len(cs.tins[t].flows[i].ring))
       /\ b1 \in Nat /\ l1 \in Nat
  BY ONLY <1>1, <1>8, <1>9, t \in Tins, i \in Queues, AccountsFollow
<1> HIDE DEF b0, b1, l0, l1
<1>12. x = b1 /\ q = l1
  <2>1. x = b0 + (u.flows[i].backlog - cs.tins[t].flows[i].backlog)
    BY ONLY <1>10, Follow(cs, t, i, u, x, q) DEF Follow
  <2>2. q = l0 + (Len(u.flows[i].ring) - Len(cs.tins[t].flows[i].ring))
    BY ONLY <1>10, Follow(cs, t, i, u, x, q) DEF Follow
  <2> QED BY ONLY <1>8, <1>11, <2>1, <2>2
<1>13. c \in Scheduler
  BY ONLY <1>1, <1>3, <1>4, <1>11, <1>12 DEF Scheduler
<1>14. Whole(c)
  <2>1. x = SumFunctionOnSet(Backlogs(c), Rings) /\ q = SumFunctionOnSet(Lengths(c), Rings)
    BY ONLY <1>12 DEF b1, l1
  <2>2. x <= Limit
    BY ONLY Follow(cs, t, i, u, x, q) DEF Follow
  <2> QED BY ONLY <1>5, <1>7, <1>13, <2>1, <2>2, WholeIs
<1> QED BY ONLY <1>5, <1>8, <1>13, <1>14 DEF WholeSched

\* Another owner, or another weight, changes nothing else.
OwnerSet(cs, o) == [cs EXCEPT !.owner = o]
WeightOn(cs) == [cs EXCEPT !.weighted = TRUE]
WeightOff(cs) == [cs EXCEPT !.weighted = FALSE]

LEMMA OwnerChanged ==
  ASSUME NEW cs, WholeSched(cs), NEW o \in Threads, NEW c, c = OwnerSet(cs, o)
  PROVE  /\ WholeSched(c) /\ c.owner = o /\ c.weighted = cs.weighted
         /\ c.queued = cs.queued /\ c.tins = cs.tins /\ c.usage = cs.usage
<1>1. cs \in Scheduler
  BY DEF WholeSched
<1>2. /\ c \in Scheduler /\ c.owner = o /\ c.weighted = cs.weighted
      /\ c.queued = cs.queued /\ c.tins = cs.tins /\ c.usage = cs.usage
  BY <1>1 DEF Scheduler, OwnerSet
<1>3. Backlogs(c) = Backlogs(cs) /\ Lengths(c) = Lengths(cs)
  BY <1>2 DEF Backlogs, Lengths
<1> QED BY <1>2, <1>3 DEF WholeSched, Whole

LEMMA Unweighted ==
  ASSUME NEW cs, WholeSched(cs), NEW c, c = WeightOff(cs)
  PROVE  WholeSched(c) /\ c.owner = cs.owner /\ c.weighted = FALSE /\ c.queued = cs.queued
<1>1. cs \in Scheduler
  BY DEF WholeSched
<1>2. /\ c \in Scheduler /\ c.owner = cs.owner /\ c.weighted = FALSE
      /\ c.queued = cs.queued /\ c.tins = cs.tins /\ c.usage = cs.usage
  BY <1>1 DEF Scheduler, WeightOff
<1>3. Backlogs(c) = Backlogs(cs) /\ Lengths(c) = Lengths(cs)
  BY <1>2 DEF Backlogs, Lengths
<1> QED BY <1>2, <1>3 DEF WholeSched, Whole

LEMMA Weighted ==
  ASSUME NEW cs, WholeSched(cs), NEW c, c = WeightOn(cs)
  PROVE  WholeSched(c) /\ c.owner = cs.owner /\ c.weighted = TRUE /\ c.queued = cs.queued
<1>1. cs \in Scheduler
  BY DEF WholeSched
<1>2. /\ c \in Scheduler /\ c.owner = cs.owner /\ c.weighted = TRUE
      /\ c.queued = cs.queued /\ c.tins = cs.tins /\ c.usage = cs.usage
  BY <1>1 DEF Scheduler, WeightOn
<1>3. Backlogs(c) = Backlogs(cs) /\ Lengths(c) = Lengths(cs)
  BY <1>2 DEF Backlogs, Lengths
<1> QED BY <1>2, <1>3 DEF WholeSched, Whole
-----------------------------------------------------------------------------
(* What the nodes do to a scheduler. *)

LEMMA NoFlowFits == FlowFits(NoFlow) /\ Len(<<>>) = 0
<1>1. Len(<<>>) = 0 /\ 0 <= RingSize
  BY FlowAssumption
<1> QED BY <1>1, NoFlowIn, BytesEmpty DEF FlowFits

\* The flows and the accounts of a scheduler.
LEMMA WholeParts ==
  ASSUME NEW cs, WholeSched(cs), NEW t \in Tins, NEW i \in Queues
  PROVE  /\ cs.usage \in Nat /\ cs.queued \in Nat /\ cs.usage <= Limit /\ cs.weighted \in BOOLEAN
         /\ Sound(cs.tins[t]) /\ Linked(cs.tins[t]) /\ TagsAgree(cs.tins[t])
         /\ cs.tins[t].flows[i] \in Flow /\ FlowFits(cs.tins[t].flows[i])
         /\ cs.tins[t].flows[i].backlog \in Nat /\ Len(cs.tins[t].flows[i].ring) \in Nat
         /\ Limit \in Nat
<1>1. cs \in Scheduler /\ Sound(cs.tins[t]) /\ cs.usage <= Limit
  BY WholeIs DEF WholeSched
<1>2. cs.usage \in Nat /\ cs.queued \in Nat /\ cs.weighted \in BOOLEAN
  BY <1>1 DEF Scheduler
<1>3. Linked(cs.tins[t]) /\ TagsAgree(cs.tins[t]) /\ FlowFits(cs.tins[t].flows[i])
  BY <1>1 DEF Sound
<1>4. cs.tins[t].flows[i] \in Flow
  BY <1>3 DEF Linked, Tin
<1>5. \A f \in Flow : f.backlog \in Nat /\ Len(f.ring) \in Nat
  BY DEF Flow
<1> QED BY <1>1, <1>2, <1>3, <1>4, <1>5, FlowAssumption

LEMMA EvictedWhole ==
  ASSUME NEW cs, WholeSched(cs), NEW t \in Tins, NEW i \in Queues, NEW c, c = Evicted(cs, t, i)
  PROVE  /\ WholeSched(c) /\ c.owner = cs.owner /\ c.weighted = cs.weighted
         /\ c.queued <= cs.queued /\ c.tins[t].tags = cs.tins[t].tags
         /\ Others(cs.tins[t].flows, c.tins[t].flows, i) /\ c.tins[t].flows[i] = NoFlow
<1>1. PICK tin, f, u : tin = cs.tins[t] /\ f = tin.flows[i] /\ u = Unlinked(tin, i)
  OBVIOUS
<1>2. /\ cs.usage \in Nat /\ cs.queued \in Nat /\ cs.usage <= Limit
      /\ Sound(tin) /\ Linked(tin) /\ TagsAgree(tin) /\ f.backlog \in Nat /\ Len(f.ring) \in Nat
      /\ Limit \in Nat
  BY <1>1, WholeParts
<1>3. Linked(u) /\ u.tags = tin.tags /\ u.flows[i] = NoFlow /\ Others(tin.flows, u.flows, i)
  BY ONLY <1>1, <1>2, i \in Queues, UnlinkedLinked
<1>4. TagsAgree(u)
  <2>1. u.flows[i].state = "none"
    BY <1>3, NoFlowIn
  <2> QED BY ONLY <1>2, <1>3, <2>1, i \in Queues, TagsKept
<1>5. FlowFits(u.flows[i]) /\ u.flows[i].backlog = 0 /\ Len(u.flows[i].ring) = 0
  BY <1>3, NoFlowFits, NoFlowIn
<1>6. Sound(u)
  BY ONLY <1>2, <1>3, <1>4, <1>5, i \in Queues, SoundStep
<1>13. PICK b, l, m, n \in Nat : b = f.backlog /\ l = Len(f.ring) /\ m = cs.usage /\ n = cs.queued
  BY ONLY <1>2
<1>14. PICK x, q \in Int : x = m - b /\ q = n - l
  OBVIOUS
<1>7. Follow(cs, t, i, u, x, q) /\ q <= cs.queued
  <2>1. x = m + (0 - b) /\ q = n + (0 - l) /\ q <= n /\ (m <= Limit => x <= Limit)
    BY ONLY <1>2, <1>14, m \in Nat, b \in Nat, n \in Nat, l \in Nat
  <2>2. b = cs.tins[t].flows[i].backlog /\ l = Len(cs.tins[t].flows[i].ring)
    BY ONLY <1>1, <1>13
  <2> QED BY ONLY <1>2, <1>5, <1>13, x \in Int, q \in Int, <2>1, <2>2 DEF Follow
<1>8. c = SchedSet(cs, t, u, x, q)
  <2>1. cs \in Scheduler
    BY DEF WholeSched
  <2>2. x = cs.usage - f.backlog /\ q = cs.queued - Len(f.ring)
    BY ONLY <1>13, <1>14
  <2> QED BY <1>1, <2>1, <2>2 DEF Evicted, SchedSet, Scheduler
<1>9. Others(cs.tins[t].flows, u.flows, i)
  BY <1>1, <1>3
<1>10. /\ WholeSched(c) /\ c.owner = cs.owner /\ c.weighted = cs.weighted /\ c.queued = q /\ c.tins[t] = u
  BY ONLY <1>6, <1>7, <1>8, <1>9, WholeSched(cs), t \in Tins, i \in Queues, TinChanged
<1> QED BY <1>1, <1>3, <1>7, <1>10

\* cake_flow_lookup, also if the packet is then refused.
LEMMA FoundWhole ==
  ASSUME NEW cs, WholeSched(cs), NEW p \in Packet, NEW c, c = Found(cs, p)
  PROVE  /\ WholeSched(c) /\ c.owner = cs.owner /\ c.weighted = cs.weighted
         /\ c.queued <= cs.queued
         /\ SlotOf(c.tins[p.tin], p) \in Queues
         /\ c.tins[p.tin].tags[SlotOf(c.tins[p.tin], p)] = p.tag
<1>1. PICK t, i : t = p.tin /\ i = SlotOf(cs.tins[t], p)
  OBVIOUS
<1>0. PICK tag \in Nat : tag = p.tag /\ tag # 0
  BY DEF Packet
<1>2. t \in Tins
  BY <1>1 DEF Packet
<1>3. Sound(cs.tins[t])
  BY <1>2, WholeIs DEF WholeSched
<1>4. /\ i \in Queues /\ i \in Ways([tag |-> tag])
      /\ \A j \in Queues \ {i} : cs.tins[t].tags[j] # tag
  BY ONLY <1>0, <1>1, <1>3, p \in Packet, SlotFound
<1>5. PICK room : room = IF cs.tins[t].tags[i] \in {0, tag} THEN cs ELSE Evicted(cs, t, i)
  OBVIOUS
<1>6. /\ WholeSched(room) /\ room.owner = cs.owner /\ room.weighted = cs.weighted
      /\ room.queued <= cs.queued /\ room.tins[t].tags = cs.tins[t].tags
  <2>1. cs.queued <= cs.queued
    BY <1>2, <1>4, WholeParts
  <2> QED BY <1>2, <1>4, <1>5, <2>1, EvictedWhole
<1>7. PICK tin, u : tin = room.tins[t] /\ u = TagSet(tin, i, tag)
  OBVIOUS
<1>8. /\ Sound(tin) /\ Linked(tin) /\ TagsAgree(tin) /\ FlowFits(tin.flows[i])
      /\ room.usage \in Nat /\ room.queued \in Nat /\ room.usage <= Limit /\ room.weighted \in BOOLEAN
      /\ tin.flows[i].backlog \in Nat /\ Len(tin.flows[i].ring) \in Nat
  BY <1>2, <1>4, <1>6, <1>7, WholeParts
<1>9. Linked(u) /\ u.tags[i] = tag /\ Others(tin.tags, u.tags, i) /\ u.flows = tin.flows
  <2>1. Linked(tin) /\ u = TagSet(tin, i, tag)
    BY ONLY <1>7, <1>8
  <2>2. i \in Queues
    BY ONLY <1>4
  <2> QED BY ONLY <2>1, <2>2, tag \in Nat, Retagged
<1>10. Others(tin.flows, u.flows, i)
  BY <1>9 DEF Others
<1>11. TagsAgree(u)
  <2>1. \A j \in Queues \ {i} : tin.tags[j] # tag
    BY <1>4, <1>6, <1>7
  <2> QED BY ONLY <1>0, <1>4, <1>8, <1>9, <1>10, <2>1, TagsTaken
<1>12. Sound(u)
  <2>1. FlowFits(u.flows[i])
    BY <1>8, <1>9
  <2> QED BY ONLY <1>4, <1>8, <1>9, <1>10, <1>11, <2>1, SoundStep
<1>13. c = SchedSet(room, t, u, room.usage, room.queued)
  <2>1. room \in Scheduler
    BY <1>6 DEF WholeSched
  <2>2. c = [room EXCEPT !.tins[t].tags[i] = p.tag]
    BY <1>0, <1>1, <1>5 DEF Found
  <2>3. u = [room.tins[t] EXCEPT !.tags[i] = p.tag]
    BY ONLY <1>0, <1>7 DEF TagSet
  <2>4. c = [room EXCEPT !.tins = [room.tins EXCEPT ![t] = u]]
    BY ONLY <2>2, <2>3
  <2> QED BY ONLY <2>1, <2>4 DEF SchedSet, Scheduler
<1>14. PICK x, q \in Int : x = room.usage /\ q = room.queued
  BY <1>8
<1>15. Follow(room, t, i, u, x, q)
  <2>1. PICK b, l \in Nat : b = tin.flows[i].backlog /\ l = Len(tin.flows[i].ring)
    BY ONLY <1>8
  <2>2. x = x + (b - b) /\ q = q + (l - l)
    BY ONLY x \in Int, q \in Int, b \in Nat, l \in Nat
  <2> QED BY ONLY <1>7, <1>8, <1>9, <1>14, x \in Int, q \in Int, <2>1, <2>2 DEF Follow
<1>16. Others(room.tins[t].flows, u.flows, i) /\ c = SchedSet(room, t, u, x, q)
  BY <1>7, <1>10, <1>13, <1>14
<1>17. /\ WholeSched(c) /\ c.owner = room.owner /\ c.weighted = room.weighted /\ c.queued = q /\ c.tins[t] = u
  BY ONLY <1>2, <1>4, <1>6, <1>12, <1>15, <1>16, TinChanged
<1>18. /\ SlotOf(c.tins[p.tin], p) \in Queues
       /\ c.tins[p.tin].tags[SlotOf(c.tins[p.tin], p)] = p.tag
  <2>1. PICK k : k = SlotOf(u, p)
    OBVIOUS
  <2>2. i \in Ways(p) /\ u.tags[i] = tag
    BY <1>0, <1>4, <1>9, WaysIn
  <2>3. k \in Queues /\ ((\E j \in Ways(p) : u.tags[j] = p.tag) => u.tags[k] = p.tag)
    BY ONLY <1>12, <2>1, p \in Packet, SlotFound
  <2> QED BY <1>0, <1>1, <1>17, <2>1, <2>2, <2>3
<1> QED BY <1>6, <1>14, <1>17, <1>18

\* A packet fits a ring and the account.
LEMMA QueuedWhole ==
  ASSUME NEW cs, WholeSched(cs), NEW p \in Packet, Fits(cs, p), NEW c, c = Queued(cs, p)
  PROVE  WholeSched(c) /\ c.owner = cs.owner /\ c.weighted = TRUE
<1> DEFINE found == Found(cs, p)
           t == p.tin
           tin == found.tins[t]
           i == SlotOf(tin, p)
           opened == Opened(tin, i, p)
           full == [opened EXCEPT !.flows[i].ring = Append(@, p.len),
                                  !.flows[i].backlog = @ + p.len]
           u == Promoted(full, i)
<1>0. c = [found EXCEPT !.tins[t] = u, !.usage = @ + p.len, !.queued = @ + 1, !.weighted = TRUE]
  BY DEF Queued
<1>1. found = Found(cs, p) /\ t = p.tin /\ tin = found.tins[t] /\ i = SlotOf(tin, p)
  OBVIOUS
<1>7. opened = Opened(tin, i, p)
  OBVIOUS
<1>14. full = [opened EXCEPT !.flows[i].ring = Append(@, p.len), !.flows[i].backlog = @ + p.len]
  OBVIOUS
<1>16. u = Promoted(full, i)
  OBVIOUS
<1>6. found.usage + p.len <= Limit /\ Len(tin.flows[i].ring) < RingSize
  BY DEF Fits
<1> HIDE DEF found, t, tin, i, opened, full, u
<1>2. PICK len \in Nat : len = p.len
  BY DEF Packet
<1>3. t \in Tins /\ p.tag # 0
  BY <1>1 DEF Packet
<1>4. WholeSched(found) /\ found.owner = cs.owner /\ i \in Queues /\ tin.tags[i] # 0
  BY <1>1, <1>3, FoundWhole
<1>5. /\ found.usage \in Nat /\ found.queued \in Nat
      /\ Sound(tin) /\ Linked(tin) /\ TagsAgree(tin)
      /\ tin.flows[i] \in Flow /\ FlowFits(tin.flows[i])
      /\ tin.flows[i].backlog \in Nat /\ Len(tin.flows[i].ring) \in Nat
  BY <1>1, <1>3, <1>4, WholeParts
<1>8. /\ Linked(opened) /\ opened.tags = tin.tags /\ Others(tin.flows, opened.flows, i)
      /\ opened.flows[i].ring = tin.flows[i].ring
      /\ opened.flows[i].backlog = tin.flows[i].backlog
      /\ opened.flows[i].state # "none"
  <2>1. CASE tin.flows[i].state = "none"
    <3>1. tin.flows[i].ring = <<>> /\ tin.flows[i].backlog = 0
      BY <1>5, <2>1, BytesEmpty DEF FlowFits
    <3>2. /\ Linked(opened) /\ opened.tags = tin.tags /\ Others(tin.flows, opened.flows, i)
          /\ opened.flows[i].state = "sparse" /\ opened.flows[i].ring = <<>>
          /\ opened.flows[i].backlog = 0
      BY ONLY <1>4, <1>5, <1>7, <2>1, p \in Packet, OpenedLinked
    <3> QED BY <3>1, <3>2
  <2>2. CASE tin.flows[i].state # "none"
    <3>1. opened = tin
      BY <1>7, <2>2 DEF Opened
    <3> QED BY <1>5, <2>2, <3>1 DEF Others
  <2> QED BY <2>1, <2>2
<1>9. PICK g : g = opened.flows[i]
  OBVIOUS
<1>10. g \in Flow /\ g.ring = tin.flows[i].ring /\ g.backlog = tin.flows[i].backlog
       /\ g.state # "none"
  BY <1>4, <1>8, <1>9 DEF Linked, Tin
<1>28. PICK r, l : r = Append(g.ring, len) /\ l = g.backlog + len
  OBVIOUS
<1>29. PICK f : f = [g EXCEPT !.ring = r, !.backlog = l]
  OBVIOUS
<1>11. /\ r = Append(g.ring, len) /\ l = g.backlog + len
       /\ f = [g EXCEPT !.ring = r, !.backlog = l]
  BY ONLY <1>28, <1>29
<1>12. r \in Seq(Nat) /\ l \in Nat /\ Len(r) = Len(g.ring) + 1 /\ Bytes(r) = Bytes(g.ring) + len
  <2>1. g.ring \in Seq(Nat) /\ g.backlog \in Nat
    BY <1>10 DEF Flow
  <2>2. Bytes(r) = Bytes(g.ring) + len
    BY ONLY <1>11, <2>1, len \in Nat, BytesAppend
  <2> QED BY <1>11, <2>1, <2>2
<1>13. f \in Flow /\ f.state = g.state /\ f.host = g.host /\ f.ring = r /\ f.backlog = l
  BY ONLY <1>10, <1>11, <1>12 DEF Flow
<1>24. full = FlowSet(opened, i, f)
  <2>1. opened \in Tin
    BY <1>8 DEF Linked
  <2>2. PICK h, F, o : /\ h = [g EXCEPT !.ring = r] /\ F = [opened.flows EXCEPT ![i] = h]
                       /\ o = [opened EXCEPT !.flows = F]
    OBVIOUS
  <2>3. h.backlog = g.backlog /\ f = [h EXCEPT !.backlog = l]
    BY ONLY <1>10, <1>11, <2>2 DEF Flow
  <2>4. F[i] = h /\ [F EXCEPT ![i] = f] = [opened.flows EXCEPT ![i] = f]
    <3>1. PICK F0 : F0 = opened.flows /\ F0 \in [Queues -> Flow]
      BY ONLY <2>1 DEF Tin
    <3>2. F = [F0 EXCEPT ![i] = h] /\ i \in Queues
      BY ONLY <1>4, <2>2, <3>1
    <3>3. F[i] = h
      BY ONLY <3>1, <3>2
    <3>4. [F EXCEPT ![i] = f] = [F0 EXCEPT ![i] = f]
      BY ONLY <3>1, <3>2
    <3> QED BY ONLY <3>1, <3>3, <3>4
  <2>5. o.flows = F /\ [o EXCEPT !.flows = [F EXCEPT ![i] = f]] = [opened EXCEPT !.flows = [F EXCEPT ![i] = f]]
    <3>1. PICK G : G = [F EXCEPT ![i] = f]
      OBVIOUS
    <3>2. o.flows = F /\ [o EXCEPT !.flows = G] = [opened EXCEPT !.flows = G]
      BY ONLY <2>1, <2>2 DEF Tin
    <3> QED BY ONLY <3>1, <3>2
  <2>6. full = [o EXCEPT !.flows[i].backlog = @ + len]
    <3> DEFINE o1 == [opened EXCEPT !.flows[i].ring = Append(@, p.len)]
    <3>1. full = [o1 EXCEPT !.flows[i].backlog = @ + p.len]
      BY ONLY <1>14
    <3>2. o1 = [opened EXCEPT !.flows = [opened.flows EXCEPT ![i] = [g EXCEPT !.ring = Append(g.ring, len)]]]
      BY ONLY <1>2, <1>9
    <3>3. o1 = o
      BY ONLY <1>11, <2>2, <3>2
    <3> HIDE DEF o1
    <3> QED BY ONLY <1>2, <3>1, <3>3
  <2>7. full = [o EXCEPT !.flows = [F EXCEPT ![i] = f]]
    BY ONLY <1>11, <2>3, <2>4, <2>5, <2>6
  <2> QED BY ONLY <2>4, <2>5, <2>7 DEF FlowSet
<1>15. /\ Linked(full) /\ full.tags = opened.tags
       /\ full.flows[i] = f /\ Others(opened.flows, full.flows, i)
  <2>1. Alike(opened.flows[i], f)
    BY <1>9, <1>13 DEF Alike
  <2> QED BY ONLY <1>4, <1>8, <1>24, <2>1, FlowTouched
<1>17. /\ Carries(full, u, i)
       /\ u.flows[i].state = IF Promotes(full.flows[i]) THEN "bulk" ELSE full.flows[i].state
  BY ONLY <1>4, <1>15, <1>16, PromotedLinked
<1>18. /\ Linked(u) /\ u.tags = tin.tags /\ Others(tin.flows, u.flows, i)
       /\ u.flows[i].ring = r /\ u.flows[i].backlog = l
       /\ u.flows[i].state = IF Promotes(f) THEN "bulk" ELSE g.state
  BY <1>8, <1>13, <1>15, <1>17 DEF Carries, Others
<1>19. FlowFits(u.flows[i]) /\ u.flows[i].state # "none"
  <2>1. g.state \in {"none", "sparse", "bulk", "decaying"}
    BY <1>10 DEF Flow
  <2>2. PICK n \in Nat : n = Len(g.ring) /\ Len(r) = n + 1 /\ n < RingSize
    BY <1>5, <1>6, <1>10, <1>12
  <2>3. Len(r) <= RingSize
    BY <2>2, FlowAssumption
  <2>4. u.flows[i].state # "none" /\ u.flows[i].state # "decaying"
    BY <1>10, <1>13, <1>18 DEF Promotes
  <2>5. u.flows[i].state = "sparse" => Len(r) = 1
    <3>1. u.flows[i].state = "sparse" => ~(Len(r) > 1)
      BY <1>13, <1>18 DEF Promotes
    <3> QED BY <2>2, <3>1
  <2>6. l = Bytes(r)
    BY <1>5, <1>10, <1>11, <1>12 DEF FlowFits
  <2> QED BY ONLY <1>18, <2>3, <2>4, <2>5, <2>6 DEF FlowFits
<1>20. TagsAgree(u)
  BY ONLY <1>4, <1>5, <1>18, TagsKept
<1>21. Sound(u)
  BY ONLY <1>4, <1>5, <1>18, <1>19, <1>20, SoundStep
<1>22. PICK x, q \in Int : x = found.usage + len /\ q = found.queued + 1
  BY <1>5
<1>23. Follow(found, t, i, u, x, q)
  <2>1. PICK b, n \in Nat : b = g.backlog /\ n = Len(g.ring)
    BY ONLY <1>5, <1>10
  <2>2. PICK y, z \in Nat : y = found.usage /\ z = found.queued
    BY ONLY <1>5
  <2>3. u.flows[i].backlog = b + len /\ Len(u.flows[i].ring) = n + 1
    BY ONLY <1>11, <1>12, <1>18, <2>1
  <2>4. found.tins[t].flows[i].backlog = b /\ Len(found.tins[t].flows[i].ring) = n
    BY ONLY <1>1, <1>10, <2>1
  <2>5. x = y + len /\ q = z + 1 /\ y + len <= Limit
    BY ONLY <1>2, <1>6, <1>22, <2>2
  <2>6. y + len = y + ((b + len) - b) /\ z + 1 = z + ((n + 1) - n)
    BY ONLY b \in Nat, n \in Nat, y \in Nat, z \in Nat, len \in Nat
  <2> QED BY ONLY <2>2, <2>3, <2>4, <2>5, <2>6, x \in Int, q \in Int DEF Follow
<1>25. PICK v : v = SchedSet(found, t, u, x, q)
  OBVIOUS
<1>26. WholeSched(v) /\ v.owner = found.owner
  <2>1. Others(found.tins[t].flows, u.flows, i)
    BY <1>1, <1>18
  <2> QED BY ONLY <1>3, <1>4, <1>21, <1>23, <1>25, <2>1, TinChanged
<1>27. c = WeightOn(v)
  <2>1. found \in Scheduler
    BY <1>4 DEF WholeSched
  <2>2. c = [found EXCEPT !.tins[t] = u, !.usage = x, !.queued = q, !.weighted = TRUE]
    <3>1. PICK T : T = [found.tins EXCEPT ![t] = u]
      OBVIOUS
    <3>2. PICK k : k = [found EXCEPT !.tins = T]
      OBVIOUS
    <3>3. k.usage = found.usage /\ k.queued = found.queued
      BY ONLY <2>1, <3>2 DEF Scheduler
    <3> QED BY ONLY <1>0, <1>2, <1>22, <2>1, <3>1, <3>2, <3>3 DEF Scheduler
  <2> QED BY ONLY <1>25, <2>2 DEF SchedSet, WeightOn
<1> QED BY ONLY <1>4, <1>26, <1>27, Weighted

\* A flow that keeps its packets leaves the accounts as they are.
TinSet(cs, t, u) == [cs EXCEPT !.tins[t] = u]

LEMMA TinSwapped ==
  ASSUME NEW cs, WholeSched(cs), NEW t \in Tins, NEW i \in Queues,
         NEW u, Sound(u), Others(cs.tins[t].flows, u.flows, i),
         u.flows[i].backlog = cs.tins[t].flows[i].backlog,
         Len(u.flows[i].ring) = Len(cs.tins[t].flows[i].ring),
         NEW c, c = TinSet(cs, t, u)
  PROVE  /\ WholeSched(c) /\ c.owner = cs.owner /\ c.weighted = cs.weighted
         /\ c.queued = cs.queued /\ c.tins[t] = u
<1>1. /\ cs.usage \in Nat /\ cs.queued \in Nat /\ cs.usage <= Limit
      /\ cs.tins[t].flows[i].backlog \in Nat /\ Len(cs.tins[t].flows[i].ring) \in Nat
  BY WholeParts
<1>2. PICK x, q \in Int : x = cs.usage /\ q = cs.queued
  BY <1>1
<1>3. PICK b, l \in Nat : b = cs.tins[t].flows[i].backlog /\ l = Len(cs.tins[t].flows[i].ring)
  BY ONLY <1>1
<1>4. Follow(cs, t, i, u, x, q)
  <2>1. x = x + (b - b) /\ q = q + (l - l)
    BY ONLY x \in Int, q \in Int, b \in Nat, l \in Nat
  <2>2. u.flows[i].backlog = b /\ Len(u.flows[i].ring) = l
    BY <1>3
  <2> QED BY ONLY <1>1, <1>2, <1>3, <2>1, <2>2, x \in Int, q \in Int DEF Follow
<1>5. c = SchedSet(cs, t, u, x, q)
  <2>1. cs \in Scheduler /\ c = [cs EXCEPT !.tins = [cs.tins EXCEPT ![t] = u]]
    BY DEF TinSet, WholeSched
  <2> QED BY ONLY <1>2, <2>1 DEF SchedSet, Scheduler
<1>6. /\ WholeSched(c) /\ c.owner = cs.owner /\ c.weighted = cs.weighted /\ c.queued = q
      /\ c.tins[t] = u
  BY ONLY WholeSched(cs), t \in Tins, i \in Queues, Sound(u),
          Others(cs.tins[t].flows, u.flows, i), <1>4, <1>5, TinChanged
<1> QED BY <1>2, <1>6

\* cake_select_flow: a scheduler with something to do has a flow.
LEMMA SelectedIn ==
  ASSUME NEW cs, WholeSched(cs), Busy(cs) # {}
  PROVE  /\ TinOf(cs) \in Tins /\ FlowOf(cs) \in Queues
         /\ Selected(cs) = cs.tins[TinOf(cs)].flows[FlowOf(cs)]
         /\ Selected(cs).state \in {"sparse", "bulk", "decaying"}
<1>1. PICK t : t = TinOf(cs) /\ t \in Busy(cs)
  <2>1. PICK S : S = Busy(cs)
    OBVIOUS
  <2>2. S \in SUBSET (0..NTins) /\ S # {} /\ NTins \in Nat
    BY <2>1, FlowAssumption DEF Busy, Tins
  <2>3. Max(S) \in S
    BY ONLY <2>2, MaxIn
  <2> QED BY <2>1, <2>3 DEF TinOf
<1>2. t \in Tins /\ (cs.tins[t].sparse + cs.tins[t].bulk > 0 \/ cs.tins[t].decaying # <<>>)
  BY <1>1 DEF Busy
<1>3. PICK tin : tin = cs.tins[t] /\ Linked(tin)
  BY <1>2, WholeIs DEF WholeSched, Sound
<1>4. /\ ListIs(tin.new, tin.sparse, tin.flows, "sparse") /\ ListIs(tin.old, tin.bulk, tin.flows, "bulk")
      /\ ListIs(tin.decaying, Len(tin.decaying), tin.flows, "decaying")
  BY <1>3 DEF Linked
<1>5. ASSUME NEW l, NEW n, NEW x, ListIs(l, n, tin.flows, x), l # <<>>
      PROVE  Head(l) \in Queues /\ tin.flows[Head(l)].state = x
  <2>1. l \in Seq(Queues) /\ Len(l) > 0 /\ Head(l) = l[1]
    BY <1>5 DEF ListIs
  <2>2. Head(l) \in ToSet(l)
    BY <2>1 DEF ToSet
  <2> QED BY <1>5, <2>2 DEF ListIs
<1>6. ASSUME NEW l, NEW n, NEW x, ListIs(l, n, tin.flows, x), l = <<>> PROVE n = 0
  BY <1>6 DEF ListIs
<1>7. FlowOf(cs) = IF tin.new # <<>> THEN Head(tin.new)
                   ELSE IF tin.old # <<>> THEN Head(tin.old) ELSE Head(tin.decaying)
  BY <1>1, <1>3 DEF FlowOf
<1>8. tin.new = <<>> /\ tin.old = <<>> => tin.decaying # <<>>
  <2>1. tin.new = <<>> /\ tin.old = <<>> => tin.sparse = 0 /\ tin.bulk = 0
    BY ONLY <1>4, <1>6
  <2> QED BY <1>2, <1>3, <2>1
<1>9. /\ FlowOf(cs) \in Queues
      /\ tin.flows[FlowOf(cs)].state \in {"sparse", "bulk", "decaying"}
  <2>1. CASE tin.new # <<>>
    BY ONLY <1>4, <1>5, <1>7, <2>1
  <2>2. CASE tin.new = <<>> /\ tin.old # <<>>
    BY ONLY <1>4, <1>5, <1>7, <2>2
  <2>3. CASE tin.new = <<>> /\ tin.old = <<>>
    BY ONLY <1>4, <1>5, <1>7, <1>8, <2>3
  <2> QED BY <2>1, <2>2, <2>3
<1> QED BY <1>1, <1>2, <1>3, <1>9 DEF Selected

LEMMA DeficitInt ==
  ASSUME NEW cs, WholeSched(cs), Busy(cs) # {}
  PROVE  Deficit(cs) \in Int
<1>1. PICK t, i, tin, f : t = TinOf(cs) /\ i = FlowOf(cs) /\ tin = cs.tins[t] /\ f = Selected(cs)
  OBVIOUS
<1>2. t \in Tins /\ i \in Queues /\ f = tin.flows[i]
  BY <1>1, SelectedIn
<1>3. Linked(tin) /\ f \in Flow
  BY <1>1, <1>2, WholeParts
<1>4. f.deficit \in Int /\ f.host \in HostSlots
  BY <1>3 DEF Flow
<1>5. tin.hosts[f.host].bulk \in Nat
  BY <1>3, <1>4 DEF Linked, HostsFit, Host
<1>6. PICK k \in Int : k = QuantumOf(tin, f)
  BY <1>5, QuantumInt
<1>7. PICK d \in Int : d = f.deficit
  BY <1>4
<1>8. Deficit(cs) = IF IsSparse(cs) \/ d > 0 THEN d ELSE d + k
  BY <1>1, <1>6, <1>7 DEF Deficit
<1> QED BY <1>8

\* The flow a turn is about, with the deficit it starts with.
LEMMA RefilledTin ==
  ASSUME NEW cs, WholeSched(cs), Busy(cs) # {}, NEW t, t = TinOf(cs), NEW i, i = FlowOf(cs),
         NEW v, v = Refilled(cs).tins[t]
  PROVE  /\ Refilled(cs) = TinSet(cs, t, v)
         /\ Sound(v) /\ Linked(v) /\ TagsAgree(v) /\ v.tags = cs.tins[t].tags
         /\ Others(cs.tins[t].flows, v.flows, i)
         /\ v.flows[i].deficit = Deficit(cs)
         /\ v.flows[i].state = Selected(cs).state /\ v.flows[i].ring = Selected(cs).ring
         /\ v.flows[i].backlog = Selected(cs).backlog
<1>1. t \in Tins /\ i \in Queues /\ Selected(cs) = cs.tins[t].flows[i]
  BY SelectedIn
<1>2. PICK tin, f : tin = cs.tins[t] /\ f = tin.flows[i] /\ f = Selected(cs)
  BY <1>1
<1>3. Linked(tin) /\ Sound(tin) /\ TagsAgree(tin) /\ f \in Flow /\ FlowFits(f)
  BY <1>1, <1>2, WholeParts
<1>4. PICK d \in Int : d = Deficit(cs)
  BY DeficitInt
<1>5. PICK g : g = [f EXCEPT !.deficit = d]
  OBVIOUS
<1>6. /\ g \in Flow /\ g.deficit = d /\ g.state = f.state /\ g.host = f.host
      /\ g.ring = f.ring /\ g.backlog = f.backlog
  BY ONLY <1>3, <1>5, d \in Int DEF Flow
<1>7. PICK u : u = FlowSet(tin, i, g)
  OBVIOUS
<1>8. Linked(u) /\ u.tags = tin.tags /\ u.flows[i] = g /\ Others(tin.flows, u.flows, i)
  <2>1. Alike(tin.flows[i], g)
    BY <1>2, <1>6 DEF Alike
  <2> QED BY ONLY <1>1, <1>3, <1>7, <2>1, FlowTouched
<1>9. Refilled(cs) = TinSet(cs, t, u)
  <2>1. Refilled(cs) = [cs EXCEPT !.tins[t].flows[i].deficit = d]
    BY <1>4 DEF Refilled
  <2> QED BY ONLY <1>2, <1>5, <1>7, <2>1 DEF TinSet, FlowSet
<1>10. v = u
  <2>1. cs \in Scheduler
    BY DEF WholeSched
  <2>2. TinSet(cs, t, u).tins[t] = u
    BY ONLY <1>1, <2>1 DEF TinSet, Scheduler
  <2> QED BY <1>9, <2>2
<1>11. TagsAgree(u)
  <2>1. u.flows[i].state # "none" => tin.tags[i] # 0
    BY <1>1, <1>2, <1>3, <1>6, <1>8 DEF TagsAgree
  <2> QED BY ONLY <1>1, <1>3, <1>8, <2>1, TagsKept
<1>12. FlowFits(u.flows[i])
  BY <1>3, <1>6, <1>8 DEF FlowFits
<1>13. Sound(u)
  BY ONLY <1>1, <1>3, <1>8, <1>11, <1>12, SoundStep
<1> QED BY ONLY <1>2, <1>4, <1>6, <1>8, <1>9, <1>10, <1>11, <1>13

LEMMA RefilledWhole ==
  ASSUME NEW cs, WholeSched(cs), Busy(cs) # {}, NEW c, c = Refilled(cs)
  PROVE  /\ WholeSched(c) /\ c.owner = cs.owner /\ c.weighted = cs.weighted
         /\ c.queued = cs.queued
<1>1. PICK t, i, v : t = TinOf(cs) /\ i = FlowOf(cs) /\ v = Refilled(cs).tins[t]
  OBVIOUS
<1>2. t \in Tins /\ i \in Queues /\ Selected(cs) = cs.tins[t].flows[i]
  BY <1>1, SelectedIn
<1>3. /\ c = TinSet(cs, t, v) /\ Sound(v) /\ Others(cs.tins[t].flows, v.flows, i)
      /\ v.flows[i].ring = Selected(cs).ring /\ v.flows[i].backlog = Selected(cs).backlog
  BY <1>1, RefilledTin
<1>4. /\ v.flows[i].backlog = cs.tins[t].flows[i].backlog
      /\ Len(v.flows[i].ring) = Len(cs.tins[t].flows[i].ring)
  BY ONLY <1>2, <1>3
<1> QED BY ONLY WholeSched(cs), <1>2, <1>3, <1>4, TinSwapped

\* A flow that is carried on fits still, if its new state allows its ring.
LEMMA CarriedSound ==
  ASSUME NEW v, Sound(v), NEW i \in Queues, NEW u, Carries(v, u, i), FlowFits(u.flows[i]),
         u.flows[i].state # "none" => v.flows[i].state # "none"
  PROVE  Sound(u)
<1>1. Linked(u) /\ u.tags = v.tags /\ Others(v.flows, u.flows, i)
  BY DEF Carries
<1>2. TagsAgree(v) /\ (v.flows[i].state # "none" => v.tags[i] # 0)
  BY DEF Sound, TagsAgree
<1>3. TagsAgree(u)
  BY ONLY <1>1, <1>2, i \in Queues, u.flows[i].state # "none" => v.flows[i].state # "none", TagsKept
<1> QED BY <1>1, <1>3, SoundStep

\* An empty flow is reclaimed.
LEMMA ReclaimedSound ==
  ASSUME NEW v, Linked(v), TagsAgree(v), NEW i \in Queues,
         \A j \in Queues \ {i} : FlowFits(v.flows[j]), NEW u, u = Reclaimed(v, i)
  PROVE  /\ Sound(u) /\ Others(v.flows, u.flows, i)
         /\ u.flows[i].ring = <<>> /\ u.flows[i].backlog = 0
<1>1. /\ Linked(u) /\ u.tags[i] = 0 /\ Others(v.tags, u.tags, i)
      /\ u.flows[i] = NoFlow /\ Others(v.flows, u.flows, i)
  BY ReclaimedLinked
<1>2. u.flows[i].state = "none" /\ u.flows[i].ring = <<>> /\ u.flows[i].backlog = 0
  BY <1>1, NoFlowIn
<1>3. TagsAgree(u)
  BY ONLY TagsAgree(v), i \in Queues, <1>1, <1>2, TagsFreed
<1>4. \A j \in Queues : FlowFits(u.flows[j])
  BY <1>1, NoFlowFits DEF Others
<1> QED BY <1>1, <1>2, <1>3, <1>4 DEF Sound

LEMMA TurnedWhole ==
  ASSUME NEW cs, WholeSched(cs), Busy(cs) # {}, ~HasPacket(cs), NEW c, c = Turned(cs)
  PROVE  /\ WholeSched(c) /\ c.owner = cs.owner /\ c.weighted = cs.weighted
         /\ c.queued = cs.queued
<1>1. PICK t, i, v : t = TinOf(cs) /\ i = FlowOf(cs) /\ v = Refilled(cs).tins[t]
  OBVIOUS
<1>2. /\ t \in Tins /\ i \in Queues /\ Selected(cs) = cs.tins[t].flows[i]
      /\ Selected(cs).state \in {"sparse", "bulk", "decaying"}
  BY <1>1, SelectedIn
<1>3. /\ Sound(v) /\ Linked(v) /\ TagsAgree(v)
      /\ Others(cs.tins[t].flows, v.flows, i)
      /\ v.flows[i].deficit = Deficit(cs) /\ v.flows[i].state = Selected(cs).state
      /\ v.flows[i].ring = Selected(cs).ring /\ v.flows[i].backlog = Selected(cs).backlog
  BY <1>1, RefilledTin
<1>4. PICK d \in Int : d = Deficit(cs)
  BY DeficitInt
<1>5. FlowFits(v.flows[i])
  BY <1>2, <1>3 DEF Sound
<1>6. ~(d <= 0) => v.flows[i].ring = <<>> /\ v.flows[i].backlog = 0
  <2>1. ~(d <= 0) => d > 0
    OBVIOUS
  <2>2. d > 0 => v.flows[i].ring = <<>>
    BY <1>3, <1>4 DEF HasPacket
  <2> QED BY <1>5, <2>1, <2>2, BytesEmpty DEF FlowFits
<1>7. PICK u : u = IF d <= 0 THEN Rotated(v, i)
                   ELSE IF v.flows[i].state = "bulk" THEN Decayed(v, i) ELSE Reclaimed(v, i)
  OBVIOUS
<1>8. c = TinSet(cs, t, u)
  <2>1. u = IF v.flows[i].deficit <= 0 THEN Rotated(v, i)
            ELSE IF v.flows[i].state = "bulk" THEN Decayed(v, i) ELSE Reclaimed(v, i)
    BY ONLY <1>3, <1>4, <1>7
  <2> QED BY <1>1, <2>1 DEF Turned, TinSet
<1>9. /\ Sound(u) /\ Others(v.flows, u.flows, i)
      /\ u.flows[i].backlog = v.flows[i].backlog /\ Len(u.flows[i].ring) = Len(v.flows[i].ring)
  <2>1. CASE d <= 0
    <3>1. u = Rotated(v, i)
      BY <1>7, <2>1
    <3>2. Carries(v, u, i) /\ u.flows[i].state = v.flows[i].state
      BY ONLY <1>2, <1>3, <3>1, RotatedLinked
    <3>3. FlowFits(u.flows[i])
      BY <1>5, <3>2 DEF Carries, FlowFits
    <3>4. Sound(u)
      BY ONLY <1>2, <1>3, <3>2, <3>3, CarriedSound
    <3> QED BY <3>2, <3>4 DEF Carries
  <2>2. CASE ~(d <= 0) /\ v.flows[i].state = "bulk"
    <3>1. u = Decayed(v, i)
      BY <1>7, <2>2
    <3>2. Carries(v, u, i) /\ u.flows[i].state = "decaying"
      BY ONLY <1>2, <1>3, <2>2, <3>1, DecayedLinked
    <3>3. FlowFits(u.flows[i])
      BY <1>5, <1>6, <2>2, <3>2 DEF Carries, FlowFits
    <3>4. Sound(u)
      BY ONLY <1>2, <1>3, <2>2, <3>2, <3>3, CarriedSound
    <3> QED BY <3>2, <3>4 DEF Carries
  <2>3. CASE ~(d <= 0) /\ v.flows[i].state # "bulk"
    <3>1. u = Reclaimed(v, i)
      BY <1>7, <2>3
    <3>2. \A j \in Queues \ {i} : FlowFits(v.flows[j])
      BY <1>3 DEF Sound
    <3>3. /\ Sound(u) /\ Others(v.flows, u.flows, i)
          /\ u.flows[i].ring = <<>> /\ u.flows[i].backlog = 0
      BY ONLY <1>2, <1>3, <3>1, <3>2, ReclaimedSound
    <3> QED BY <1>6, <2>3, <3>3
  <2> QED BY <2>1, <2>2, <2>3
<1>10. /\ Others(cs.tins[t].flows, u.flows, i)
       /\ u.flows[i].backlog = cs.tins[t].flows[i].backlog
       /\ Len(u.flows[i].ring) = Len(cs.tins[t].flows[i].ring)
  BY ONLY <1>2, <1>3, <1>9 DEF Others
<1> QED BY ONLY WholeSched(cs), <1>2, <1>8, <1>9, <1>10, TinSwapped

LEMMA FlowSetTwice ==
  ASSUME NEW tin \in Tin, NEW i \in Queues, NEW g, NEW h, NEW o, o = FlowSet(tin, i, g)
  PROVE  o.flows[i] = g /\ FlowSet(o, i, h) = FlowSet(tin, i, h)
<1>1. PICK F : F = tin.flows /\ F \in [Queues -> Flow]
  BY DEF Tin
<1>2. PICK G, H : G = [F EXCEPT ![i] = g] /\ H = [F EXCEPT ![i] = h]
  OBVIOUS
<1>3. G[i] = g /\ [G EXCEPT ![i] = h] = H
  BY ONLY <1>1, <1>2, i \in Queues
<1>4. o = [tin EXCEPT !.flows = G] /\ FlowSet(tin, i, h) = [tin EXCEPT !.flows = H]
  BY ONLY <1>1, <1>2, o = FlowSet(tin, i, g) DEF FlowSet
<1>5. o.flows = G
  BY ONLY <1>4, tin \in Tin DEF Tin
<1>6. FlowSet(o, i, h) = [o EXCEPT !.flows = H]
  BY ONLY <1>3, <1>5 DEF FlowSet
<1>7. [o EXCEPT !.flows = H] = [tin EXCEPT !.flows = H]
  BY ONLY <1>4, tin \in Tin DEF Tin
<1> QED BY ONLY <1>3, <1>4, <1>5, <1>6, <1>7

LEMMA TakenWhole ==
  ASSUME NEW cs, WholeSched(cs), Busy(cs) # {}, HasPacket(cs), NEW sent, NEW shaped,
         NEW c, c = Taken(cs, sent, shaped)
  PROVE  /\ WholeSched(c) /\ c.owner = cs.owner /\ c.weighted = cs.weighted
         /\ c.queued <= cs.queued
<1> DEFINE t == TinOf(cs)
           i == FlowOf(cs)
           f == Selected(cs)
           l == Head(f.ring)
           d == Deficit(cs) - (IF sent THEN l ELSE 0)
           tin == cs.tins[t]
           v == [tin EXCEPT !.flows[i].ring = Tail(@),
                            !.flows[i].backlog = @ - l,
                            !.flows[i].deficit = d]
           u == IF IsSparse(cs)
                THEN IF Len(f.ring) = 1 THEN Reclaimed(v, i) ELSE v
                ELSE IF shaped THEN v ELSE Rotated(v, i)
<1>1. c = [cs EXCEPT !.tins[t] = u, !.usage = @ - l, !.queued = @ - 1]
  BY DEF Taken
<1>2. /\ t \in Tins /\ i \in Queues /\ f = tin.flows[i]
      /\ f.state \in {"sparse", "bulk", "decaying"}
  BY SelectedIn
<1>3. f.ring # <<>>
  BY DEF HasPacket
<1>4. IsSparse(cs) <=> f.state = "sparse"
  BY DEF IsSparse
<1>5. /\ cs.usage \in Nat /\ cs.queued \in Nat /\ cs.usage <= Limit
      /\ Sound(tin) /\ Linked(tin) /\ TagsAgree(tin) /\ f \in Flow /\ FlowFits(f)
  <2> HIDE DEF t, i, f
  <2> QED BY <1>2, WholeParts
<1>6. v = [tin EXCEPT !.flows[i].ring = Tail(@), !.flows[i].backlog = @ - l, !.flows[i].deficit = d]
  OBVIOUS
<1>7. tin = cs.tins[t] /\ l = Head(f.ring)
  OBVIOUS
<1>8. Deficit(cs) \in Int
  BY DeficitInt
<1>9. d = Deficit(cs) - (IF sent THEN l ELSE 0)
  OBVIOUS
<1>10. u = IF IsSparse(cs)
           THEN IF Len(f.ring) = 1 THEN Reclaimed(v, i) ELSE v
           ELSE IF shaped THEN v ELSE Rotated(v, i)
  OBVIOUS
<1> HIDE DEF t, i, f, l, d, tin, v, u
<1>11. f.ring \in Seq(Nat) /\ f.backlog = Bytes(f.ring) /\ Len(f.ring) <= RingSize
  BY ONLY <1>5 DEF Flow, FlowFits
<1>12. /\ Bytes(f.ring) = l + Bytes(Tail(f.ring)) /\ l \in Nat
       /\ Tail(f.ring) \in Seq(Nat) /\ Len(Tail(f.ring)) = Len(f.ring) - 1
  BY ONLY <1>3, <1>7, <1>11, BytesTail
<1>13. PICK r \in Seq(Nat) : r = Tail(f.ring)
  BY <1>12
<1>14. PICK b \in Nat : b = Bytes(r)
  BY BytesIs
<1>15. b = f.backlog - l /\ f.backlog \in Nat
  <2>1. f.backlog = l + b
    BY ONLY <1>11, <1>12, <1>13, <1>14
  <2>2. f.backlog \in Nat /\ l \in Nat
    BY ONLY <1>5, <1>12 DEF Flow
  <2> QED BY ONLY <2>1, <2>2, b \in Nat
<1>16. d \in Int
  BY ONLY <1>8, <1>9, <1>12
<1>17. PICK g1 : g1 = [f EXCEPT !.ring = r]
  OBVIOUS
<1>18. PICK g2 : g2 = [g1 EXCEPT !.backlog = b]
  OBVIOUS
<1>19. PICK g : g = [g2 EXCEPT !.deficit = d]
  OBVIOUS
<1>20. /\ g1.backlog = f.backlog /\ g \in Flow /\ g.state = f.state /\ g.host = f.host
       /\ g.ring = r /\ g.backlog = b
  BY ONLY <1>5, <1>16, <1>17, <1>18, <1>19, r \in Seq(Nat), b \in Nat DEF Flow
<1>21. v = FlowSet(tin, i, g)
  <2>1. tin \in Tin
    BY <1>5 DEF Linked
  <2> DEFINE o1 == [tin EXCEPT !.flows[i].ring = Tail(@)]
             o2 == [o1 EXCEPT !.flows[i].backlog = tin.flows[i].backlog - l]
  <2>2. o1 = FlowSet(tin, i, g1)
    BY ONLY <1>2, <1>13, <1>17 DEF FlowSet
  <2>7. o2 = [o1 EXCEPT !.flows[i].backlog = f.backlog - l]
    BY ONLY <1>2
  <2>8. v = [o2 EXCEPT !.flows[i].deficit = d]
    BY ONLY <1>6
  <2> HIDE DEF o1, o2
  <2>3. o1.flows[i] = g1 /\ FlowSet(o1, i, g2) = FlowSet(tin, i, g2)
    BY ONLY <1>2, <2>1, <2>2, FlowSetTwice
  <2>4. o2 = FlowSet(o1, i, g2)
    <3>1. o2 = [o1 EXCEPT !.flows = [o1.flows EXCEPT ![i] = [g1 EXCEPT !.backlog = f.backlog - l]]]
      BY ONLY <2>3, <2>7
    <3> QED BY ONLY <1>15, <1>18, <1>20, <3>1 DEF FlowSet
  <2>5. o2.flows[i] = g2 /\ FlowSet(o2, i, g) = FlowSet(tin, i, g)
    BY ONLY <1>2, <2>1, <2>3, <2>4, FlowSetTwice
  <2>6. v = FlowSet(o2, i, g)
    BY ONLY <1>19, <2>5, <2>8 DEF FlowSet
  <2> QED BY <2>5, <2>6
<1>22. Linked(v) /\ v.tags = tin.tags /\ v.flows[i] = g /\ Others(tin.flows, v.flows, i)
  <2>1. Alike(tin.flows[i], g)
    BY <1>2, <1>20 DEF Alike
  <2> QED BY ONLY <1>2, <1>5, <1>21, <2>1, FlowTouched
<1>23. TagsAgree(v)
  <2>1. v.flows[i].state # "none" => tin.tags[i] # 0
    BY <1>2, <1>5 DEF TagsAgree
  <2> QED BY ONLY <1>2, <1>5, <1>22, <2>1, TagsKept
<1>24. \A j \in Queues \ {i} : FlowFits(v.flows[j])
  BY <1>5, <1>22 DEF Sound, Others
<1>25. PICK n, m \in Nat : n = Len(f.ring) /\ m = Len(r) /\ m = n - 1
  <2>1. Len(f.ring) \in Nat /\ Len(r) \in Nat /\ Len(r) = Len(f.ring) - 1
    BY <1>11, <1>12, <1>13
  <2> QED BY ONLY <2>1
<1>26. f.state = "sparse" => n = 1
  BY <1>5, <1>25 DEF FlowFits
<1>27. f.state # "decaying"
  BY <1>3, <1>5 DEF FlowFits
<1>28. /\ Sound(u) /\ Others(v.flows, u.flows, i)
       /\ u.flows[i].backlog = b /\ Len(u.flows[i].ring) = m
  <2>1. CASE f.state = "sparse"
    <3>1. u = Reclaimed(v, i)
      BY ONLY <1>4, <1>10, <1>25, <1>26, <2>1
    <3>2. /\ Sound(u) /\ Others(v.flows, u.flows, i)
          /\ u.flows[i].ring = <<>> /\ u.flows[i].backlog = 0
      BY ONLY <1>2, <1>22, <1>23, <1>24, <3>1, ReclaimedSound
    <3>3. m = 0 /\ r = <<>>
      <4>1. m = 0
        BY ONLY <1>25, <1>26, <2>1
      <4>2. Len(r) = 0
        BY ONLY <1>25, <4>1
      <4> QED BY ONLY <4>1, <4>2, r \in Seq(Nat), EmptySeq
    <3>4. b = 0 /\ Len(<<>>) = 0
      BY <1>14, <3>3, BytesEmpty
    <3> QED BY ONLY <3>2, <3>3, <3>4
  <2>2. CASE f.state = "bulk"
    <3>1. u = v \/ u = Rotated(v, i)
      BY ONLY <1>4, <1>10, <2>2
    <3>2. FlowFits(v.flows[i]) /\ v.flows[i].state = "bulk"
      <4>1. m <= RingSize
        <5>1. RingSize \in Nat /\ n <= RingSize
          BY <1>11, <1>25, FlowAssumption
        <5> QED BY ONLY <1>25, <5>1, n \in Nat, m \in Nat
      <4> QED BY ONLY <1>14, <1>20, <1>22, <1>25, <2>2, <4>1 DEF FlowFits
    <3>3. Sound(v)
      BY <1>22, <1>23, <1>24, <3>2 DEF Sound
    <3>4. CASE u = v
      BY <1>20, <1>22, <1>25, <3>3, <3>4 DEF Others
    <3>5. CASE u = Rotated(v, i)
      <4>1. Carries(v, u, i) /\ u.flows[i].state = v.flows[i].state
        BY ONLY <1>2, <1>22, <3>5, RotatedLinked
      <4>2. FlowFits(u.flows[i])
        BY <3>2, <4>1 DEF Carries, FlowFits
      <4>3. Sound(u)
        BY ONLY <1>2, <3>3, <4>1, <4>2, CarriedSound
      <4> QED BY <1>20, <1>22, <1>25, <4>1, <4>3 DEF Carries
    <3> QED BY <3>1, <3>4, <3>5
  <2> QED BY <1>2, <1>27, <2>1, <2>2
<1>29. PICK y, z \in Nat : y = cs.usage /\ z = cs.queued
  BY ONLY <1>5
<1>30. PICK x, q \in Int : x = y - l /\ q = z - 1
  BY ONLY <1>12, y \in Nat, z \in Nat
<1>31. Follow(cs, t, i, u, x, q) /\ q <= cs.queued
  <2>1. PICK k \in Nat : k = f.backlog
    BY <1>15
  <2>2. x = y + (b - k) /\ q = z + (m - n) /\ (y <= Limit => x <= Limit) /\ q <= z
    <3>1. b = k - l /\ l \in Nat
      BY <1>12, <1>15, <2>1
    <3>2. Limit \in Nat
      BY FlowAssumption
    <3> QED BY ONLY <1>25, <1>30, <3>1, <3>2, k \in Nat, b \in Nat, m \in Nat, n \in Nat,
                    y \in Nat, z \in Nat
  <2>3. /\ cs.tins[t].flows[i].backlog = k /\ Len(cs.tins[t].flows[i].ring) = n
    BY ONLY <1>2, <1>7, <1>25, <2>1
  <2> QED BY ONLY <1>5, <1>28, <1>29, <2>2, <2>3, x \in Int, q \in Int DEF Follow
<1>32. c = SchedSet(cs, t, u, x, q)
  <2>1. cs \in Scheduler
    BY DEF WholeSched
  <2>2. PICK T : T = [cs.tins EXCEPT ![t] = u]
    OBVIOUS
  <2>3. PICK k : k = [cs EXCEPT !.tins = T]
    OBVIOUS
  <2>4. k.usage = cs.usage /\ k.queued = cs.queued
    BY ONLY <2>1, <2>3 DEF Scheduler
  <2>5. x = cs.usage - l /\ q = cs.queued - 1
    BY ONLY <1>29, <1>30
  <2> QED BY ONLY <1>1, <2>1, <2>2, <2>3, <2>4, <2>5 DEF SchedSet, Scheduler
<1>33. Others(cs.tins[t].flows, u.flows, i)
  BY ONLY <1>7, <1>22, <1>28 DEF Others
<1>34. WholeSched(c) /\ c.owner = cs.owner /\ c.weighted = cs.weighted /\ c.queued = q
  BY ONLY WholeSched(cs), <1>2, <1>28, <1>31, <1>32, <1>33, TinChanged
<1> QED BY <1>31, <1>34

\* A scheduler with nothing to do has nothing queued.
LEMMA IdleEmpty ==
  ASSUME NEW cs, WholeSched(cs), Busy(cs) = {}
  PROVE  cs.queued = 0
<1>1. ASSUME NEW t \in Tins, NEW i \in Queues PROVE Len(cs.tins[t].flows[i].ring) = 0
  <2>1. PICK tin : tin = cs.tins[t] /\ Linked(tin) /\ FlowFits(tin.flows[i])
    BY <1>1, WholeParts
  <2>2. PICK s, b \in Nat : s = tin.sparse /\ b = tin.bulk
    BY <2>1 DEF Linked, Tin
  <2>3. tin.decaying = <<>> /\ ~(s + b > 0)
    BY <1>1, <2>1, <2>2 DEF Busy
  <2>4. s = 0 /\ b = 0
    BY <2>3
  <2>5. Len(tin.new) = 0 /\ Len(tin.old) = 0
    BY <2>1, <2>2, <2>4 DEF Linked, ListIs
  <2>6. tin.new = <<>> /\ tin.old = <<>> /\ tin.new \in Seq(Queues) /\ tin.old \in Seq(Queues)
    BY <2>1, <2>5, EmptySeq DEF Linked, ListIs
  <2>7. ToSet(<<>>) = {}
    BY DEF ToSet
  <2>8. tin.flows[i].state \notin {"sparse", "bulk", "decaying"}
    BY <2>1, <2>3, <2>6, <2>7 DEF Linked, ListIs
  <2>9. tin.flows[i].state = "none"
    BY <2>1, <2>8 DEF Linked, Tin, Flow
  <2> QED BY <2>1, <2>9, NoFlowFits DEF FlowFits
<1>2. PICK L, S : L = Lengths(cs) /\ S = Rings
  OBVIOUS
<1>3. \A r \in S : L[r] = 0
  BY <1>1, <1>2 DEF Lengths, Rings
<1>4. SumFunctionOnSet(L, S) = 0
  <2>1. IsFiniteSet(S)
    BY <1>2, RingsFinite
  <2> QED BY ONLY <1>3, <2>1, SumZero
<1> QED BY <1>2, <1>4, WholeIs DEF WholeSched

\* cake_sched_enable_disable and cake_tin_init
LEMMA NewTinSound == Sound(NewTin) /\ \A i \in Queues : NewTin.flows[i] = NoFlow
<1>1. PICK F, g, H : /\ F = [i \in Queues |-> NoFlow] /\ g = [i \in Queues |-> 0]
                     /\ H = [h \in HostSlots |-> [hash |-> 0, bulk |-> 0]]
  OBVIOUS
<1>2. PICK u : u = NewTin
  OBVIOUS
<1>3. u = [flows |-> F, tags |-> g, new |-> <<>>, old |-> <<>>, decaying |-> <<>>,
           flowCount |-> 0, sparse |-> 0, bulk |-> 0, hosts |-> H]
  BY <1>1, <1>2 DEF NewTin
<1>4. /\ F \in [Queues -> Flow] /\ g \in [Queues -> Nat] /\ H \in [HostSlots -> Host]
      /\ \A i \in Queues : F[i] = NoFlow /\ g[i] = 0
      /\ \A h \in HostSlots : H[h].bulk = 0
  BY <1>1, NoFlowIn DEF Host
<1>5. PICK l : l = <<>>
  OBVIOUS
<1>6. l \in Seq(Queues) /\ IsInjective(l) /\ ToSet(l) = {} /\ Len(l) = 0
  BY <1>5 DEF IsInjective, ToSet
<1>7. PICK z : z = 0
  OBVIOUS
<1>8. ASSUME NEW x \in {"sparse", "bulk", "decaying"} PROVE ListIs(l, z, F, x)
  <2>1. {i \in Queues : F[i].state = x} = {}
    BY <1>4, NoFlowIn
  <2> QED BY <1>6, <1>7, <2>1 DEF ListIs
<1>9. z = Cardinality(InUse(F)) /\ z = Len(l)
  <2>1. InUse(F) = {}
    BY <1>4, NoFlowIn DEF InUse
  <2> QED BY <1>6, <1>7, <2>1, FS_EmptySet
<1>10. HostsFit(H, F)
  <2>1. ASSUME NEW h \in HostSlots PROVE H[h].bulk <= Cardinality(BulkOf(F, h))
    <3>1. BulkOf(F, h) = {}
      BY <1>4, NoFlowIn DEF BulkOf
    <3> QED BY <1>4, <3>1, FS_EmptySet
  <2> QED BY <1>4, <2>1 DEF HostsFit
<1>11. Linked(u)
  <2>1. u = [flows |-> F, tags |-> g, new |-> l, old |-> l, decaying |-> l,
             flowCount |-> z, sparse |-> z, bulk |-> z, hosts |-> H]
    BY <1>3, <1>5, <1>7
  <2>2. ListIs(l, z, F, "sparse") /\ ListIs(l, z, F, "bulk") /\ ListIs(l, Len(l), F, "decaying")
    BY <1>8, <1>9
  <2> QED BY ONLY <1>4, <1>9, <1>10, <2>1, <2>2, LinkedOf
<1>12. u.flows = F /\ u.tags = g
  BY ONLY <1>3
<1>13. TagsAgree(u)
  BY <1>4, <1>12, NoFlowIn DEF TagsAgree
<1> QED BY <1>2, <1>4, <1>11, <1>12, <1>13, NoFlowFits DEF Sound

LEMMA NewSchedWhole ==
  WholeSched(NewSched) /\ NewSched.owner = None /\ NewSched.weighted = FALSE /\ NewSched.queued = 0
<1> DEFINE T == [t \in Tins |-> NewTin]
<1>0. T = [t \in Tins |-> NewTin]
  OBVIOUS
<1> HIDE DEF T
<1>1. PICK c : c = NewSched
  OBVIOUS
<1>2. c = [owner |-> None, tins |-> T, usage |-> 0, queued |-> 0, weighted |-> FALSE]
  BY <1>0, <1>1 DEF NewSched
<1>3. \A t \in Tins : T[t] = NewTin /\ Sound(T[t])
  BY <1>0, NewTinSound
<1>4. T \in [Tins -> Tin]
  BY <1>0, NewTinSound DEF Sound, Linked
<1>5. c \in Scheduler
  BY <1>2, <1>4 DEF Scheduler
<1>6. ASSUME NEW r \in Rings PROVE Backlogs(c)[r] = 0 /\ Lengths(c)[r] = 0
  <2>1. r[1] \in Tins /\ r[2] \in Queues
    BY DEF Rings
  <2>2. c.tins[r[1]].flows[r[2]] = NoFlow
    BY <1>2, <1>3, <2>1, NewTinSound
  <2>3. Backlogs(c)[r] = NoFlow.backlog /\ Lengths(c)[r] = Len(NoFlow.ring)
    BY <2>2 DEF Backlogs, Lengths
  <2> QED BY <2>3, NoFlowIn, NoFlowFits
<1>7. PICK B : B = Backlogs(c)
  OBVIOUS
<1>11. PICK L : L = Lengths(c)
  OBVIOUS
<1>10. PICK S : S = Rings
  OBVIOUS
<1>8. SumFunctionOnSet(B, S) = 0 /\ SumFunctionOnSet(L, S) = 0
  <2>1. IsFiniteSet(S) /\ \A r \in S : B[r] = 0 /\ L[r] = 0
    BY <1>6, <1>7, <1>10, <1>11, RingsFinite
  <2> QED BY ONLY <2>1, SumZero
<1>9. Whole(c)
  BY <1>2, <1>3, <1>5, <1>7, <1>8, <1>10, <1>11, WholeIs, FlowAssumption
<1> QED BY <1>1, <1>2, <1>5, <1>9 DEF WholeSched
-----------------------------------------------------------------------------
(* The state machine. *)

Pending == [step : {"read", "claim"}, on : Ifaces, pkt : Packet]
Handed == [on : Ifaces, pkt : Packet]

\* What a thread is at.
LEMMA DoingIs ==
  ASSUME TypeOK, NEW t \in Threads
  PROVE  /\ doing[t] = Idle \/ doing[t] \in Pending
         /\ doing[t].step \in {"read", "claim"} =>
              /\ doing[t] \in Pending /\ doing[t].on \in Ifaces /\ doing[t].pkt \in Packet
              /\ doing[t] # Idle
         /\ Idle.step = "idle"
<1>1. Idle.step = "idle"
  BY DEF Idle
<1>2. doing[t] = Idle \/ doing[t] \in Pending
  BY DEF TypeOK, Pending
<1>3. doing[t].step \in {"read", "claim"} => doing[t] \in Pending /\ doing[t] # Idle
  BY <1>1, <1>2
<1> QED BY <1>1, <1>2, <1>3 DEF Pending

LEMMA LiveWhole ==
  ASSUME FlowsWhole, NEW s \in Scheds
  PROVE  /\ s \in Live <=> sched[s] # None
         /\ s \in Live => WholeSched(sched[s])
         /\ sched[s] \in Scheduler \cup {None}
<1>1. sched[s] \in Scheduler \cup {None}
  BY DEF FlowsWhole, TypeOK
<1> QED BY <1>1 DEF FlowsWhole, Live, WholeSched

LEMMA NoneApart == None \notin Threads /\ None \notin Scheds /\ None \notin Scheduler
BY OwnerAssumption

\* A step that leaves the schedulers and who serves them alone.
LEMMA SchedsAlone ==
  ASSUME OwnerInv, load' = load, sched' = sched, schedOf' = schedOf, active' = active,
         polling' = polling, open' \in BOOLEAN,
         handoff' \in [Threads -> Seq(Handed)],
         \A t \in Threads : Len(handoff'[t]) <= QueueSize,
         doing' \in [Threads -> {Idle} \cup Pending],
         walk' \in [Threads -> SUBSET Scheds], Walks', Claims'
  PROVE  OwnerInv'
<1>1. TypeOK'
  BY DEF OwnerInv, FlowsWhole, TypeOK, Pending, Handed
<1>2. FlowsWhole'
  BY <1>1 DEF OwnerInv, FlowsWhole, Live
<1>3. OwnerServes'
  BY DEF OwnerInv, OwnerServes, Live
<1>4. Attached'
  BY DEF OwnerInv, Attached, Live
<1> QED BY <1>2, <1>3, <1>4 DEF OwnerInv

\* A step of the dequeue node on a scheduler of its thread.
LEMMA SchedServed ==
  ASSUME OwnerInv, NEW s \in Live, NEW cs, WholeSched(cs), cs.owner = sched[s].owner,
         cs.weighted = sched[s].weighted, cs.queued <= sched[s].queued,
         sched' = [sched EXCEPT ![s] = cs], load' = load, open' = open, schedOf' = schedOf,
         active' = active, polling' = polling, handoff' = handoff, doing' = doing,
         walk' \in [Threads -> SUBSET Scheds], \A t \in Threads : walk'[t] \subseteq walk[t]
  PROVE  OwnerInv'
<1>1. TypeOK /\ sched \in [Scheds -> Scheduler \cup {None}] /\ s \in Scheds /\ sched[s] # None
  BY DEF OwnerInv, FlowsWhole, TypeOK, Live
<1>2. cs \in Scheduler /\ cs # None
  BY NoneApart DEF WholeSched
<1>3. sched' \in [Scheds -> Scheduler \cup {None}]
  BY <1>1, <1>2
<1>4. sched'[s] = cs /\ \A r \in Scheds \ {s} : sched'[r] = sched[r]
  BY <1>1
<1>5. Live' = Live
  BY <1>1, <1>2, <1>4 DEF Live
<1>6. TypeOK'
  BY <1>1, <1>3 DEF TypeOK
<1>7. FlowsWhole'
  <2>1. \A r \in Live : Whole(sched'[r])
    BY <1>1, <1>4 DEF OwnerInv, FlowsWhole, WholeSched, Live
  <2> QED BY <1>5, <1>6, <2>1 DEF FlowsWhole
<1>8. \A r \in Live : /\ sched'[r].owner = sched[r].owner
                      /\ sched'[r].weighted = sched[r].weighted
                      /\ sched'[r].queued > 0 => sched[r].queued > 0
  <2>1. cs.queued \in Nat /\ sched[s].queued \in Nat
    BY <1>1, <1>2, LiveWhole DEF OwnerInv, Scheduler, WholeSched
  <2>2. PICK a, b \in Nat : a = cs.queued /\ b = sched[s].queued /\ a <= b
    BY ONLY <2>1, cs.queued <= sched[s].queued
  <2>3. a > 0 => b > 0
    BY ONLY <2>2, a \in Nat, b \in Nat
  <2> QED BY <1>4, <2>2, <2>3 DEF Live
<1>9. OwnerServes'
  BY <1>5, <1>8 DEF OwnerInv, OwnerServes
<1>10. Walks' /\ Claims'
  <2>1. Walks'
    BY DEF OwnerInv, Walks
  <2> QED BY <2>1 DEF OwnerInv, Claims
<1>11. Attached'
  BY <1>5 DEF OwnerInv, Attached
<1> QED BY <1>7, <1>9, <1>10, <1>11 DEF OwnerInv

\* A scheduler that is new, or that a step changed.
LEMMA SchedPut ==
  ASSUME FlowsWhole, NEW s \in Scheds, NEW cs, WholeSched(cs), sched' = [sched EXCEPT ![s] = cs]
  PROVE  /\ sched' \in [Scheds -> Scheduler \cup {None}]
         /\ sched'[s] = cs /\ \A r \in Scheds \ {s} : sched'[r] = sched[r]
         /\ Live' = Live \cup {s}
         /\ \A r \in Live' : Whole(sched'[r])
<1>1. sched \in [Scheds -> Scheduler \cup {None}]
  BY DEF FlowsWhole, TypeOK
<1>2. cs \in Scheduler /\ cs # None /\ Whole(cs)
  BY NoneApart DEF WholeSched
<1>3. sched' \in [Scheds -> Scheduler \cup {None}]
  BY <1>1, <1>2
<1>4. sched'[s] = cs /\ \A r \in Scheds \ {s} : sched'[r] = sched[r]
  BY <1>1
<1>5. Live' = Live \cup {s}
  BY <1>2, <1>4 DEF Live
<1>6. ASSUME NEW r \in Live' PROVE Whole(sched'[r])
  <2>1. CASE r = s
    BY <1>2, <1>4, <2>1
  <2>2. CASE r # s
    <3>1. r \in Live /\ r \in Scheds
      BY <1>5, <2>2 DEF Live
    <3> QED BY <1>4, <2>2, <3>1 DEF FlowsWhole
  <2> QED BY <2>1, <2>2
<1> QED BY <1>3, <1>4, <1>5, <1>6

LEMMA InitInv == Init => OwnerInv
<1> SUFFICES ASSUME Init PROVE OwnerInv
  OBVIOUS
<1>1. \A s \in Scheds : sched[s] = None
  BY DEF Init
<1>2. Live = {}
  BY <1>1 DEF Live
<1>3. TypeOK
  <2>1. sched \in [Scheds -> Scheduler \cup {None}] /\ schedOf \in [Ifaces -> Scheds \cup {None}]
    BY DEF Init
  <2>2. handoff \in [Threads -> Seq([on : Ifaces, pkt : Packet])]
    BY DEF Init
  <2>3. \A t \in Threads : Len(handoff[t]) <= QueueSize
    <3>1. QueueSize \in Nat /\ Len(<<>>) = 0
      BY OwnerAssumption
    <3>2. \A t \in Threads : handoff[t] = <<>>
      BY DEF Init
    <3> QED BY <3>1, <3>2
  <2> QED BY <2>1, <2>2, <2>3 DEF Init, TypeOK
<1>4. FlowsWhole
  BY <1>2, <1>3 DEF FlowsWhole
<1>5. OwnerServes
  BY <1>2 DEF Init, OwnerServes
<1>6. Walks
  BY DEF Init, Walks
<1>7. Claims
  BY DEF Init, Claims, Idle
<1>8. Attached
  BY DEF Init, Attached
<1> QED BY <1>4, <1>5, <1>6, <1>7, <1>8 DEF OwnerInv

\* cake_sched_enable_disable, enabling
LEMMA EnableInv ==
  ASSUME OwnerInv, NEW i \in Ifaces, NEW s \in Scheds, Enable(i, s)
  PROVE  OwnerInv'
<1>1. FlowsWhole /\ TypeOK /\ sched[s] = None /\ s \notin Live /\ schedOf[i] = None
  BY DEF OwnerInv, FlowsWhole, Enable, Live
<1>2. PICK cs : cs = NewSched
  OBVIOUS
<1>3. WholeSched(cs) /\ cs.owner = None /\ cs.weighted = FALSE /\ cs.queued = 0
  BY <1>2, NewSchedWhole
<1>4. sched' = [sched EXCEPT ![s] = cs]
  BY <1>2 DEF Enable
<1>5. /\ sched' \in [Scheds -> Scheduler \cup {None}]
      /\ sched'[s] = cs /\ \A r \in Scheds \ {s} : sched'[r] = sched[r]
      /\ Live' = Live \cup {s} /\ \A r \in Live' : Whole(sched'[r])
  BY ONLY <1>1, <1>3, <1>4, s \in Scheds, SchedPut
<1>6. /\ schedOf \in [Ifaces -> Scheds \cup {None}] /\ schedOf' = [schedOf EXCEPT ![i] = s]
      /\ UNCHANGED <<load, open, active, polling, handoff, doing, walk>>
  BY <1>1 DEF TypeOK, Enable
<1>7. schedOf' \in [Ifaces -> Scheds \cup {None}]
  BY <1>6
<1>8. FlowsWhole'
  <2>1. TypeOK'
    BY <1>1, <1>5, <1>6, <1>7 DEF TypeOK
  <2> QED BY <1>5, <2>1 DEF FlowsWhole
<1>9. \A r \in Live : r \in Scheds /\ r # s /\ sched'[r] = sched[r]
  BY <1>1, <1>5 DEF Live
<1>10. OwnerServes'
  <2>1. OwnerServes /\ \A t \in Threads : s \notin active[t]
    BY <1>1 DEF OwnerInv, OwnerServes
  <2>2. \A r \in Live' : /\ sched'[r].queued > 0 => sched'[r].weighted
                         /\ sched'[r].weighted <=> \E t \in Threads : r \in active'[t]
    <3>1. ~(0 > 0)
      OBVIOUS
    <3> QED BY <1>3, <1>5, <1>6, <1>9, <2>1, <3>1 DEF OwnerServes
  <2>3. \A t \in Threads : \A r \in active'[t] : r \in Live' /\ sched'[r].owner = t
    BY <1>5, <1>6, <1>9, <2>1 DEF OwnerServes
  <2>4. polling' = {t \in Threads : \E r \in Live' : sched'[r].owner = t}
    BY <1>3, <1>5, <1>6, <1>9, <2>1, NoneApart DEF OwnerServes
  <2> QED BY <2>2, <2>3, <2>4 DEF OwnerServes
<1>11. Walks'
  BY <1>6 DEF OwnerInv, Walks
<1>12. Claims'
  BY <1>6, <1>1, NoneApart DEF OwnerInv, Claims, TypeOK, Enable, Barrier, Free, Idle
<1>13. Attached'
  <2>1. \A j \in Ifaces : schedOf'[j] = IF j = i THEN s ELSE schedOf[j]
    BY <1>6
  <2>2. \A j \in Ifaces : schedOf[j] # None => schedOf[j] \in Live
    BY DEF OwnerInv, Attached
  <2> QED BY <1>1, <1>5, <2>1, <2>2 DEF OwnerInv, Attached
<1> QED BY <1>8, <1>10, <1>11, <1>12, <1>13 DEF OwnerInv

\* cake_sched_enable_disable, disabling
LEMMA DisableInv ==
  ASSUME OwnerInv, NEW i \in Ifaces, Disable(i)
  PROVE  OwnerInv'
<1>1. PICK s : s = schedOf[i]
  OBVIOUS
<1>2. /\ FlowsWhole /\ TypeOK /\ OwnerServes /\ Attached
      /\ s # None /\ s \in Live /\ s \in Scheds /\ sched[s] # None
  BY <1>1 DEF OwnerInv, FlowsWhole, Attached, Disable, Live
<1>3. PICK o : o = sched[s].owner
  OBVIOUS
<1>4. PICK others : others = {r \in Scheds \ {s} : sched[r] # None /\ sched[r].owner = o}
  OBVIOUS
<1>5. /\ sched' = [sched EXCEPT ![s] = None] /\ schedOf' = [schedOf EXCEPT ![i] = None]
      /\ active' = [t \in Threads |-> active[t] \ {s}]
      /\ polling' = IF others = {} THEN polling \ {o} ELSE polling
      /\ UNCHANGED <<load, open, handoff, doing, walk>>
  BY <1>1, <1>3, <1>4 DEF Disable
<1>6. \A t \in Threads : doing[t] = Idle /\ walk[t] = {}
  BY DEF Disable, Barrier, Free
<1>7. /\ sched \in [Scheds -> Scheduler \cup {None}] /\ schedOf \in [Ifaces -> Scheds \cup {None}]
      /\ active \in [Threads -> SUBSET Scheds] /\ polling \subseteq Threads
  BY <1>2 DEF TypeOK
<1>8. sched'[s] = None /\ \A r \in Scheds \ {s} : sched'[r] = sched[r]
  BY <1>2, <1>5, <1>7
<1>9. Live' = Live \ {s} /\ \A r \in Live' : r \in Live /\ r \in Scheds \ {s} /\ sched'[r] = sched[r]
  <2>1. Live' = {r \in Scheds : sched'[r] # None}
    BY DEF Live
  <2> QED BY <1>8, <2>1 DEF Live
<1>10. FlowsWhole'
  <2>1. sched' \in [Scheds -> Scheduler \cup {None}]
    BY <1>5, <1>7
  <2>2. schedOf' \in [Ifaces -> Scheds \cup {None}]
    BY <1>5, <1>7
  <2>3. active' \in [Threads -> SUBSET Scheds]
    BY <1>5, <1>7
  <2>4. polling' \subseteq Threads
    BY <1>5, <1>7
  <2>5. TypeOK'
    BY <1>2, <1>5, <2>1, <2>2, <2>3, <2>4 DEF TypeOK
  <2> QED BY <1>2, <1>9, <2>5 DEF FlowsWhole
<1>11. OwnerServes'
  <2>1. \A t \in Threads : active'[t] = active[t] \ {s}
    BY <1>5
  <2>2. \A r \in Live' : /\ sched'[r].queued > 0 => sched'[r].weighted
                         /\ sched'[r].weighted <=> \E t \in Threads : r \in active'[t]
    BY <1>2, <1>9, <2>1 DEF OwnerServes
  <2>3. \A t \in Threads : \A r \in active'[t] : r \in Live' /\ sched'[r].owner = t
    BY <1>2, <1>9, <2>1 DEF OwnerServes
  <2>4. polling' = {t \in Threads : \E r \in Live' : sched'[r].owner = t}
    <3>1. polling = {t \in Threads : \E r \in Live : sched[r].owner = t}
      BY <1>2 DEF OwnerServes
    <3>2. ASSUME NEW t \in Threads
          PROVE  (\E r \in Live' : sched'[r].owner = t) <=> t \in polling'
      <4>1. CASE t = o
        <5>1. others # {} <=> \E r \in Live' : sched'[r].owner = o
          BY <1>4, <1>8, <1>9 DEF Live
        <5>2. t \in polling
          BY <1>2, <1>3, <3>1, <4>1
        <5> QED BY <1>5, <4>1, <5>1, <5>2
      <4>2. CASE t # o
        <5>1. t \in polling' <=> t \in polling
          BY <1>5, <4>2
        <5>2. (\E r \in Live : sched[r].owner = t) => \E r \in Live' : sched'[r].owner = t
          BY <1>3, <1>9, <4>2
        <5> QED BY <1>9, <3>1, <5>1, <5>2
      <4> QED BY <4>1, <4>2
    <3>3. polling' \subseteq Threads
      BY <1>5, <1>7
    <3> QED BY <3>2, <3>3
  <2> QED BY <2>2, <2>3, <2>4 DEF OwnerServes
<1>12. Walks'
  BY <1>5, <1>6 DEF Walks
<1>13. Claims'
  BY <1>5, <1>6 DEF Claims, Idle
<1>14. Attached'
  <2>1. \A j \in Ifaces : schedOf'[j] = IF j = i THEN None ELSE schedOf[j]
    BY <1>5, <1>7
  <2>2. \A j \in Ifaces : j # i /\ schedOf[j] # None => schedOf[j] \in Live /\ schedOf[j] # s
    BY <1>1, <1>2 DEF Attached
  <2>3. \A j \in Ifaces : schedOf'[j] # None => schedOf'[j] \in Live'
    BY <1>9, <2>1, <2>2
  <2>4. \A j, k \in Ifaces : schedOf'[j] # None /\ schedOf'[j] = schedOf'[k] => j = k
    BY <1>2, <2>1 DEF Attached
  <2> QED BY <2>3, <2>4 DEF Attached
<1> QED BY <1>10, <1>11, <1>12, <1>13, <1>14 DEF OwnerInv

\* The packets of a thread: none, or the one that came.
LEMMA DoingSet ==
  ASSUME TypeOK, NEW t \in Threads, NEW d \in {Idle} \cup Pending, doing' = [doing EXCEPT ![t] = d]
  PROVE  /\ doing' \in [Threads -> {Idle} \cup Pending]
         /\ doing'[t] = d /\ \A r \in Threads \ {t} : doing'[r] = doing[r]
<1>1. doing \in [Threads -> {Idle} \cup Pending]
  BY DEF TypeOK, Pending
<1> QED BY <1>1

\* A step of the enqueue node that leaves the schedulers alone.
LEMMA PacketStep ==
  ASSUME OwnerInv, NEW t \in Threads, walk[t] = {} \/ doing[t] # Idle,
         NEW d \in {Idle} \cup Pending, doing' = [doing EXCEPT ![t] = d],
         d.step = "claim" => schedOf[d.on] # None,
         load' = load, open' = open, sched' = sched, schedOf' = schedOf, active' = active,
         polling' = polling, walk' = walk,
         handoff' \in [Threads -> Seq(Handed)],
         \A r \in Threads : Len(handoff'[r]) <= QueueSize
  PROVE  OwnerInv'
<1>1. TypeOK /\ Walks /\ Claims
  BY DEF OwnerInv, FlowsWhole
<1>2. /\ doing' \in [Threads -> {Idle} \cup Pending]
      /\ doing'[t] = d /\ \A r \in Threads \ {t} : doing'[r] = doing[r]
  BY ONLY <1>1, t \in Threads, d \in {Idle} \cup Pending, doing' = [doing EXCEPT ![t] = d], DoingSet
<1>3. walk[t] = {}
  BY <1>1 DEF Walks
<1>4. Walks'
  BY <1>1, <1>2, <1>3 DEF Walks
<1>5. Claims'
  BY <1>1, <1>2 DEF Claims
<1>6. open' \in BOOLEAN /\ walk' \in [Threads -> SUBSET Scheds]
  BY <1>1 DEF TypeOK
<1> QED BY ONLY OwnerInv, load' = load, sched' = sched, schedOf' = schedOf, active' = active,
               polling' = polling, handoff' \in [Threads -> Seq(Handed)],
               \A r \in Threads : Len(handoff'[r]) <= QueueSize,
               <1>2, <1>4, <1>5, <1>6, SchedsAlone

LEMMA ReceiveInv ==
  ASSUME OwnerInv, NEW t \in Threads, NEW i \in Ifaces, NEW p \in Packet, Receive(t, i, p)
  PROVE  OwnerInv'
<1>1. TypeOK
  BY DEF OwnerInv, FlowsWhole
<1>2. PICK d : d = Has("read", i, p)
  OBVIOUS
<1>3. d \in {Idle} \cup Pending /\ d.step = "read"
  BY <1>2 DEF Has, Pending
<1>4. /\ walk[t] = {} /\ doing' = [doing EXCEPT ![t] = d]
      /\ UNCHANGED <<load, open, sched, schedOf, active, polling, handoff, walk>>
  BY <1>2 DEF Receive, Free
<1>5. handoff' \in [Threads -> Seq(Handed)] /\ \A r \in Threads : Len(handoff'[r]) <= QueueSize
  BY <1>1, <1>4 DEF TypeOK, Handed
<1> QED BY ONLY OwnerInv, t \in Threads, <1>3, <1>4, <1>5, PacketStep

LEMMA ReceiveHandoffInv ==
  ASSUME OwnerInv, NEW t \in Threads, ReceiveHandoff(t)
  PROVE  OwnerInv'
<1>1. TypeOK /\ handoff \in [Threads -> Seq(Handed)]
  BY DEF OwnerInv, FlowsWhole, TypeOK, Handed
<1>2. PICK q : q = handoff[t]
  OBVIOUS
<1>3. q \in Seq(Handed) /\ q # <<>>
  BY <1>1, <1>2 DEF ReceiveHandoff
<1>4. /\ Head(q) \in Handed /\ Tail(q) \in Seq(Handed)
      /\ Len(q) \in Nat /\ Len(Tail(q)) = Len(q) - 1
  BY <1>3
<1>5. PICK d : d = Has("read", Head(q).on, Head(q).pkt)
  OBVIOUS
<1>6. d \in {Idle} \cup Pending /\ d.step = "read"
  BY <1>4, <1>5 DEF Has, Pending, Handed
<1>7. /\ walk[t] = {} /\ doing' = [doing EXCEPT ![t] = d]
      /\ handoff' = [handoff EXCEPT ![t] = Tail(q)]
      /\ UNCHANGED <<load, open, sched, schedOf, active, polling, walk>>
  BY <1>2, <1>5 DEF ReceiveHandoff, Free
<1>8. handoff' \in [Threads -> Seq(Handed)]
  BY <1>1, <1>4, <1>7
<1>9. ASSUME NEW r \in Threads PROVE Len(handoff'[r]) <= QueueSize
  <2>1. Len(handoff[r]) <= QueueSize /\ QueueSize \in Nat
    BY <1>1, OwnerAssumption DEF TypeOK
  <2>2. CASE r = t
    <3>1. Len(q) <= QueueSize
      BY <1>2, <2>1, <2>2
    <3>2. handoff'[r] = Tail(q)
      BY <1>1, <1>7, <2>2
    <3>7. Len(q) \in Nat /\ Len(Tail(q)) = Len(q) - 1
      BY ONLY <1>4
    <3>3. PICK n \in Nat : n = Len(q)
      BY ONLY <3>7
    <3>4. PICK m \in Nat : m = QueueSize
      BY ONLY <2>1
    <3>5. n <= m
      BY ONLY <3>1, <3>3, <3>4
    <3>6. Len(handoff'[r]) = n - 1
      BY ONLY <3>2, <3>3, <3>7
    <3> QED BY ONLY <3>4, <3>5, <3>6, n \in Nat, m \in Nat
  <2>3. CASE r # t
    BY <1>1, <1>7, <2>1, <2>3
  <2> QED BY <2>2, <2>3
<1> QED BY ONLY OwnerInv, t \in Threads, <1>6, <1>7, <1>8, <1>9, PacketStep

LEMMA PassThroughInv ==
  ASSUME OwnerInv, NEW t \in Threads, PassThrough(t)
  PROVE  OwnerInv'
<1>1. TypeOK /\ Idle.step = "idle"
  BY DEF OwnerInv, FlowsWhole, Idle
<1>2. doing[t] # Idle
  BY <1>1, DoingIs DEF PassThrough
<1>3. PICK d : d = Idle
  OBVIOUS
<1>4. /\ doing' = [doing EXCEPT ![t] = d] /\ d \in {Idle} \cup Pending /\ d.step # "claim"
      /\ UNCHANGED <<load, open, sched, schedOf, active, polling, handoff, walk>>
  BY <1>1, <1>3 DEF PassThrough, Done
<1>5. handoff' \in [Threads -> Seq(Handed)] /\ \A r \in Threads : Len(handoff'[r]) <= QueueSize
  BY <1>1, <1>4 DEF TypeOK, Handed
<1> QED BY ONLY OwnerInv, t \in Threads, <1>2, <1>4, <1>5, PacketStep

LEMMA SeeUnownedInv ==
  ASSUME OwnerInv, NEW t \in Threads, SeeUnowned(t)
  PROVE  OwnerInv'
<1>1. TypeOK
  BY DEF OwnerInv, FlowsWhole
<1>2. doing[t] # Idle /\ doing[t] \in Pending /\ At(t) # None
  BY <1>1, DoingIs DEF SeeUnowned
<1>3. PICK d : d = [doing[t] EXCEPT !.step = "claim"]
  OBVIOUS
<1>4. d \in {Idle} \cup Pending /\ d.on = doing[t].on
  BY <1>2, <1>3 DEF Pending
<1>5. /\ doing' = [doing EXCEPT ![t] = d]
      /\ UNCHANGED <<load, open, sched, schedOf, active, polling, handoff, walk>>
  BY <1>3 DEF SeeUnowned
<1>6. handoff' \in [Threads -> Seq(Handed)] /\ \A r \in Threads : Len(handoff'[r]) <= QueueSize
  BY <1>1, <1>5 DEF TypeOK, Handed
<1>7. schedOf[d.on] # None
  BY <1>2, <1>4 DEF At
<1> QED BY ONLY OwnerInv, t \in Threads, <1>2, <1>4, <1>5, <1>6, <1>7, PacketStep

\* The handoff node; the owner it reads is a thread.
LEMMA HandOffInv ==
  ASSUME OwnerInv, NEW t \in Threads, HandOff(t)
  PROVE  OwnerInv'
<1>1. TypeOK /\ FlowsWhole /\ handoff \in [Threads -> Seq(Handed)] /\ Idle.step = "idle"
  BY DEF OwnerInv, FlowsWhole, TypeOK, Handed, Idle
<1>2. doing[t] # Idle /\ doing[t].on \in Ifaces /\ doing[t].pkt \in Packet /\ At(t) # None
  BY <1>1, DoingIs DEF HandOff
<1>3. PICK s : s = At(t)
  OBVIOUS
<1>4. s \in Scheds /\ s \in Live /\ sched[s] \in Scheduler
  <2>1. s \in Scheds /\ s \in Live
    BY <1>2, <1>3 DEF At, OwnerInv, Attached, Live
  <2> QED BY <1>1, <2>1, LiveWhole DEF WholeSched
<1>5. PICK o : o = sched[s].owner
  OBVIOUS
<1>6. o \in Threads
  BY <1>3, <1>4, <1>5 DEF HandOff, Scheduler
<1>7. PICK p : p = [on |-> doing[t].on, pkt |-> doing[t].pkt]
  OBVIOUS
<1>8. p \in Handed
  BY <1>2, <1>7 DEF Handed
<1>9. PICK q : q = IF Len(handoff[o]) < QueueSize THEN Append(handoff[o], p) ELSE handoff[o]
  OBVIOUS
<1>10. PICK d : d = Idle
  OBVIOUS
<1>11. /\ doing' = [doing EXCEPT ![t] = d] /\ d \in {Idle} \cup Pending /\ d.step # "claim"
       /\ handoff' = [handoff EXCEPT ![o] = q]
       /\ UNCHANGED <<load, open, sched, schedOf, active, polling, walk>>
  BY <1>1, <1>3, <1>5, <1>7, <1>9, <1>10 DEF HandOff, Done
<1>12. q \in Seq(Handed) /\ Len(q) <= QueueSize
  <2>1. handoff[o] \in Seq(Handed) /\ Len(handoff[o]) <= QueueSize /\ QueueSize \in Nat
    BY <1>1, <1>6, OwnerAssumption DEF TypeOK
  <2> QED BY <1>8, <1>9, <2>1
<1>13. handoff' \in [Threads -> Seq(Handed)]
  BY <1>1, <1>6, <1>11, <1>12
<1>14. \A r \in Threads : Len(handoff'[r]) <= QueueSize
  BY <1>1, <1>6, <1>11, <1>12 DEF TypeOK
<1> QED BY ONLY OwnerInv, t \in Threads, <1>2, <1>11, <1>13, <1>14, PacketStep

\* The steps that touch neither a packet nor a scheduler.
LEMMA QuietInv ==
  ASSUME OwnerInv, \/ Lull
                   \/ \E t \in Threads : Dispatch(t) \/ VisitShaped(t)
                   \/ UNCHANGED vars
  PROVE  OwnerInv'
<1>1. TypeOK /\ Walks /\ Claims
  BY DEF OwnerInv, FlowsWhole
<1>2. /\ UNCHANGED <<load, sched, schedOf, active, polling, handoff, doing>>
      /\ open' \in BOOLEAN
  BY <1>1 DEF Lull, Dispatch, VisitShaped, vars, TypeOK
<1>3. walk' \in [Threads -> SUBSET Scheds] /\ Walks'
  <2>1. CASE walk' = walk
    BY <1>1, <1>2, <2>1 DEF TypeOK, Walks
  <2>2. CASE \E t \in Threads : Dispatch(t)
    <3>1. PICK t \in Threads : doing[t] = Idle /\ walk' = [walk EXCEPT ![t] = active[t]]
      BY <2>2 DEF Dispatch, Free
    <3>2. active[t] \in SUBSET Scheds
      BY <1>1 DEF TypeOK
    <3> QED BY <1>1, <1>2, <3>1, <3>2 DEF TypeOK, Walks
  <2>3. CASE \E t \in Threads : VisitShaped(t)
    <3>1. PICK t \in Threads : walk' = [walk EXCEPT ![t] = @ \ {Visited(t)}]
      BY <2>3 DEF VisitShaped, Leave
    <3> QED BY <1>1, <1>2, <3>1 DEF TypeOK, Walks
  <2> QED BY <2>1, <2>2, <2>3 DEF Lull, vars
<1>4. Claims'
  BY <1>1, <1>2 DEF Claims
<1>5. /\ handoff' \in [Threads -> Seq(Handed)] /\ \A t \in Threads : Len(handoff'[t]) <= QueueSize
      /\ doing' \in [Threads -> {Idle} \cup Pending]
  BY <1>1, <1>2 DEF TypeOK, Handed, Pending
<1> QED BY ONLY OwnerInv, <1>2, <1>3, <1>4, <1>5, SchedsAlone

\* A thread that touches the scheduler of its packet.
LEMMA OwnAt ==
  ASSUME OwnerInv, NEW t \in Threads, Own(t), NEW s, s = At(t)
  PROVE  /\ s \in Scheds /\ s \in Live /\ WholeSched(sched[s]) /\ sched[s] \in Scheduler
         /\ sched[s].owner \in {t, None}
         /\ doing[t].pkt \in Packet /\ doing[t] # Idle /\ doing[t].on \in Ifaces
<1>1. TypeOK /\ FlowsWhole
  BY DEF OwnerInv, FlowsWhole
<1>2. doing[t].step \in {"read", "claim"}
  BY DEF Own, MayClaim
<1>3. /\ doing[t].pkt \in Packet /\ doing[t] # Idle /\ doing[t].on \in Ifaces
  BY <1>1, <1>2, DoingIs
<1>4. s # None
  BY DEF Own, MayClaim, At, OwnerInv, Claims
<1>5. s \in Live
  BY <1>3, <1>4 DEF At, OwnerInv, Attached
<1>6. s \in Scheds
  BY <1>5 DEF Live
<1>7. WholeSched(sched[s])
  BY <1>1, <1>5, <1>6, LiveWhole
<1> QED BY <1>3, <1>5, <1>6, <1>7 DEF Own, MayClaim, WholeSched

\* A step of the enqueue node on a scheduler that is its thread's from then on;
\* a packet stays, or none comes in.
LEMMA SchedClaimed ==
  ASSUME OwnerInv, NEW t \in Threads, NEW s \in Live, sched[s].owner \in {t, None},
         NEW cs, WholeSched(cs), cs.owner = t, sched' = [sched EXCEPT ![s] = cs],
         \/ /\ cs.weighted = TRUE
            /\ active' = [active EXCEPT ![t] = @ \cup {s}]
         \/ /\ cs.weighted = sched[s].weighted /\ cs.queued <= sched[s].queued
            /\ active' = active,
         polling' = polling \cup {t}, doing' = [doing EXCEPT ![t] = Idle],
         load' = load, open' = open, schedOf' = schedOf, handoff' = handoff, walk' = walk
  PROVE  OwnerInv'
<1>1. TypeOK /\ FlowsWhole /\ s \in Scheds /\ Walks /\ Claims /\ OwnerServes /\ Attached
  BY DEF OwnerInv, FlowsWhole, Live
<1>2. /\ sched' \in [Scheds -> Scheduler \cup {None}]
      /\ sched'[s] = cs /\ \A r \in Scheds \ {s} : sched'[r] = sched[r]
      /\ Live' = Live \cup {s} /\ \A r \in Live' : Whole(sched'[r])
  BY ONLY <1>1, WholeSched(cs), sched' = [sched EXCEPT ![s] = cs], SchedPut
<1>3. Live' = Live
  BY <1>2
<1>4. PICK d : d = Idle
  OBVIOUS
<1>5. /\ doing' \in [Threads -> {Idle} \cup Pending]
      /\ doing'[t] = Idle /\ \A r \in Threads \ {t} : doing'[r] = doing[r]
  BY ONLY <1>1, <1>4, t \in Threads, doing' = [doing EXCEPT ![t] = Idle], DoingSet
<1>6. /\ active' \in [Threads -> SUBSET Scheds]
      /\ \A r \in Threads : active[r] \subseteq active'[r]
      /\ \A r \in Threads : active'[r] \subseteq active[r] \cup {s}
      /\ \A r \in Threads \ {t} : active'[r] = active[r]
  <2>1. active \in [Threads -> SUBSET Scheds]
    BY <1>1 DEF TypeOK
  <2> QED BY <1>1, <2>1
<1>7. FlowsWhole'
  <2>1. polling' \subseteq Threads
    BY <1>1 DEF TypeOK
  <2>2. TypeOK'
    BY <1>1, <1>2, <1>5, <1>6, <2>1 DEF TypeOK, Pending
  <2> QED BY <1>2, <2>2 DEF FlowsWhole
<1>8. \A r \in Live : r \in Scheds /\ (r # s => sched'[r] = sched[r])
  BY <1>2 DEF Live
<1>9. OwnerServes'
  <2>1. \A r \in Threads \ {t} : s \notin active[r]
    BY <1>1, NoneApart DEF OwnerServes
  <2>2. \A r \in Live' : /\ sched'[r].queued > 0 => sched'[r].weighted
                         /\ sched'[r].weighted <=> \E k \in Threads : r \in active'[k]
    <3>1. ASSUME NEW r \in Live, r # s
          PROVE  /\ sched'[r].queued > 0 => sched'[r].weighted
                 /\ sched'[r].weighted <=> \E k \in Threads : r \in active'[k]
      <4>1. \A k \in Threads : r \in active'[k] <=> r \in active[k]
        BY <1>6, <3>1
      <4> QED BY <1>1, <1>8, <3>1, <4>1 DEF OwnerServes
    <3>2. /\ cs.queued > 0 => cs.weighted
          /\ cs.weighted <=> \E k \in Threads : s \in active'[k]
      <4>1. CASE cs.weighted = TRUE /\ active' = [active EXCEPT ![t] = @ \cup {s}]
        <5>1. s \in active'[t]
          BY <1>1, <4>1 DEF TypeOK
        <5> QED BY <4>1, <5>1
      <4>2. CASE /\ cs.weighted = sched[s].weighted /\ cs.queued <= sched[s].queued
                 /\ active' = active
        <5>1. cs.queued \in Nat /\ sched[s].queued \in Nat
          BY <1>1, LiveWhole DEF Scheduler, WholeSched
        <5>2. cs.queued > 0 => sched[s].queued > 0
          BY ONLY <4>2, <5>1
        <5> QED BY <1>1, <4>2, <5>2 DEF OwnerServes
      <4> QED BY <4>1, <4>2
    <3> QED BY <1>2, <1>3, <3>1, <3>2
  <2>3. \A k \in Threads : \A r \in active'[k] : r \in Live' /\ sched'[r].owner = k
    <3>1. SUFFICES ASSUME NEW k \in Threads, NEW r \in active'[k]
                   PROVE  r \in Live' /\ sched'[r].owner = k
      OBVIOUS
    <3>2. CASE r = s
      <4>1. k = t
        BY <1>6, <2>1, <3>2
      <4> QED BY <1>2, <3>2, <4>1
    <3>3. CASE r # s
      <4>1. r \in active[k]
        BY <1>6, <3>3
      <4> QED BY <1>1, <1>3, <1>8, <3>3, <4>1 DEF OwnerServes
    <3> QED BY <3>2, <3>3
  <2>4. polling' = {k \in Threads : \E r \in Live' : sched'[r].owner = k}
    <3>1. ASSUME NEW k \in Threads
          PROVE  k \in polling' <=> \E r \in Live' : sched'[r].owner = k
      <4>1. CASE k = t
        BY <1>2, <4>1
      <4>2. CASE k # t
        <5>1. k \in polling' <=> \E r \in Live : sched[r].owner = k
          BY <1>1, <4>2 DEF OwnerServes
        <5>2. sched[s].owner # k /\ sched'[s].owner # k
          BY <1>2, <4>2, NoneApart
        <5> QED BY <1>3, <1>8, <5>1, <5>2
      <4> QED BY <4>1, <4>2
    <3>2. polling' \subseteq Threads
      BY <1>1 DEF TypeOK
    <3> QED BY <3>1, <3>2
  <2> QED BY <2>2, <2>3, <2>4 DEF OwnerServes
<1>10. Walks'
  BY <1>1, <1>5, <1>6 DEF Walks
<1>11. Claims'
  <2>1. Idle.step = "idle"
    BY DEF Idle
  <2> QED BY <1>1, <1>5, <2>1 DEF Claims
<1>12. Attached'
  BY <1>1, <1>3 DEF Attached
<1> QED BY <1>7, <1>9, <1>10, <1>11, <1>12 DEF OwnerInv

\* Whether a packet fits has nothing to do with the owner.
LEMMA FitsOwner ==
  ASSUME NEW cs, WholeSched(cs), NEW o \in Threads, NEW c, c = OwnerSet(cs, o),
         NEW p \in Packet, Fits(cs, p)
  PROVE  Fits(c, p)
<1>1. WholeSched(c) /\ c.tins = cs.tins /\ c.usage = cs.usage
  BY ONLY WholeSched(cs), o \in Threads, c = OwnerSet(cs, o), OwnerChanged
<1>2. PICK t : t = p.tin
  OBVIOUS
<1>3. PICK i : i = SlotOf(cs.tins[t], p)
  OBVIOUS
<1>4. t \in Tins
  BY <1>2 DEF Packet
<1>5. i \in Queues
  <2>1. PICK tag \in Nat : tag = p.tag /\ tag # 0
    BY DEF Packet
  <2>2. Sound(cs.tins[t])
    BY <1>4, WholeIs DEF WholeSched
  <2> QED BY ONLY <1>2, <1>3, <2>1, <2>2, p \in Packet, SlotFound
<1>6. PICK e : e = Evicted(cs, t, i)
  OBVIOUS
<1>7. PICK g : g = Evicted(c, t, i)
  OBVIOUS
<1>8. e \in Scheduler /\ g \in Scheduler
  BY <1>1, <1>4, <1>5, <1>6, <1>7, EvictedWhole DEF WholeSched
<1>9. e.tins = g.tins /\ e.usage = g.usage
  <2>1. cs \in Scheduler /\ c \in Scheduler
    BY <1>1 DEF WholeSched
  <2> QED BY <1>1, <1>6, <1>7, <2>1 DEF Evicted, Scheduler
<1>10. PICK a : a = IF cs.tins[t].tags[i] \in {0, p.tag} THEN cs ELSE e
  OBVIOUS
<1>11. PICK b : b = IF cs.tins[t].tags[i] \in {0, p.tag} THEN c ELSE g
  OBVIOUS
<1>12. a \in Scheduler /\ b \in Scheduler /\ a.tins = b.tins /\ a.usage = b.usage
  BY <1>1, <1>8, <1>9, <1>10, <1>11 DEF WholeSched
<1>13. /\ Found(cs, p) = [a EXCEPT !.tins[t].tags[i] = p.tag]
       /\ Found(c, p) = [b EXCEPT !.tins[t].tags[i] = p.tag]
  BY <1>1, <1>2, <1>3, <1>6, <1>7, <1>10, <1>11 DEF Found
<1>14. Found(cs, p).tins = Found(c, p).tins /\ Found(cs, p).usage = Found(c, p).usage
  BY ONLY <1>12, <1>13 DEF Scheduler
<1> QED BY <1>14 DEF Fits

LEMMA EnqueueLocalInv ==
  ASSUME OwnerInv, NEW t \in Threads, EnqueueLocal(t)
  PROVE  OwnerInv'
<1>1. PICK s : s = At(t)
  OBVIOUS
<1>2. /\ s \in Scheds /\ s \in Live /\ WholeSched(sched[s])
      /\ sched[s].owner \in {t, None} /\ doing[t].pkt \in Packet
  BY <1>1, OwnAt DEF EnqueueLocal
<1>3. PICK c : c = OwnerSet(sched[s], t)
  OBVIOUS
<1>4. PICK p \in Packet : p = doing[t].pkt
  BY <1>2
<1>5. PICK cs : cs = Queued(c, p)
  OBVIOUS
<1>6. WholeSched(c) /\ c.owner = t
  BY <1>2, <1>3, OwnerChanged
<1>7. PICK old : old = sched[s]
  OBVIOUS
<1>8. Fits(c, p)
  <2>1. Fits(old, p)
    BY <1>1, <1>4, <1>7 DEF EnqueueLocal
  <2> QED BY ONLY <1>2, <1>3, <1>7, <2>1, t \in Threads, p \in Packet, FitsOwner
<1>9. WholeSched(cs) /\ cs.owner = t /\ cs.weighted = TRUE
  BY ONLY <1>5, <1>6, <1>8, p \in Packet, QueuedWhole
<1>10. /\ sched' = [sched EXCEPT ![s] = cs]
       /\ active' = [active EXCEPT ![t] = @ \cup {s}]
       /\ polling' = polling \cup {t} /\ doing' = [doing EXCEPT ![t] = Idle]
       /\ UNCHANGED <<load, open, schedOf, handoff, walk>>
  BY <1>1, <1>3, <1>4, <1>5 DEF EnqueueLocal, Claimed, OwnerSet, Done
<1> QED BY ONLY OwnerInv, t \in Threads, <1>2, <1>9, <1>10, SchedClaimed

LEMMA EnqueueDropInv ==
  ASSUME OwnerInv, NEW t \in Threads, EnqueueDrop(t)
  PROVE  OwnerInv'
<1>1. PICK s : s = At(t)
  OBVIOUS
<1>2. /\ s \in Scheds /\ s \in Live /\ WholeSched(sched[s]) /\ sched[s] \in Scheduler
      /\ sched[s].owner \in {t, None} /\ doing[t].pkt \in Packet
  BY <1>1, OwnAt DEF EnqueueDrop
<1>3. PICK c : c = OwnerSet(sched[s], t)
  OBVIOUS
<1>4. PICK p \in Packet : p = doing[t].pkt
  BY <1>2
<1>5. PICK cs : cs = Found(c, p)
  OBVIOUS
<1>6. /\ WholeSched(c) /\ c.owner = t
      /\ c.weighted = sched[s].weighted /\ c.queued = sched[s].queued
  BY <1>2, <1>3, OwnerChanged
<1>7. /\ WholeSched(cs) /\ cs.owner = t
      /\ cs.weighted = sched[s].weighted /\ cs.queued <= sched[s].queued
  BY ONLY <1>5, <1>6, p \in Packet, FoundWhole
<1>8. /\ sched' = [sched EXCEPT ![s] = cs] /\ active' = active
      /\ polling' = polling \cup {t} /\ doing' = [doing EXCEPT ![t] = Idle]
      /\ UNCHANGED <<load, open, schedOf, handoff, walk>>
  BY <1>1, <1>3, <1>4, <1>5 DEF EnqueueDrop, Claimed, OwnerSet, Done
<1> QED BY ONLY OwnerInv, t \in Threads, <1>2, <1>7, <1>8, SchedClaimed

\* The scheduler a walk is at.
LEMMA VisitedAt ==
  ASSUME OwnerInv, NEW t \in Threads, walk[t] # {}, NEW s, s = Visited(t)
  PROVE  /\ s \in walk[t] /\ s \in active[t] /\ s \in Scheds /\ s \in Live
         /\ WholeSched(sched[s]) /\ sched[s].owner = t
<1>1. /\ FlowsWhole /\ walk[t] \in SUBSET Scheds /\ walk[t] \subseteq active[t]
      /\ \A r \in active[t] : r \in Live /\ sched[r].owner = t
  BY DEF OwnerInv, FlowsWhole, TypeOK, Walks, OwnerServes
<1>2. Scheds \subseteq Nat
  BY OwnerAssumption DEF Scheds
<1>3. s \in walk[t]
  BY <1>1, <1>2, MinIn DEF Visited
<1> QED BY <1>1, <1>3, LiveWhole

\* How a visit ends or goes on.
LEMMA WalkShrinks ==
  ASSUME OwnerInv, NEW t \in Threads, walk' = walk \/ Leave(t) \/ walk' = [walk EXCEPT ![t] = {}]
  PROVE  walk' \in [Threads -> SUBSET Scheds] /\ \A r \in Threads : walk'[r] \subseteq walk[r]
BY DEF OwnerInv, FlowsWhole, TypeOK, Leave

\* A turn of the dequeue loop.
LEMMA VisitInv ==
  ASSUME OwnerInv, NEW t \in Threads,
         VisitTurn(t) \/ VisitBlocked(t) \/ VisitDrop(t) \/ VisitSend(t)
  PROVE  OwnerInv'
<1>1. Serves(t) /\ walk[t] # {}
  BY DEF VisitTurn, VisitBlocked, VisitDrop, VisitSend, Serves
<1>2. PICK s : s = Visited(t)
  OBVIOUS
<1>3. s \in Live /\ WholeSched(sched[s])
  BY <1>1, <1>2, VisitedAt
<1>4. PICK old : old = sched[s]
  OBVIOUS
<1>5. WholeSched(old) /\ Busy(old) # {}
  BY <1>1, <1>2, <1>3, <1>4 DEF Serves
<1>6. old.queued <= old.queued
  BY <1>5 DEF WholeSched, Scheduler
<1>7. PICK cs : /\ WholeSched(cs) /\ cs.owner = old.owner
                /\ cs.weighted = old.weighted /\ cs.queued <= old.queued
                /\ Set(t, cs)
  <2>1. CASE VisitTurn(t)
    <3>1. PICK c : c = Turned(old)
      OBVIOUS
    <3>2. ~HasPacket(old) /\ Set(t, c)
      BY <1>2, <1>4, <2>1, <3>1 DEF VisitTurn
    <3> QED BY ONLY <1>5, <1>6, <3>1, <3>2, TurnedWhole
  <2>2. CASE VisitBlocked(t)
    <3>1. PICK c : c = Refilled(old)
      OBVIOUS
    <3>2. Set(t, c)
      BY <1>2, <1>4, <2>2, <3>1 DEF VisitBlocked
    <3> QED BY ONLY <1>5, <1>6, <3>1, <3>2, RefilledWhole
  <2>3. CASE VisitDrop(t) \/ VisitSend(t)
    <3>1. PICK sent, shaped : HasPacket(old) /\ Set(t, Taken(old, sent, shaped))
      BY <1>2, <1>4, <2>3 DEF VisitDrop, VisitSend
    <3>2. PICK c : c = Taken(old, sent, shaped)
      OBVIOUS
    <3> QED BY ONLY <1>5, <3>1, <3>2, TakenWhole
  <2> QED BY <2>1, <2>2, <2>3
<1>8. /\ sched' = [sched EXCEPT ![s] = cs]
      /\ UNCHANGED <<load, open, schedOf, active, polling, handoff, doing>>
  BY <1>2, <1>7 DEF Set
<1>9. walk' = walk \/ Leave(t) \/ walk' = [walk EXCEPT ![t] = {}]
  BY DEF VisitTurn, VisitBlocked, VisitDrop, VisitSend
<1>10. walk' \in [Threads -> SUBSET Scheds] /\ \A r \in Threads : walk'[r] \subseteq walk[r]
  BY <1>9, WalkShrinks
<1> QED BY ONLY OwnerInv, <1>3, <1>4, <1>7, <1>8, <1>10, SchedServed

\* A visit that finds nothing to do.
LEMMA VisitIdleInv ==
  ASSUME OwnerInv, NEW t \in Threads, VisitIdle(t)
  PROVE  OwnerInv'
<1>1. PICK s : s = Visited(t)
  OBVIOUS
<1>2. /\ s \in walk[t] /\ s \in active[t] /\ s \in Scheds /\ s \in Live
      /\ WholeSched(sched[s]) /\ sched[s].owner = t /\ sched[s] # None
      /\ FlowsWhole /\ TypeOK /\ OwnerServes /\ Walks /\ Claims /\ Attached
  BY <1>1, VisitedAt DEF VisitIdle, Live, OwnerInv, FlowsWhole
<1>3. PICK old : old = sched[s]
  OBVIOUS
<1>4. old.queued = 0
  <2>1. Busy(old) = {}
    BY <1>1, <1>2, <1>3 DEF VisitIdle, Serves
  <2> QED BY <1>2, <1>3, <2>1, IdleEmpty
<1>5. PICK cs : cs = WeightOff(old)
  OBVIOUS
<1>6. WholeSched(cs) /\ cs.owner = t /\ cs.weighted = FALSE /\ cs.queued = 0
  BY <1>2, <1>3, <1>4, <1>5, Unweighted
<1>7. /\ sched' = [sched EXCEPT ![s] = cs]
      /\ active' = [active EXCEPT ![t] = @ \ {s}]
      /\ walk' = [walk EXCEPT ![t] = @ \ {s}]
      /\ UNCHANGED <<load, open, schedOf, polling, handoff, doing>>
  BY <1>1, <1>2, <1>3, <1>5 DEF VisitIdle, Leave, WeightOff
<1>8. /\ sched' \in [Scheds -> Scheduler \cup {None}]
      /\ sched'[s] = cs /\ \A r \in Scheds \ {s} : sched'[r] = sched[r]
      /\ Live' = Live \cup {s} /\ \A r \in Live' : Whole(sched'[r])
  BY ONLY <1>2, <1>6, <1>7, SchedPut
<1>9. Live' = Live /\ \A r \in Live : r \in Scheds /\ (r # s => sched'[r] = sched[r])
  BY <1>2, <1>8 DEF Live
<1>10. /\ active' \in [Threads -> SUBSET Scheds] /\ walk' \in [Threads -> SUBSET Scheds]
       /\ active'[t] = active[t] \ {s} /\ walk'[t] = walk[t] \ {s}
       /\ \A r \in Threads \ {t} : active'[r] = active[r] /\ walk'[r] = walk[r]
  BY <1>2, <1>7 DEF TypeOK
<1>11. FlowsWhole'
  <2>1. TypeOK'
    BY <1>2, <1>7, <1>8, <1>10 DEF TypeOK
  <2> QED BY <1>8, <2>1 DEF FlowsWhole
<1>12. OwnerServes'
  <2>1. \A r \in Threads : s \notin active'[r]
    BY <1>2, <1>10 DEF OwnerServes
  <2>2. \A r \in Live' : /\ sched'[r].queued > 0 => sched'[r].weighted
                         /\ sched'[r].weighted <=> \E k \in Threads : r \in active'[k]
    <3>1. ASSUME NEW r \in Live, r # s
          PROVE  /\ sched'[r].queued > 0 => sched'[r].weighted
                 /\ sched'[r].weighted <=> \E k \in Threads : r \in active'[k]
      <4>1. \A k \in Threads : r \in active'[k] <=> r \in active[k]
        BY <1>10, <3>1
      <4> QED BY <1>2, <1>9, <3>1, <4>1 DEF OwnerServes
    <3>2. ~(0 > 0)
      OBVIOUS
    <3> QED BY <1>6, <1>8, <1>9, <2>1, <3>1, <3>2
  <2>3. \A k \in Threads : \A r \in active'[k] : r \in Live' /\ sched'[r].owner = k
    <3>1. SUFFICES ASSUME NEW k \in Threads, NEW r \in active'[k]
                   PROVE  r \in Live' /\ sched'[r].owner = k
      OBVIOUS
    <3>2. r \in active[k] /\ r # s
      BY <1>10, <2>1
    <3> QED BY <1>2, <1>9, <3>2 DEF OwnerServes
  <2>4. polling' = {k \in Threads : \E r \in Live' : sched'[r].owner = k}
    BY <1>2, <1>6, <1>7, <1>8, <1>9 DEF OwnerServes
  <2> QED BY <2>2, <2>3, <2>4 DEF OwnerServes
<1>13. Walks'
  BY <1>2, <1>7, <1>10 DEF Walks
<1>14. Claims' /\ Attached'
  BY <1>2, <1>7, <1>9 DEF Claims, Attached
<1> QED BY <1>11, <1>12, <1>13, <1>14 DEF OwnerInv

LEMMA NextInv == OwnerInv /\ [Next]_vars => OwnerInv'
<1> SUFFICES ASSUME OwnerInv, [Next]_vars PROVE OwnerInv'
  OBVIOUS
<1>1. CASE \E i \in Ifaces : Disable(i) \/ \E s \in Scheds : Enable(i, s)
  BY <1>1, DisableInv, EnableInv
<1>2. CASE \E a \in load : Receive(a[1], a[2], a[3])
  <2>1. PICK a \in load : Receive(a[1], a[2], a[3])
    BY <1>2
  <2>2. a \in Threads \X Ifaces \X Packet
    BY <2>1, OwnerAssumption DEF OwnerInv, FlowsWhole, TypeOK
  <2>3. PICK t \in Threads, i \in Ifaces, p \in Packet : Receive(t, i, p)
    BY <2>1, <2>2
  <2> QED BY <2>3, ReceiveInv
<1>3. CASE Lull \/ UNCHANGED vars
  BY <1>3, QuietInv
<1>4. ASSUME NEW t \in Threads, ReceiveHandoff(t) \/ Enqueue(t) \/ Dispatch(t) \/ Visit(t)
      PROVE  OwnerInv'
  <2>1. CASE ReceiveHandoff(t)
    BY <2>1, ReceiveHandoffInv
  <2>2. CASE Enqueue(t)
    BY <2>2, PassThroughInv, SeeUnownedInv, EnqueueLocalInv, EnqueueDropInv, HandOffInv
       DEF Enqueue
  <2>3. CASE Dispatch(t) \/ VisitShaped(t)
    BY <2>3, QuietInv
  <2>4. CASE VisitTurn(t) \/ VisitBlocked(t) \/ VisitDrop(t) \/ VisitSend(t)
    BY <2>4, VisitInv
  <2>5. CASE VisitIdle(t)
    BY <2>5, VisitIdleInv
  <2> QED BY <1>4, <2>1, <2>2, <2>3, <2>4, <2>5 DEF Visit
<1> QED BY <1>1, <1>2, <1>3, <1>4 DEF Next

\* Every scheduler's flow queues stay whole, only its owner serves it, and an
\* interface leads to a scheduler of its own, under any interleaving of the
\* threads' enqueue, handoff and dequeue nodes with the control plane's
\* enables and disables.
THEOREM OwnerInvariant == Spec => []OwnerInv
<1>1. Init => OwnerInv
  BY InitInv
<1>2. OwnerInv /\ [Next]_vars => OwnerInv'
  BY NextInv
<1> QED BY <1>1, <1>2, PTL DEF Spec

\* Whatever cake_flow_lookup evicts, the enqueue node refuses, COBALT drops, the
\* dequeue node sends or a closing gate leaves over, every scheduler's lists,
\* counts, host table and queues say the same, and what is queued is within the
\* scheduler's limit.
THEOREM FlowsAlwaysWhole == Spec => []FlowsWhole
<1>1. OwnerInv => FlowsWhole
  BY DEF OwnerInv
<1> QED BY <1>1, OwnerInvariant, PTL

\* After any race of claims and any reuse of an index, a scheduler is in the
\* bitmap of its owner alone, is there while anything is queued and exactly
\* while its weight counts, and a node polls exactly while its thread owns a
\* scheduler.
THEOREM OwnerAlwaysServes == Spec => []OwnerServes
<1>1. OwnerInv => OwnerServes
  BY DEF OwnerInv
<1> QED BY <1>1, OwnerInvariant, PTL
=============================================================================
