----------------------------- MODULE FiniteSums -----------------------------
(***************************************************************************)
(* Facts about SumFunctionOnSet of the community modules, the sum of a     *)
(* function over a finite set of its arguments: what proofs about counters *)
(* need, that the counter of a change at one place changes by that much.   *)
(* The recursion by which the sum is defined picks its elements in an      *)
(* order of its own; SumStep has that order, SumPick any other.            *)
(***************************************************************************)
EXTENDS Integers, FiniteSets, Functions, FiniteSetTheorems, NaturalsInduction,
        WellFoundedInduction, TLAPS

\* A number below which there is none in the set.
LEMMA LessWellFounded ==
  \E R : IsWellFoundedOn(R, Nat) /\ \A a, b \in Nat : <<a, b>> \in R <=> a < b
<1>1. IsWellFoundedOn(OpToRel(<, Nat), Nat)
  BY NatLessThanWellFounded
<1>2. \A a, b \in Nat : <<a, b>> \in OpToRel(<, Nat) <=> a < b
  BY DEF OpToRel
<1> QED BY <1>1, <1>2

LEMMA LeastOf ==
  ASSUME NEW S \in SUBSET Nat, S # {}
  PROVE  \E x \in S : \A y \in S : x <= y
<1>1. PICK R : IsWellFoundedOn(R, Nat) /\ \A a, b \in Nat : <<a, b>> \in R <=> a < b
  BY LessWellFounded
<1>2. ASSUME NEW T, T \subseteq Nat, T # {}
      PROVE  \E x \in T : \A y \in T : ~(<<y, x>> \in R)
  <2>1. IsWellFoundedOn(R, Nat)
    BY <1>1
  <2> QED BY <1>2, <2>1, WFMin, Zenon
<1>3. S \subseteq Nat
  OBVIOUS
<1>4. PICK x \in S : \A y \in S : ~(<<y, x>> \in R)
  BY <1>2, <1>3
<1>5. \A y \in S : ~(y < x)
  BY <1>1, <1>3, <1>4, Zenon
<1> QED BY <1>3, <1>5

\* Induction over the subsets of a finite set: of the bad ones, one has no
\* bad subset but itself.
LEMMA SmallestBad ==
  ASSUME NEW S, IsFiniteSet(S), NEW Bad \in SUBSET (SUBSET S), Bad # {}
  PROVE  \E T \in Bad : \A U \in SUBSET T : U # T => U \notin Bad
<1>1. \A T \in Bad : IsFiniteSet(T) /\ Cardinality(T) \in Nat
  BY FS_Subset, FS_CardinalityType
<1> DEFINE Sizes == {Cardinality(T) : T \in Bad}
<1>2. Sizes \in SUBSET Nat /\ Sizes # {}
  BY <1>1
<1>3. \E n \in Sizes : \A m \in Sizes : n <= m
  <2> HIDE DEF Sizes
  <2> QED BY <1>2, LeastOf
<1>4. PICK T \in Bad : \A U \in Bad : Cardinality(T) <= Cardinality(U)
  BY <1>3
<1>5. ASSUME NEW U \in SUBSET T, U # T, U \in Bad
      PROVE  FALSE
  <2>1. IsFiniteSet(T) /\ Cardinality(T) \in Nat /\ Cardinality(U) \in Nat
    BY <1>1, <1>5
  <2>2. Cardinality(U) < Cardinality(T)
    BY <2>1, <1>5, FS_Subset
  <2>3. Cardinality(T) <= Cardinality(U)
    BY <1>4, <1>5
  <2> QED BY <2>1, <2>2, <2>3
<1> QED BY <1>4, <1>5

-----------------------------------------------------------------------------
First(s) == CHOOSE x \in s : TRUE

\* What g must be to be the recursion's value on each member of D.
Sums(f, D, g) ==
  g = [s \in D |-> IF s = {} THEN 0 ELSE f[First(s)] + g[s \ {First(s)}]]

LEMMA SumDef ==
  ASSUME NEW f, NEW S
  PROVE  SumFunctionOnSet(f, S) = (CHOOSE g : Sums(f, SUBSET S, g))[S]
BY DEF SumFunctionOnSet, FoldFunctionOnSet, MapThenFoldSet, Sums, First

LEMMA FirstIn == ASSUME NEW s, s # {} PROVE First(s) \in s
BY DEF First

\* The recursion has a value on subsets of any size.
UpTo(S, n) == {s \in SUBSET S : Cardinality(s) <= n}

LEMMA SumsTo ==
  ASSUME NEW f, NEW S, IsFiniteSet(S), NEW n \in Nat
  PROVE  \E g : Sums(f, UpTo(S, n), g)
<1> DEFINE Bad == {m \in Nat : ~ \E g : Sums(f, UpTo(S, m), g)}
<1>0. \A s \in SUBSET S : IsFiniteSet(s) /\ Cardinality(s) \in Nat
  BY FS_Subset, FS_CardinalityType
<1>1. SUFFICES ASSUME Bad # {} PROVE FALSE
  OBVIOUS
<1>2. PICK m \in Bad : \A k \in Bad : m <= k
  <2>1. Bad \in SUBSET Nat
    OBVIOUS
  <2> HIDE DEF Bad
  <2> QED BY <1>1, <2>1, LeastOf
<1>3. m # 0
  <2> DEFINE z == [s \in UpTo(S, 0) |-> 0]
  <2>1. \A s \in UpTo(S, 0) : s = {}
    BY <1>0, FS_EmptySet DEF UpTo
  <2>2. z = [s \in UpTo(S, 0) |-> IF s = {} THEN 0 ELSE f[First(s)] + z[s \ {First(s)}]]
    BY <2>1
  <2>3. Sums(f, UpTo(S, 0), z)
    BY <2>2 DEF Sums
  <2> QED BY <2>3
<1>4. m \in Nat /\ m - 1 \in Nat /\ m - 1 \notin Bad
  <2>1. m \in Nat
    OBVIOUS
  <2>2. m - 1 \in Nat /\ ~(m <= m - 1)
    BY <2>1, <1>3
  <2> QED BY <1>2, <2>1, <2>2
<1>5. PICK g : Sums(f, UpTo(S, m - 1), g)
  BY <1>4
<1> DEFINE h == [s \in UpTo(S, m) |-> IF s = {} THEN 0 ELSE f[First(s)] + g[s \ {First(s)}]]
<1>6. ASSUME NEW s \in UpTo(S, m), s # {}
      PROVE  h[s \ {First(s)}] = g[s \ {First(s)}]
  <2> DEFINE t == s \ {First(s)}
  <2>1. t \in SUBSET S /\ Cardinality(t) = Cardinality(s) - 1
    BY <1>6, <1>0, FirstIn, FS_RemoveElement DEF UpTo
  <2>2. t \in UpTo(S, m - 1) /\ t \in UpTo(S, m)
    BY <2>1, <1>0, <1>4 DEF UpTo
  <2>3. h[t] = IF t = {} THEN 0 ELSE f[First(t)] + g[t \ {First(t)}]
    <3> HIDE DEF t
    <3> QED BY <2>2
  <2>4. g[t] = IF t = {} THEN 0 ELSE f[First(t)] + g[t \ {First(t)}]
    <3> HIDE DEF t
    <3> QED BY <2>2, <1>5 DEF Sums
  <2> QED BY <2>3, <2>4
<1>7. h = [s \in UpTo(S, m) |-> IF s = {} THEN 0 ELSE f[First(s)] + h[s \ {First(s)}]]
  <2> DEFINE k == [s \in UpTo(S, m) |-> IF s = {} THEN 0 ELSE f[First(s)] + h[s \ {First(s)}]]
  <2>1. \A s \in UpTo(S, m) : h[s] = k[s]
    <3> TAKE s \in UpTo(S, m)
    <3>1. CASE s = {}
      BY <3>1
    <3>2. CASE s # {}
      <4>1. h[s] = f[First(s)] + g[s \ {First(s)}]
        BY <3>2
      <4>2. k[s] = f[First(s)] + h[s \ {First(s)}]
        BY <3>2
      <4> QED BY <4>1, <4>2, <1>6, <3>2
    <3> QED BY <3>1, <3>2
  <2>2. h = [s \in UpTo(S, m) |-> h[s]]
    OBVIOUS
  <2>3. k = [s \in UpTo(S, m) |-> k[s]]
    OBVIOUS
  <2> HIDE DEF h, k
  <2>4. h = k
    BY <2>1, <2>2, <2>3
  <2> QED BY <2>4 DEF k
<1>8. Sums(f, UpTo(S, m), h)
  BY <1>7 DEF Sums
<1> QED BY <1>8

LEMMA SumsAll ==
  ASSUME NEW f, NEW S, IsFiniteSet(S)
  PROVE  Sums(f, SUBSET S, CHOOSE g : Sums(f, SUBSET S, g))
<1>1. Cardinality(S) \in Nat
  BY FS_CardinalityType
<1>2. UpTo(S, Cardinality(S)) = SUBSET S
  BY FS_Subset DEF UpTo
<1>3. \E g : Sums(f, UpTo(S, Cardinality(S)), g)
  BY <1>1, SumsTo
<1>4. \E g : Sums(f, SUBSET S, g)
  BY <1>2, <1>3
<1> QED BY <1>4

\* Two values of the recursion agree where both have one.
LEMMA SumsAgree ==
  ASSUME NEW f, NEW S, IsFiniteSet(S), NEW T, T \subseteq S,
         NEW g, NEW h, Sums(f, SUBSET S, g), Sums(f, SUBSET T, h)
  PROVE  g[T] = h[T]
<1> DEFINE Bad == {s \in SUBSET T : g[s] # h[s]}
<1>1. SUFFICES ASSUME Bad # {} PROVE FALSE
  OBVIOUS
<1>2. PICK s \in Bad : \A u \in SUBSET s : u # s => u \notin Bad
  <2>1. Bad \in SUBSET (SUBSET T) /\ IsFiniteSet(T)
    BY FS_Subset
  <2> HIDE DEF Bad
  <2> QED BY <1>1, <2>1, SmallestBad
<1>3. s \in SUBSET T /\ s \in SUBSET S /\ g[s] # h[s]
  OBVIOUS
<1>4. g[s] = IF s = {} THEN 0 ELSE f[First(s)] + g[s \ {First(s)}]
  BY <1>3 DEF Sums
<1>5. h[s] = IF s = {} THEN 0 ELSE f[First(s)] + h[s \ {First(s)}]
  BY <1>3 DEF Sums
<1>6. s # {}
  BY <1>3, <1>4, <1>5
<1>7. g[s \ {First(s)}] = h[s \ {First(s)}]
  <2>1. First(s) \in s
    BY <1>6, FirstIn
  <2>2. s \ {First(s)} \in SUBSET s /\ s \ {First(s)} # s
    BY <2>1
  <2>3. s \ {First(s)} \notin Bad /\ s \ {First(s)} \in SUBSET T
    BY <2>2, <1>2, <1>3
  <2> QED BY <2>3
<1> QED BY <1>3, <1>4, <1>5, <1>6, <1>7
-----------------------------------------------------------------------------
LEMMA SumEmpty ==
  ASSUME NEW f
  PROVE  SumFunctionOnSet(f, {}) = 0
<1> DEFINE g == CHOOSE g : Sums(f, SUBSET {}, g)
<1>1. Sums(f, SUBSET {}, g)
  BY SumsAll, FS_EmptySet
<1>2. SumFunctionOnSet(f, {}) = g[{}]
  BY SumDef
<1> HIDE DEF g
<1> QED BY <1>1, <1>2 DEF Sums

LEMMA SumAs ==
  ASSUME NEW f, NEW S, IsFiniteSet(S)
  PROVE  \E g : Sums(f, SUBSET S, g) /\ SumFunctionOnSet(f, S) = g[S]
BY SumsAll, SumDef

LEMMA SumStep ==
  ASSUME NEW f, NEW S, IsFiniteSet(S), S # {}
  PROVE  SumFunctionOnSet(f, S) = f[First(S)] + SumFunctionOnSet(f, S \ {First(S)})
<1>1. PICK T : T = S \ {First(S)}
  OBVIOUS
<1>2. T \subseteq S /\ IsFiniteSet(T)
  BY <1>1, FS_Subset
<1>3. PICK g : Sums(f, SUBSET S, g) /\ SumFunctionOnSet(f, S) = g[S]
  BY SumAs
<1>4. PICK h : Sums(f, SUBSET T, h) /\ SumFunctionOnSet(f, T) = h[T]
  BY <1>2, SumAs
<1>5. g[S] = f[First(S)] + g[T]
  BY <1>1, <1>3 DEF Sums
<1>6. g[T] = h[T]
  BY <1>2, <1>3, <1>4, SumsAgree
<1> QED BY <1>1, <1>3, <1>4, <1>5, <1>6

\* Sums of integers and of natural numbers.
LEMMA SumInt ==
  ASSUME NEW f, NEW S, IsFiniteSet(S), \A x \in S : f[x] \in Int
  PROVE  SumFunctionOnSet(f, S) \in Int
<1> DEFINE Bad == {s \in SUBSET S : SumFunctionOnSet(f, s) \notin Int}
<1>1. SUFFICES ASSUME Bad # {} PROVE FALSE
  OBVIOUS
<1>2. PICK s \in Bad : \A u \in SUBSET s : u # s => u \notin Bad
  <2>1. Bad \in SUBSET (SUBSET S)
    OBVIOUS
  <2> HIDE DEF Bad
  <2> QED BY <1>1, <2>1, SmallestBad
<1>3. s # {} /\ IsFiniteSet(s)
  <2>1. SumFunctionOnSet(f, s) \notin Int /\ s \in SUBSET S
    OBVIOUS
  <2>2. SumFunctionOnSet(f, {}) = 0
    BY SumEmpty
  <2>3. IsFiniteSet(s)
    BY <2>1, FS_Subset
  <2> HIDE DEF Bad
  <2> QED BY <2>1, <2>2, <2>3
<1>4. SumFunctionOnSet(f, s) = f[First(s)] + SumFunctionOnSet(f, s \ {First(s)})
  BY <1>3, SumStep
<1>5. SumFunctionOnSet(f, s \ {First(s)}) \in Int /\ f[First(s)] \in Int
  <2>1. First(s) \in s
    BY <1>3, FirstIn
  <2>2. s \ {First(s)} \in SUBSET s /\ s \ {First(s)} # s /\ s \ {First(s)} \in SUBSET S
    BY <2>1
  <2>3. s \ {First(s)} \notin Bad
    BY <1>2, <2>2
  <2> QED BY <2>1, <2>2, <2>3
<1> QED BY <1>4, <1>5

LEMMA SumNat ==
  ASSUME NEW f, NEW S, IsFiniteSet(S), \A x \in S : f[x] \in Nat
  PROVE  SumFunctionOnSet(f, S) \in Nat
<1> DEFINE Bad == {s \in SUBSET S : SumFunctionOnSet(f, s) \notin Nat}
<1>1. SUFFICES ASSUME Bad # {} PROVE FALSE
  OBVIOUS
<1>2. PICK s \in Bad : \A u \in SUBSET s : u # s => u \notin Bad
  <2>1. Bad \in SUBSET (SUBSET S)
    OBVIOUS
  <2> HIDE DEF Bad
  <2> QED BY <1>1, <2>1, SmallestBad
<1>3. s # {} /\ IsFiniteSet(s)
  <2>1. SumFunctionOnSet(f, s) \notin Nat /\ s \in SUBSET S
    OBVIOUS
  <2>2. SumFunctionOnSet(f, {}) = 0
    BY SumEmpty
  <2>3. IsFiniteSet(s)
    BY <2>1, FS_Subset
  <2> HIDE DEF Bad
  <2> QED BY <2>1, <2>2, <2>3
<1>4. SumFunctionOnSet(f, s) = f[First(s)] + SumFunctionOnSet(f, s \ {First(s)})
  BY <1>3, SumStep
<1>5. SumFunctionOnSet(f, s \ {First(s)}) \in Nat /\ f[First(s)] \in Nat
  <2>1. First(s) \in s
    BY <1>3, FirstIn
  <2>2. s \ {First(s)} \in SUBSET s /\ s \ {First(s)} # s /\ s \ {First(s)} \in SUBSET S
    BY <2>1
  <2>3. s \ {First(s)} \notin Bad
    BY <1>2, <2>2
  <2> QED BY <2>1, <2>2, <2>3
<1> QED BY <1>4, <1>5

\* Any element may be added last.
LEMMA SumPick ==
  ASSUME NEW f, NEW S, IsFiniteSet(S), \A x \in S : f[x] \in Int, NEW e \in S
  PROVE  SumFunctionOnSet(f, S) = f[e] + SumFunctionOnSet(f, S \ {e})
<1> DEFINE Good(s) == \A x \in s : SumFunctionOnSet(f, s) = f[x] + SumFunctionOnSet(f, s \ {x})
           Bad == {s \in SUBSET S : ~Good(s)}
<1>1. SUFFICES ASSUME Bad # {} PROVE FALSE
  OBVIOUS
<1>2. PICK s \in Bad : \A u \in SUBSET s : u # s => u \notin Bad
  <2>1. Bad \in SUBSET (SUBSET S)
    OBVIOUS
  <2> HIDE DEF Bad
  <2> QED BY <1>1, <2>1, SmallestBad
<1>3. PICK x \in s : SumFunctionOnSet(f, s) # f[x] + SumFunctionOnSet(f, s \ {x})
  OBVIOUS
<1> DEFINE c == First(s)
<1>4. c \in s
  BY <1>3, FirstIn
<1>5. s \in SUBSET S /\ IsFiniteSet(s)
  BY FS_Subset
<1>6. SumFunctionOnSet(f, s) = f[c] + SumFunctionOnSet(f, s \ {c})
  BY <1>3, <1>5, SumStep
<1>7. x # c
  BY <1>3, <1>6
<1> HIDE DEF c
<1>8. Good(s \ {c}) /\ Good(s \ {x})
  BY <1>2, <1>4, <1>3, <1>5
<1> DEFINE r == (s \ {c}) \ {x}
<1>9. SumFunctionOnSet(f, s \ {c}) = f[x] + SumFunctionOnSet(f, r)
  BY <1>8, <1>7, <1>3
<1>10. SumFunctionOnSet(f, s \ {x}) = f[c] + SumFunctionOnSet(f, r)
  <2>1. (s \ {x}) \ {c} = r
    OBVIOUS
  <2>2. c \in s \ {x}
    BY <1>4, <1>7
  <2>3. SumFunctionOnSet(f, s \ {x}) = f[c] + SumFunctionOnSet(f, (s \ {x}) \ {c})
    BY <1>8, <2>2
  <2> QED BY <2>1, <2>3
<1>11. SumFunctionOnSet(f, r) \in Int /\ f[c] \in Int /\ f[x] \in Int
  <2>1. IsFiniteSet(r) /\ \A y \in r : f[y] \in Int
    BY <1>5, FS_Subset
  <2>2. SumFunctionOnSet(f, r) \in Int
    <3> HIDE DEF r
    <3> QED BY <2>1, SumInt
  <2> QED BY <2>2, <1>3, <1>4, <1>5
<1> HIDE DEF r, Good, Bad
<1> QED BY <1>3, <1>6, <1>9, <1>10, <1>11

\* What the function is elsewhere does not matter.
LEMMA SumSame ==
  ASSUME NEW f, NEW g, NEW S, IsFiniteSet(S), \A x \in S : f[x] = g[x]
  PROVE  SumFunctionOnSet(f, S) = SumFunctionOnSet(g, S)
<1> DEFINE Bad == {s \in SUBSET S : SumFunctionOnSet(f, s) # SumFunctionOnSet(g, s)}
<1>1. SUFFICES ASSUME Bad # {} PROVE FALSE
  OBVIOUS
<1>2. PICK s \in Bad : \A u \in SUBSET s : u # s => u \notin Bad
  <2>1. Bad \in SUBSET (SUBSET S)
    OBVIOUS
  <2> HIDE DEF Bad
  <2> QED BY <1>1, <2>1, SmallestBad
<1>3. s # {} /\ IsFiniteSet(s)
  BY SumEmpty, FS_Subset
<1>4. SumFunctionOnSet(f, s) = f[First(s)] + SumFunctionOnSet(f, s \ {First(s)})
  BY <1>3, SumStep
<1>5. SumFunctionOnSet(g, s) = g[First(s)] + SumFunctionOnSet(g, s \ {First(s)})
  BY <1>3, SumStep
<1>6. /\ SumFunctionOnSet(f, s \ {First(s)}) = SumFunctionOnSet(g, s \ {First(s)})
      /\ f[First(s)] = g[First(s)]
  BY <1>2, <1>3, FirstIn
<1> QED BY <1>4, <1>5, <1>6

\* A change at one place changes the sum by as much.
LEMMA SumChange ==
  ASSUME NEW f, NEW g, NEW S, IsFiniteSet(S), NEW e \in S,
         \A x \in S : f[x] \in Int /\ g[x] \in Int,
         \A x \in S \ {e} : f[x] = g[x]
  PROVE  /\ SumFunctionOnSet(g, S) = SumFunctionOnSet(f, S) + (g[e] - f[e])
         /\ SumFunctionOnSet(g, S) \in Int /\ SumFunctionOnSet(f, S) \in Int
<1>1. IsFiniteSet(S \ {e})
  BY FS_Subset
<1>2. SumFunctionOnSet(f, S \ {e}) = SumFunctionOnSet(g, S \ {e})
  BY <1>1, SumSame
<1>3. SumFunctionOnSet(f, S) = f[e] + SumFunctionOnSet(f, S \ {e})
  BY SumPick
<1>4. SumFunctionOnSet(g, S) = g[e] + SumFunctionOnSet(g, S \ {e})
  BY SumPick
<1>5. SumFunctionOnSet(f, S \ {e}) \in Int
  BY <1>1, SumInt
<1> QED BY <1>2, <1>3, <1>4, <1>5

\* A sum of as many numbers, none above b.
LEMMA SumAtMost ==
  ASSUME NEW f, NEW S, IsFiniteSet(S), NEW b \in Int,
         \A x \in S : f[x] \in Int /\ f[x] <= b
  PROVE  SumFunctionOnSet(f, S) <= Cardinality(S) * b
<1> DEFINE Bad == {s \in SUBSET S : ~(SumFunctionOnSet(f, s) <= Cardinality(s) * b)}
<1>1. SUFFICES ASSUME Bad # {} PROVE FALSE
  OBVIOUS
<1>2. PICK s \in Bad : \A u \in SUBSET s : u # s => u \notin Bad
  <2>1. Bad \in SUBSET (SUBSET S)
    OBVIOUS
  <2> HIDE DEF Bad
  <2> QED BY <1>1, <2>1, SmallestBad
<1>3. s # {} /\ IsFiniteSet(s)
  BY SumEmpty, FS_Subset, FS_EmptySet
<1>4. SumFunctionOnSet(f, s) = f[First(s)] + SumFunctionOnSet(f, s \ {First(s)})
  BY <1>3, SumStep
<1>5. /\ SumFunctionOnSet(f, s \ {First(s)}) <= Cardinality(s \ {First(s)}) * b
      /\ f[First(s)] \in Int /\ f[First(s)] <= b
  BY <1>2, <1>3, FirstIn
<1>6. Cardinality(s) \in Nat /\ Cardinality(s \ {First(s)}) = Cardinality(s) - 1
  BY <1>3, FirstIn, FS_RemoveElement, FS_CardinalityType
<1>7. SumFunctionOnSet(f, s \ {First(s)}) \in Int
  <2>1. IsFiniteSet(s \ {First(s)}) /\ \A x \in s \ {First(s)} : f[x] \in Int
    BY <1>3, FS_Subset
  <2> QED BY <2>1, SumInt
<1>8. ~(SumFunctionOnSet(f, s) <= Cardinality(s) * b)
  OBVIOUS
<1> DEFINE k == Cardinality(s)
           t == SumFunctionOnSet(f, s \ {First(s)})
           v == f[First(s)]
<1>9. k \in Nat /\ t \in Int /\ v \in Int /\ v <= b /\ t <= (k - 1) * b /\ ~(v + t <= k * b)
  BY <1>4, <1>5, <1>6, <1>7, <1>8
<1> HIDE DEF k, t, v
<1>10. (k - 1) * b = k * b - b /\ k * b \in Int
  BY <1>9
<1> QED BY <1>9, <1>10

\* A sum of zeros.
LEMMA SumZero ==
  ASSUME NEW f, NEW S, IsFiniteSet(S), \A x \in S : f[x] = 0
  PROVE  SumFunctionOnSet(f, S) = 0
<1>1. 0 \in Int /\ \A x \in S : f[x] \in Int /\ f[x] <= 0
  OBVIOUS
<1>2. SumFunctionOnSet(f, S) <= Cardinality(S) * 0
  BY <1>1, SumAtMost
<1>3. SumFunctionOnSet(f, S) \in Nat /\ Cardinality(S) \in Nat
  BY SumNat, FS_CardinalityType
<1> QED BY <1>2, <1>3

\* A sum of two functions, and of two of which one is nowhere less.
LEMMA SumAdd ==
  ASSUME NEW f, NEW g, NEW h, NEW S, IsFiniteSet(S),
         \A x \in S : f[x] \in Int /\ g[x] \in Int /\ h[x] = f[x] + g[x]
  PROVE  SumFunctionOnSet(h, S) = SumFunctionOnSet(f, S) + SumFunctionOnSet(g, S)
<1> DEFINE Bad == {s \in SUBSET S : SumFunctionOnSet(h, s)
                     # SumFunctionOnSet(f, s) + SumFunctionOnSet(g, s)}
<1>1. SUFFICES ASSUME Bad # {} PROVE FALSE
  OBVIOUS
<1>2. PICK s \in Bad : \A u \in SUBSET s : u # s => u \notin Bad
  <2>1. Bad \in SUBSET (SUBSET S)
    OBVIOUS
  <2> HIDE DEF Bad
  <2> QED BY <1>1, <2>1, SmallestBad
<1>3. s # {} /\ IsFiniteSet(s)
  <2>1. /\ SumFunctionOnSet(f, {}) = 0 /\ SumFunctionOnSet(g, {}) = 0
        /\ SumFunctionOnSet(h, {}) = 0
    BY SumEmpty
  <2>2. SumFunctionOnSet(h, {}) = SumFunctionOnSet(f, {}) + SumFunctionOnSet(g, {})
    BY <2>1
  <2>3. s # {} /\ s \in SUBSET S
    BY <2>2
  <2> QED BY <2>3, FS_Subset
<1> DEFINE c == First(s)
           r == s \ {c}
<1>4. /\ SumFunctionOnSet(f, s) = f[c] + SumFunctionOnSet(f, r)
      /\ SumFunctionOnSet(g, s) = g[c] + SumFunctionOnSet(g, r)
      /\ SumFunctionOnSet(h, s) = h[c] + SumFunctionOnSet(h, r)
  BY <1>3, SumStep
<1>5. c \in s
  BY <1>3, FirstIn
<1>6. SumFunctionOnSet(h, r) = SumFunctionOnSet(f, r) + SumFunctionOnSet(g, r)
  BY <1>2, <1>5
<1>7. /\ SumFunctionOnSet(f, r) \in Int /\ SumFunctionOnSet(g, r) \in Int
      /\ f[c] \in Int /\ g[c] \in Int /\ h[c] = f[c] + g[c]
  <2>1. IsFiniteSet(r) /\ \A x \in r : f[x] \in Int /\ g[x] \in Int
    BY <1>3, FS_Subset
  <2> HIDE DEF r
  <2>2. SumFunctionOnSet(f, r) \in Int /\ SumFunctionOnSet(g, r) \in Int
    BY <2>1, SumInt
  <2> QED BY <1>5, <2>2
<1>8. SumFunctionOnSet(h, s) # SumFunctionOnSet(f, s) + SumFunctionOnSet(g, s)
  OBVIOUS
<1> HIDE DEF c, r, Bad
<1> QED BY <1>4, <1>6, <1>7, <1>8

LEMMA SumNoMore ==
  ASSUME NEW f, NEW g, NEW S, IsFiniteSet(S),
         \A x \in S : f[x] \in Int /\ g[x] \in Int /\ f[x] <= g[x]
  PROVE  SumFunctionOnSet(f, S) <= SumFunctionOnSet(g, S)
<1> DEFINE d == [x \in S |-> g[x] - f[x]]
<1>1. \A x \in S : d[x] \in Nat /\ d[x] \in Int /\ g[x] = f[x] + d[x]
  OBVIOUS
<1> HIDE DEF d
<1>2. SumFunctionOnSet(g, S) = SumFunctionOnSet(f, S) + SumFunctionOnSet(d, S)
  BY <1>1, SumAdd
<1>3. SumFunctionOnSet(d, S) \in Nat /\ SumFunctionOnSet(f, S) \in Int
  BY <1>1, SumNat, SumInt
<1> QED BY <1>2, <1>3

\* A sum of natural numbers is no less than any one of them.
LEMMA SumHas ==
  ASSUME NEW f, NEW S, IsFiniteSet(S), \A x \in S : f[x] \in Nat, NEW e \in S
  PROVE  SumFunctionOnSet(f, S) >= f[e]
<1>1. SumFunctionOnSet(f, S) = f[e] + SumFunctionOnSet(f, S \ {e})
  BY SumPick
<1>2. SumFunctionOnSet(f, S \ {e}) \in Nat
  <2>1. IsFiniteSet(S \ {e})
    BY FS_Subset
  <2> QED BY <2>1, SumNat
<1> QED BY <1>1, <1>2

\* What is negative in one sum is made up for in the other, by something of its
\* own.
LEMMA SumMatched ==
  ASSUME NEW f, NEW S, IsFiniteSet(S), NEW g, NEW T, IsFiniteSet(T), NEW m,
         \A x \in S : f[x] \in Int, \A y \in T : g[y] \in Nat,
         \A x \in S : f[x] < 0 => m[x] \in T /\ f[x] + g[m[x]] >= 0,
         \A x, y \in S : f[x] < 0 /\ f[y] < 0 /\ m[x] = m[y] => x = y
  PROVE  SumFunctionOnSet(f, S) + SumFunctionOnSet(g, T) \in Nat
<1> DEFINE Matched(s, t) == \A x \in s : f[x] < 0 => m[x] \in t
           Bad == {s \in SUBSET S : \E t \in SUBSET T :
                     Matched(s, t) /\ SumFunctionOnSet(f, s) + SumFunctionOnSet(g, t) \notin Nat}
<1>1. SUFFICES Bad = {}
  <2>1. S \notin Bad => SumFunctionOnSet(f, S) + SumFunctionOnSet(g, T) \in Nat
    OBVIOUS
  <2> HIDE DEF Bad
  <2> QED BY <2>1
<1>2. SUFFICES ASSUME Bad # {} PROVE FALSE
  OBVIOUS
<1>3. PICK s \in Bad : \A u \in SUBSET s : u # s => u \notin Bad
  <2>1. Bad \in SUBSET (SUBSET S)
    OBVIOUS
  <2> HIDE DEF Bad
  <2> QED BY <1>2, <2>1, SmallestBad
<1>4. PICK t \in SUBSET T :
        Matched(s, t) /\ SumFunctionOnSet(f, s) + SumFunctionOnSet(g, t) \notin Nat
  OBVIOUS
<1>5. s \subseteq S /\ IsFiniteSet(s) /\ IsFiniteSet(t)
  BY FS_Subset
<1>6. SumFunctionOnSet(g, t) \in Nat
  BY <1>5, SumNat
<1>7. s # {}
  BY <1>4, <1>6, SumEmpty
<1>8. PICK c : c = First(s)
  OBVIOUS
<1>9. c \in s /\ SumFunctionOnSet(f, s) = f[c] + SumFunctionOnSet(f, s \ {c})
  BY <1>5, <1>7, <1>8, FirstIn, SumStep
<1>10. /\ SumFunctionOnSet(f, s \ {c}) \in Int /\ f[c] \in Int
  <2>1. IsFiniteSet(s \ {c}) /\ \A x \in s \ {c} : f[x] \in Int
    BY <1>5, FS_Subset
  <2>2. SumFunctionOnSet(f, s \ {c}) \in Int
    BY <2>1, SumInt
  <2> QED BY <1>5, <1>9, <2>2
<1>11. ASSUME NEW r \in SUBSET t, Matched(s \ {c}, r)
       PROVE  SumFunctionOnSet(f, s \ {c}) + SumFunctionOnSet(g, r) \in Nat
  <2>1. s \ {c} \notin Bad /\ s \ {c} \in SUBSET S /\ r \in SUBSET T
    BY <1>3, <1>5, <1>9
  <2> QED BY <2>1, <1>11
<1> HIDE DEF Bad
<1>12. CASE f[c] >= 0
  <2>1. SumFunctionOnSet(f, s \ {c}) + SumFunctionOnSet(g, t) \in Nat
    BY <1>4, <1>11
  <2> QED BY <1>4, <1>6, <1>9, <1>10, <1>12, <2>1
<1>13. CASE f[c] < 0
  <2>1. PICK y : y = m[c]
    OBVIOUS
  <2>2. y \in t /\ f[c] + g[y] >= 0 /\ g[y] \in Nat
    BY <1>4, <1>5, <1>9, <1>13, <2>1
  <2>3. SumFunctionOnSet(g, t) = g[y] + SumFunctionOnSet(g, t \ {y})
    BY <1>5, <2>2, SumPick
  <2>4. Matched(s \ {c}, t \ {y})
    BY <1>4, <1>5, <1>9, <1>13, <2>1
  <2>5. SumFunctionOnSet(f, s \ {c}) + SumFunctionOnSet(g, t \ {y}) \in Nat
    BY <1>11, <2>4
  <2>6. SumFunctionOnSet(g, t \ {y}) \in Nat
    <3>1. IsFiniteSet(t \ {y}) /\ \A x \in t \ {y} : g[x] \in Nat
      BY <1>5, FS_Subset
    <3> QED BY <3>1, SumNat
  <2> QED BY <1>4, <1>9, <1>10, <2>2, <2>3, <2>5, <2>6
<1> QED BY <1>10, <1>12, <1>13
=============================================================================
