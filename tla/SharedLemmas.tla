---------------------------- MODULE SharedLemmas ----------------------------
(***************************************************************************)
(* What the proofs about several modules need: least and greatest numbers, *)
(* induction up to a number, functions made step by step, and what         *)
(* pool_get and pool_put do to a pool that is well formed.                 *)
(***************************************************************************)
EXTENDS Integers, VppPool, SequenceTheorems, WellFoundedInduction, TLAPS

-----------------------------------------------------------------------------
\* Numbers

\* Every set of natural numbers that is not empty has a least one.
LEMMA LeastNumber ==
  ASSUME NEW T \in SUBSET Nat, T # {}
  PROVE  \E x \in T : \A y \in T : x <= y
<1>1. PICK x \in T : \A y \in T : ~(<< y, x >> \in OpToRel(<, Nat))
  BY NatLessThanWellFounded, WFMin, Zenon
<1>2. \A y \in T : ~(y < x)
  BY <1>1, Zenon DEF OpToRel
<1> QED
  BY <1>2

\* A set that has 0, and with each number the next, has every number up to n.
LEMMA UpTo ==
  ASSUME NEW n \in Nat, NEW G, 0 \in G, \A i \in 1 .. n : i - 1 \in G => i \in G
  PROVE  \A i \in 0 .. n : i \in G
<1> DEFINE T == {i \in 0 .. n : i \notin G}
<1> SUFFICES ASSUME T # {}
             PROVE  FALSE
  OBVIOUS
<1>1. PICK x \in T : \A y \in T : x <= y
  <2>1. T \in SUBSET Nat
    OBVIOUS
  <2> HIDE DEF T
  <2> QED
    BY <2>1, LeastNumber
<1>2. x \in 1 .. n /\ x - 1 \in 0 .. n /\ ~(x <= x - 1)
  OBVIOUS
<1>3. x - 1 \in G
  BY <1>1, <1>2
<1> QED
  BY <1>2, <1>3

\* A step for each of n places makes a function of how many steps are taken.
BySteps(f, k, base, step) ==
  \A i \in 0 .. k : f[i] = IF i = 0 THEN base ELSE step[i][f[i - 1]]

\* Such a function exists, whatever the steps.
LEMMA StepsExist ==
  ASSUME NEW n \in Nat, NEW V, NEW base \in V, NEW step \in [1 .. n -> [V -> V]]
  PROVE  \E f \in [0 .. n -> V] : BySteps(f, n, base, step)
<1> DEFINE G == {k \in 0 .. n : \E f \in [0 .. k -> V] : BySteps(f, k, base, step)}
<1>1. 0 \in G
  <2> DEFINE f == [i \in 0 .. 0 |-> base]
  <2>1. f \in [0 .. 0 -> V]
    OBVIOUS
  <2>2. BySteps(f, 0, base, step)
    BY DEF BySteps
  <2> HIDE DEF f
  <2> QED
    BY <2>1, <2>2
<1>2. ASSUME NEW k \in 1 .. n, k - 1 \in G
      PROVE  k \in G
  <2>1. PICK f \in [0 .. k - 1 -> V] : BySteps(f, k - 1, base, step)
    BY <1>2
  <2> DEFINE g == [i \in 0 .. k |-> IF i = k THEN step[k][f[k - 1]] ELSE f[i]]
  <2>2. g \in [0 .. k -> V]
    <3>1. f[k - 1] \in V
      OBVIOUS
    <3>2. step[k][f[k - 1]] \in V
      BY <3>1
    <3>3. \A i \in 0 .. k : i # k => f[i] \in V
      OBVIOUS
    <3> QED
      BY <3>2, <3>3
  <2>3. BySteps(g, k, base, step)
    <3> SUFFICES ASSUME NEW i \in 0 .. k
                 PROVE  g[i] = IF i = 0 THEN base ELSE step[i][g[i - 1]]
      BY DEF BySteps
    <3>1. CASE i = k
      <4>1. k # 0 /\ k - 1 \in 0 .. k /\ k - 1 # k
        OBVIOUS
      <4> QED
        BY <3>1, <4>1
    <3>2. CASE i # k
      <4>1. i \in 0 .. k - 1 /\ (i # 0 => i - 1 \in 0 .. k /\ i - 1 # k)
        BY <3>2
      <4> QED
        BY <2>1, <3>2, <4>1 DEF BySteps
    <3> QED
      BY <3>1, <3>2
  <2>4. k \in 0 .. n
    OBVIOUS
  <2> HIDE DEF g
  <2> QED
    BY <2>2, <2>3, <2>4
<1> HIDE DEF G
<1>3. \A k \in 0 .. n : k \in G
  BY <1>1, <1>2, UpTo, Zenon
<1>4. n \in G
  BY <1>3
<1> QED
  BY <1>4 DEF G

\* The greatest of some numbers.
LEMMA MaxLemma ==
  ASSUME NEW S \in SUBSET Nat, S # {}, NEW n \in Nat, \A s \in S : s <= n
  PROVE  Max(S) \in S /\ \A y \in S : Max(S) >= y
<1> DEFINE T == {m \in Nat : n - m \in S}
<1>1. \A s \in S : n - s \in T
  <2>1. \A s \in S : s \in Nat /\ n - s \in Nat /\ n - (n - s) = s
    OBVIOUS
  <2> QED
    BY <2>1
<1>2. T \subseteq Nat /\ T # {}
  BY <1>1
<1> HIDE DEF T
<1>3. PICK x \in T : \A y \in T : x <= y
  BY <1>2, LeastNumber
<1>4. x \in Nat /\ n - x \in S
  BY DEF T
<1>5. \A s \in S : n - x >= s
  <2> TAKE s \in S
  <2>1. n - s \in T /\ s \in Nat /\ s <= n
    BY <1>1
  <2>2. x <= n - s /\ n - s \in Nat
    BY <1>3, <2>1
  <2> QED
    BY <1>4, <2>1, <2>2
<1> QED
  BY <1>4, <1>5 DEF Max

-----------------------------------------------------------------------------
\* Pools

\* The top of a stack, and what is left of it.
LEMMA LastFront ==
  ASSUME NEW S, NEW s \in Seq(S), s # << >>
  PROVE  /\ Len(s) \in Nat \ {0}
         /\ Last(s) = s[Len(s)]
         /\ Last(s) \in S
         /\ Front(s) \in Seq(S)
         /\ Len(Front(s)) = Len(s) - 1
         /\ \A i \in 1 .. Len(s) - 1 : Front(s)[i] = s[i]
<1>1. Len(s) \in Nat \ {0} /\ Last(s) = s[Len(s)] /\ Last(s) \in S
  BY EmptySeq DEF Last
<1>2. /\ Front(s) \in Seq(S)
      /\ Len(Front(s)) = Len(s) - 1
      /\ \A i \in 1 .. Len(s) - 1 : Front(s)[i] = s[i]
  <2> DEFINE m == Len(s) - 1
  <2>1. m \in Int /\ 1 \in Int /\ \A i \in 1 .. m : s[i] \in S
    BY <1>1
  <2> HIDE DEF m
  <2>2. /\ SubSeq(s, 1, m) \in Seq(S)
        /\ Len(SubSeq(s, 1, m)) = IF 1 <= m THEN m - 1 + 1 ELSE 0
        /\ \A i \in 1 .. m - 1 + 1 : SubSeq(s, 1, m)[i] = s[1 + i - 1]
    BY <2>1, SubSeqProperties
  <2>3. m >= 0 /\ m - 1 + 1 = m /\ Front(s) = SubSeq(s, 1, m)
    BY <1>1, <2>1 DEF m, Front
  <2>4. \A i \in 1 .. m : SubSeq(s, 1, m)[i] = s[i]
    BY <2>1, <2>2, <2>3
  <2>5. Front(s) \in Seq(S) /\ Len(Front(s)) = m
    BY <2>1, <2>2, <2>3
  <2> QED
    BY <2>3, <2>4, <2>5 DEF m
<1> QED
  BY <1>1, <1>2

Distinct(f) == \A j, k \in DOMAIN f : f[j] = f[k] => j = k

\* Taking the top off a stack without duplicates.
LEMMA PopLemma ==
  ASSUME NEW f \in Seq(Nat), f # << >>, Distinct(f),
         NEW g, g = Front(f), NEW n, n = Last(f)
  PROVE  /\ n \in Nat
         /\ n \in ToSet(f)
         /\ g \in Seq(Nat)
         /\ Distinct(g)
         /\ ToSet(g) = ToSet(f) \ {n}
<1>1. Len(f) \in Nat \ {0} /\ n = f[Len(f)] /\ n \in Nat
  BY LastFront
<1>2. g \in Seq(Nat) /\ Len(g) = Len(f) - 1
  BY LastFront
<1>3. \A j \in 1 .. Len(f) - 1 : g[j] = f[j]
  BY LastFront
<1>4. DOMAIN g = 1 .. Len(f) - 1 /\ DOMAIN f = 1 .. Len(f)
  BY <1>2
<1>5. \A j : j \in DOMAIN f <=> j \in DOMAIN g \/ j = Len(f)
  BY <1>1, <1>4
<1>6. Len(f) \notin DOMAIN g
  BY <1>1, <1>4
<1>7. \A j \in DOMAIN g : j \in DOMAIN f /\ g[j] = f[j] /\ f[j] # n
  BY <1>1, <1>3, <1>4, <1>5, <1>6 DEF Distinct
<1>8. Distinct(g)
  BY <1>7 DEF Distinct
<1>9. ASSUME NEW x
      PROVE  (\E j \in DOMAIN g : x = g[j])
               <=> (\E j \in DOMAIN f : x = f[j]) /\ x # n
  BY <1>1, <1>5, <1>7
<1>10. n \in ToSet(f)
  BY <1>1, <1>5 DEF ToSet
<1>11. ToSet(g) = ToSet(f) \ {n}
  BY <1>9 DEF ToSet
<1> QED
  BY <1>1, <1>2, <1>8, <1>10, <1>11

\* Pushing an element that is not yet there.
LEMMA PushLemma ==
  ASSUME NEW f \in Seq(Nat), Distinct(f), NEW n \in Nat,
         n \notin ToSet(f), NEW g, g = Append(f, n)
  PROVE  /\ g \in Seq(Nat)
         /\ Distinct(g)
         /\ ToSet(g) = ToSet(f) \cup {n}
<1>0. \A j \in DOMAIN f : f[j] # n
  BY DEF ToSet
<1>1. g \in Seq(Nat) /\ Len(g) = Len(f) + 1 /\ g[Len(f) + 1] = n
  OBVIOUS
<1>2. \A j \in 1 .. Len(f) : g[j] = f[j]
  OBVIOUS
<1>3. DOMAIN g = 1 .. Len(f) + 1 /\ DOMAIN f = 1 .. Len(f) /\ Len(f) \in Nat
  BY <1>1
<1>4. \A j : j \in DOMAIN g <=> j \in DOMAIN f \/ j = Len(f) + 1
  BY <1>3
<1>5. \A j \in DOMAIN f : g[j] = f[j]
  BY <1>2, <1>3
<1>6. Distinct(g)
  BY <1>0, <1>1, <1>4, <1>5 DEF Distinct
<1>7. ASSUME NEW x
      PROVE  (\E j \in DOMAIN g : x = g[j])
               <=> (\E j \in DOMAIN f : x = f[j]) \/ x = n
  BY <1>1, <1>4, <1>5
<1>8. ToSet(g) = ToSet(f) \cup {n}
  BY SMTT(30), <1>7 DEF ToSet
<1> QED
  BY <1>1, <1>6, <1>8

\* pool_get hands out an index that is not live, makes it live, stores the
\* element there, and leaves every other element alone.
LEMMA PoolGetLemma ==
  ASSUME NEW S, NEW p \in PoolType(S), PoolOK(p), NEW e \in S,
         NEW q, q = PoolGet(p, e), NEW n, n = NextIndex(p)
  PROVE  /\ n \in Nat \ {0}
         /\ n \notin Live(p)
         /\ q \in PoolType(S)
         /\ PoolOK(q)
         /\ DOMAIN q.elts = DOMAIN p.elts \cup {n}
         /\ Live(q) = Live(p) \cup {n}
         /\ q.elts[n] = e
         /\ \A i \in DOMAIN p.elts : i # n => q.elts[i] = p.elts[i]
<1>0. /\ p.elts \in Seq(S)
      /\ p.free \in Seq(Nat)
      /\ DOMAIN p.elts = 1 .. Len(p.elts)
  BY DEF PoolType
<1>1. CASE p.free = << >>
  <2>1. /\ q.elts = Append(p.elts, e)
        /\ q.free = << >>
        /\ q = [elts |-> q.elts, free |-> q.free]
        /\ n = Len(p.elts) + 1
    BY <1>1 DEF PoolGet, NextIndex
  <2>2. Freed(p) = {} /\ Freed(q) = {}
    BY <1>1, <2>1 DEF Freed, ToSet
  <2>3. /\ q.elts \in Seq(S)
        /\ DOMAIN q.elts = DOMAIN p.elts \cup {n}
        /\ q.elts[n] = e
        /\ \A i \in DOMAIN p.elts : i # n => q.elts[i] = p.elts[i]
    BY <1>0, <2>1
  <2>4. PoolOK(q)
    BY <2>1, <2>2 DEF PoolOK
  <2>5. q \in PoolType(S)
    BY <2>1, <2>3, EmptySeq DEF PoolType
  <2>6. Live(q) = Live(p) \cup {n} /\ n \notin Live(p)
    BY <1>0, <2>1, <2>2, <2>3 DEF Live
  <2> QED
    BY <1>0, <2>1, <2>3, <2>4, <2>5, <2>6
<1>2. CASE p.free # << >>
  <2>1. /\ q.elts = [p.elts EXCEPT ![n] = e]
        /\ q.free = Front(p.free)
        /\ q = [elts |-> q.elts, free |-> q.free]
        /\ n = Last(p.free)
    BY <1>2 DEF PoolGet, NextIndex
  <2>2. /\ n \in Nat
        /\ n \in Freed(p)
        /\ q.free \in Seq(Nat)
        /\ Distinct(q.free)
        /\ Freed(q) = Freed(p) \ {n}
    <3>1. Distinct(p.free)
      BY DEF PoolOK, Distinct
    <3> QED
      BY <1>0, <1>2, <2>1, <3>1, PopLemma DEF Freed
  <2>4. n \in DOMAIN p.elts
    BY <2>2 DEF PoolOK
  <2>5. /\ q.elts \in Seq(S)
        /\ DOMAIN q.elts = DOMAIN p.elts
        /\ q.elts[n] = e
        /\ \A i \in DOMAIN p.elts : i # n => q.elts[i] = p.elts[i]
    BY <1>0, <2>1, <2>4
  <2>7. PoolOK(q)
    <3>1. Freed(q) \subseteq DOMAIN q.elts
      BY <2>2, <2>5 DEF PoolOK
    <3> QED
      BY <2>2, <3>1 DEF PoolOK, Distinct
  <2>8. Live(q) = Live(p) \cup {n} /\ n \notin Live(p)
    BY <2>2, <2>4, <2>5 DEF Live
  <2>9. q \in PoolType(S)
    BY <2>1, <2>2, <2>5 DEF PoolType
  <2>10. n # 0
    BY <1>0, <2>4
  <2> QED
    BY <2>2, <2>4, <2>5, <2>7, <2>8, <2>9, <2>10
<1> QED
  BY <1>1, <1>2

\* pool_put makes a live index free and leaves all elements as they are.
LEMMA PoolPutLemma ==
  ASSUME NEW S, NEW p \in PoolType(S), PoolOK(p), NEW i \in Live(p),
         NEW q, q = PoolPut(p, i)
  PROVE  /\ q \in PoolType(S)
         /\ PoolOK(q)
         /\ q.elts = p.elts
         /\ Live(q) = Live(p) \ {i}
<1>0. /\ p.elts \in Seq(S)
      /\ p.free \in Seq(Nat)
      /\ i \in DOMAIN p.elts
      /\ i \notin Freed(p)
      /\ i \in Nat
  BY DEF PoolType, Live
<1>1. /\ q.elts = p.elts
      /\ q.free = Append(p.free, i)
      /\ q = [elts |-> q.elts, free |-> q.free]
  BY DEF PoolPut
<1>2. /\ q.free \in Seq(Nat)
      /\ Distinct(q.free)
      /\ Freed(q) = Freed(p) \cup {i}
  <2>1. Distinct(p.free)
    BY DEF PoolOK, Distinct
  <2> QED
    BY <1>0, <1>1, <2>1, PushLemma DEF Freed
<1>4. PoolOK(q)
  <2>1. Freed(q) \subseteq DOMAIN q.elts
    BY <1>0, <1>1, <1>2 DEF PoolOK
  <2> QED
    BY <1>2, <2>1 DEF PoolOK, Distinct
<1>5. q \in PoolType(S)
  BY <1>0, <1>1, <1>2 DEF PoolType
<1>6. Live(q) = Live(p) \ {i}
  BY <1>1, <1>2 DEF Live
<1> QED
  BY <1>1, <1>4, <1>5, <1>6
=============================================================================
