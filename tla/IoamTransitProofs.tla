------------------------- MODULE IoamTransitProofs -------------------------
(***************************************************************************)
(* Proofs about IoamTransit, for any destinations, routing tables and      *)
(* number of interfaces: the types, that iOAM is recorded where the last   *)
(* request says for however often the feature was enabled and disabled,    *)
(* and that the destinations behave as a keyed table.                      *)
(***************************************************************************)
EXTENDS IoamTransit, SharedLemmas, FiniteSetTheorems

-----------------------------------------------------------------------------
\* The inductive invariant

\* Hash table and pool of destinations agree.
DestIndexSound ==
  /\ \A d \in Dest : dst_by_ip4[d] # 0 =>
       /\ dst_by_ip4[d] \in Live(dst_tunnels)
       /\ dst_tunnels.elts[dst_by_ip4[d]].dst = d
  /\ \A i \in Live(dst_tunnels) : dst_by_ip4[dst_tunnels.elts[i].dst] = i

\* One address stands for all, and it is there if it was asked for last.
OneAddress ==
  /\ \A d \in Dest : d # HackDest => dst_by_ip4[d] = 0
  /\ fault = "none" => (asked <=> dst_by_ip4[HackDest] # 0)

\* An interface is claimed: the feature is enabled on it and the vector says so.
Claimed(i, refs, on) ==
  /\ i \in Interface /\ on[i] > 0
  /\ i \in DOMAIN refs /\ refs[i] = 1

\* The interface of a destination that is there is claimed.
ClaimStands ==
  fault = "none" /\ ~missed /\ dst_by_ip4[HackDest] # 0 =>
    Claimed(egress[HackDest], bool_ref_by_sw_if_index, feature)

TransitInv ==
  /\ TypeOK
  /\ DestIndexSound
  /\ OneAddress
  /\ ClaimStands
  /\ RouteHeard

TableType ==
  /\ dst_tunnels \in PoolType(TunnelType)
  /\ PoolOK(dst_tunnels)
  /\ dst_by_ip4 \in [Dest -> 0 .. Len(dst_tunnels.elts)]

\* The type of what the plug-in remembers of the interfaces.
ClaimType(refs, on) == refs \in Seq({1, Unused}) /\ on \in [Interface -> Nat]

-----------------------------------------------------------------------------
\* The vector of interfaces in use and the counts of the feature

LEMMA MaxOfTwo ==
  ASSUME NEW a \in Nat, NEW b \in Nat
  PROVE  Max({a, b}) = IF a >= b THEN a ELSE b
<1> DEFINE S == {a, b}
<1>1. S \in SUBSET Nat /\ S # {} /\ a + b \in Nat /\ \A s \in S : s <= a + b
  OBVIOUS
<1> HIDE DEF S
<1>2. Max(S) \in S /\ \A y \in S : Max(S) >= y
  BY <1>1, MaxLemma
<1> QED
  BY <1>2 DEF S

LEMMA InterfaceType ==
  ASSUME NEW i \in Interface
  PROVE  i \in Nat /\ i >= 1
BY TransitAssumption DEF Interface

LEMMA ReferredLemma ==
  ASSUME NEW refs \in Seq({1, Unused}), NEW i \in Interface,
         NEW x, x = Referred(refs, i)
  PROVE  /\ x \in Seq({1, Unused})
         /\ i \in DOMAIN x /\ x[i] = 1
<1> DEFINE m == Max({Len(refs), i})
<1>1. i \in Nat /\ i >= 1 /\ Len(refs) \in Nat /\ DOMAIN refs = 1 .. Len(refs)
  BY InterfaceType
<1>2. m = IF Len(refs) >= i THEN Len(refs) ELSE i
  BY <1>1, MaxOfTwo
<1>3. m \in Nat /\ i \in 1 .. m
  BY <1>1, <1>2
<1>4. x = [j \in 1 .. m |-> IF j = i THEN 1
                             ELSE IF j \in DOMAIN refs THEN refs[j] ELSE Unused]
  BY DEF Referred
<1> HIDE DEF m
<1>5. \A j \in 1 .. m : (IF j = i THEN 1
                          ELSE IF j \in DOMAIN refs THEN refs[j] ELSE Unused) \in {1, Unused}
  OBVIOUS
<1>6. x \in Seq({1, Unused})
  BY <1>3, <1>4, <1>5, IsASeq
<1> QED
  BY <1>3, <1>4, <1>6

LEMMA EnabledMoreLemma ==
  ASSUME NEW on \in [Interface -> Nat], NEW i, NEW n \in Nat,
         NEW x, x = EnabledMore(on, i, n)
  PROVE  /\ x \in [Interface -> Nat]
         /\ i \in Interface => x[i] = on[i] + n
BY DEF EnabledMore

\* What is left of a count after a disable.
LEMMA Floored ==
  ASSUME NEW a \in Int
  PROVE  Max({a, 0}) \in Nat
<1>1. CASE a \in Nat
  BY <1>1, MaxOfTwo
<1>2. CASE a \notin Nat
  <2>1. \A m \in {a, 0} : (\A y \in {a, 0} : m >= y) <=> m = 0
    BY <1>2
  <2>2. \E m \in {a, 0} : \A y \in {a, 0} : m >= y
    BY <1>2
  <2> QED
    BY <2>1, <2>2 DEF Max
<1> QED
  BY <1>1, <1>2

LEMMA DisabledLemma ==
  ASSUME NEW on \in [Interface -> Nat], NEW I, NEW n \in Nat,
         NEW x, x = Disabled(on, I, n)
  PROVE  /\ x \in [Interface -> Nat]
         /\ \A j \in Interface \ I : x[j] = on[j]
<1>1. \A j \in Interface : Max({on[j] - n, 0}) \in Nat
  BY Floored
<1> QED
  BY <1>1 DEF Disabled

-----------------------------------------------------------------------------
\* The table of destinations

LEMMA TunnelElement ==
  ASSUME TableType, NEW i \in DOMAIN dst_tunnels.elts
  PROVE  /\ i \in Nat \ {0}
         /\ dst_tunnels.elts[i].dst \in Dest
         /\ dst_tunnels.elts[i].outer_fib_index \in Fib
<1>1. dst_tunnels.elts \in Seq(TunnelType)
  BY DEF TableType, PoolType
<1>2. i \in Nat \ {0} /\ dst_tunnels.elts[i] \in TunnelType
  BY <1>1
<1> QED
  BY <1>2 DEF TunnelType

\* A destination is enabled exactly if its key leads somewhere.
LEMMA EnabledByKey ==
  ASSUME TableType, DestIndexSound
  PROVE  /\ Enabled \subseteq Dest
         /\ \A d \in Dest : d \in Enabled <=> dst_by_ip4[d] # 0
<1>1. \A i \in Live(dst_tunnels) :
        /\ i # 0
        /\ dst_tunnels.elts[i].dst \in Dest
        /\ dst_by_ip4[dst_tunnels.elts[i].dst] = i
  BY TunnelElement DEF Live, DestIndexSound
<1> QED
  BY <1>1 DEF Enabled, DestIndexSound

LEMMA EnterDestEffect ==
  ASSUME TableType, NEW d \in Dest, NEW fib \in Fib,
         EnterDest(d, fib), dst_by_ip4[d] = 0,
         NEW n, n = NextIndex(dst_tunnels)
  PROVE  /\ n \in Nat \ {0}
         /\ dst_tunnels' \in PoolType(TunnelType)
         /\ PoolOK(dst_tunnels')
         /\ DOMAIN dst_tunnels'.elts = DOMAIN dst_tunnels.elts \cup {n}
         /\ n \notin Live(dst_tunnels)
         /\ Live(dst_tunnels') = Live(dst_tunnels) \cup {n}
         /\ dst_tunnels'.elts[n] = [dst |-> d, outer_fib_index |-> fib]
         /\ \A i \in Live(dst_tunnels) : dst_tunnels'.elts[i] = dst_tunnels.elts[i]
         /\ dst_by_ip4'[d] = n
         /\ \A l \in Dest : l # d => dst_by_ip4'[l] = dst_by_ip4[l]
         /\ dst_by_ip4' \in [Dest -> 0 .. Len(dst_tunnels'.elts)]
<1> DEFINE e == [dst |-> d, outer_fib_index |-> fib]
           p == dst_tunnels
           q == dst_tunnels'
<1>1. e \in TunnelType
  BY DEF TunnelType
<1>2. p \in PoolType(TunnelType) /\ PoolOK(p) /\ q = PoolGet(p, e)
  BY DEF TableType, EnterDest
<1> HIDE DEF e
<1>3. /\ n \in Nat \ {0}
      /\ n \notin Live(p)
      /\ q \in PoolType(TunnelType)
      /\ PoolOK(q)
      /\ DOMAIN q.elts = DOMAIN p.elts \cup {n}
      /\ Live(q) = Live(p) \cup {n}
      /\ q.elts[n] = e
      /\ \A i \in DOMAIN p.elts : i # n => q.elts[i] = p.elts[i]
  BY <1>1, <1>2, PoolGetLemma
<1>4. \A i \in Live(p) : q.elts[i] = p.elts[i]
  BY <1>3 DEF Live
<1>5. /\ Len(p.elts) \in Nat /\ DOMAIN p.elts = 1 .. Len(p.elts)
      /\ Len(q.elts) \in Nat /\ DOMAIN q.elts = 1 .. Len(q.elts)
  BY <1>2, <1>3 DEF PoolType
<1>6. n \in 0 .. Len(q.elts) /\ 0 .. Len(p.elts) \subseteq 0 .. Len(q.elts)
  <2>1. Len(p.elts) <= Len(q.elts)
    <3>1. CASE Len(p.elts) = 0
      BY <1>5, <3>1
    <3>2. CASE Len(p.elts) # 0
      <4>1. Len(p.elts) \in DOMAIN p.elts
        BY <1>5, <3>2
      <4>2. Len(p.elts) \in DOMAIN q.elts
        BY <1>3, <4>1
      <4> QED
        BY <1>5, <4>2
    <3> QED
      BY <3>1, <3>2
  <2>2. n \in 1 .. Len(q.elts)
    BY <1>3, <1>5
  <2> QED
    BY <1>5, <2>1, <2>2
<1>7. dst_by_ip4' = [dst_by_ip4 EXCEPT ![d] = n] /\ dst_by_ip4 \in [Dest -> 0 .. Len(p.elts)]
  BY DEF EnterDest, TableType
<1>8. /\ dst_by_ip4'[d] = n
      /\ \A l \in Dest : l # d => dst_by_ip4'[l] = dst_by_ip4[l]
      /\ dst_by_ip4' \in [Dest -> 0 .. Len(q.elts)]
  BY <1>6, <1>7
<1> QED
  BY <1>3, <1>4, <1>8 DEF e

\* What entering a destination does to the table, whether it was there or not.
LEMMA EnterDestLemma ==
  ASSUME TableType, DestIndexSound, RouteHeard,
         children \in [Fib \X Dest -> 0 .. MaxChildren],
         NEW d \in Dest, NEW fib \in Fib, EnterDest(d, fib),
         dst_by_ip4[d] = 0 => children[<< fib, d >>] < MaxChildren
  PROVE  /\ TableType' /\ DestIndexSound' /\ RouteHeard'
         /\ children' \in [Fib \X Dest -> 0 .. MaxChildren]
         /\ Enabled' = Enabled \cup {d}
         /\ dst_by_ip4'[d] # 0
         /\ \A l \in Dest : l # d => dst_by_ip4'[l] = dst_by_ip4[l]
<1> DEFINE n == NextIndex(dst_tunnels)
           p == dst_tunnels
           q == dst_tunnels'
<1>1. CASE dst_by_ip4[d] # 0
  <2>1. UNCHANGED << dst_tunnels, dst_by_ip4, children >>
    BY <1>1 DEF EnterDest, tableVars
  <2>2. d \in Enabled
    BY <1>1, EnabledByKey
  <2> QED
    BY <1>1, <2>1, <2>2 DEF TableType, DestIndexSound, RouteHeard, Enabled
<1>2. CASE dst_by_ip4[d] = 0
  <2>0. MaxChildren \in Nat /\ children \in [Fib \X Dest -> Nat]
    BY TransitAssumption
  <2>1. /\ n \in Nat \ {0}
        /\ q \in PoolType(TunnelType)
        /\ PoolOK(q)
        /\ n \notin Live(p)
        /\ Live(q) = Live(p) \cup {n}
        /\ q.elts[n] = [dst |-> d, outer_fib_index |-> fib]
        /\ \A i \in Live(p) : q.elts[i] = p.elts[i]
        /\ dst_by_ip4'[d] = n
        /\ \A l \in Dest : l # d => dst_by_ip4'[l] = dst_by_ip4[l]
        /\ dst_by_ip4' \in [Dest -> 0 .. Len(q.elts)]
    BY <1>2, <2>0, EnterDestEffect
  <2>2. q.elts[n].dst = d /\ q.elts[n].outer_fib_index = fib
    BY <2>1
  <2>3. TableType'
    BY <2>1 DEF TableType
  <2>4. \A i \in Live(p) : /\ i \in DOMAIN p.elts
                            /\ p.elts[i].dst \in Dest /\ p.elts[i].outer_fib_index \in Fib
                            /\ p.elts[i].dst # d
    BY <1>2, TunnelElement DEF Live, DestIndexSound
  <2> HIDE DEF n, q
  <2>5. DestIndexSound'
    <3>1. ASSUME NEW l \in Dest, dst_by_ip4'[l] # 0
          PROVE  dst_by_ip4'[l] \in Live(q) /\ q.elts[dst_by_ip4'[l]].dst = l
      <4>1. CASE l = d
        BY <2>1, <2>2, <4>1
      <4>2. CASE l # d
        <5>1. dst_by_ip4'[l] = dst_by_ip4[l]
          BY <2>1, <4>2
        <5>2. dst_by_ip4[l] \in Live(p) /\ p.elts[dst_by_ip4[l]].dst = l
          BY <3>1, <5>1 DEF DestIndexSound
        <5> QED
          BY <2>1, <5>1, <5>2
      <4> QED
        BY <4>1, <4>2
    <3>2. ASSUME NEW i \in Live(q)
          PROVE  dst_by_ip4'[q.elts[i].dst] = i
      BY <2>1, <2>2, <2>4 DEF DestIndexSound
    <3> QED
      BY <3>1, <3>2 DEF DestIndexSound, q
  <2>6. Enabled' = Enabled \cup {d}
    <3>1. \A i \in Live(p) : i \in Live(q) /\ q.elts[i].dst = p.elts[i].dst
      BY <2>1
    <3>2. Enabled' = {q.elts[i].dst : i \in Live(q)}
      BY DEF Enabled, q
    <3>3. ASSUME NEW x
          PROVE  x \in {q.elts[i].dst : i \in Live(q)}
                   <=> x \in {p.elts[i].dst : i \in Live(p)} \cup {d}
      <4>1. n \in Live(q) /\ \A i \in Live(q) : i \in Live(p) \/ i = n
        BY <2>1
      <4> QED
        BY <2>2, <3>1, <4>1
    <3> QED
      BY <3>2, <3>3 DEF Enabled
  <2>7. children' = [children EXCEPT ![<< fib, d >>] = children[<< fib, d >>] + 1]
    BY <1>2 DEF EnterDest
  <2>8. children[<< fib, d >>] + 1 \in 0 .. MaxChildren /\ children[<< fib, d >>] + 1 > 0
    BY <1>2, <2>0
  <2>9. children' \in [Fib \X Dest -> 0 .. MaxChildren]
    BY <2>7, <2>8
  <2>10. \A x \in Fib \X Dest : children'[x] > 0 <=> children[x] > 0 \/ x = << fib, d >>
    BY <2>0, <2>7, <2>8
  <2>11. RouteHeard'
    <3> SUFFICES ASSUME NEW i \in Live(q)
                 PROVE  children'[<< q.elts[i].outer_fib_index, q.elts[i].dst >>] > 0
      BY DEF RouteHeard, q
    <3>1. CASE i = n
      BY <2>2, <2>10, <3>1
    <3>2. CASE i # n
      <4>1. i \in Live(p) /\ q.elts[i] = p.elts[i]
        BY <2>1, <3>2
      <4> QED
        BY <2>4, <2>10, <4>1 DEF RouteHeard
    <3> QED
      BY <3>1, <3>2
  <2> QED
    BY <2>1, <2>3, <2>5, <2>6, <2>9, <2>11 DEF n
<1> QED
  BY <1>1, <1>2

LEMMA RemoveDestEffect ==
  ASSUME TableType, DestIndexSound, NEW d \in Dest, RemoveDest(d), dst_by_ip4[d] # 0
  PROVE  /\ dst_by_ip4[d] \in Live(dst_tunnels)
         /\ dst_tunnels' \in PoolType(TunnelType)
         /\ PoolOK(dst_tunnels')
         /\ dst_tunnels'.elts = dst_tunnels.elts
         /\ Live(dst_tunnels') = Live(dst_tunnels) \ {dst_by_ip4[d]}
         /\ dst_by_ip4'[d] = 0
         /\ \A l \in Dest : l # d => dst_by_ip4'[l] = dst_by_ip4[l]
         /\ dst_by_ip4' \in [Dest -> 0 .. Len(dst_tunnels.elts)]
<1> DEFINE i == dst_by_ip4[d]
<1>1. i \in Live(dst_tunnels)
  BY DEF DestIndexSound
<1>2. /\ dst_tunnels \in PoolType(TunnelType) /\ PoolOK(dst_tunnels)
      /\ dst_tunnels' = PoolPut(dst_tunnels, i)
  BY DEF TableType, RemoveDest
<1>3. /\ dst_tunnels' \in PoolType(TunnelType)
      /\ PoolOK(dst_tunnels')
      /\ dst_tunnels'.elts = dst_tunnels.elts
      /\ Live(dst_tunnels') = Live(dst_tunnels) \ {i}
  BY <1>1, <1>2, PoolPutLemma
<1>4. /\ dst_by_ip4' = [dst_by_ip4 EXCEPT ![d] = 0]
      /\ dst_by_ip4 \in [Dest -> 0 .. Len(dst_tunnels.elts)]
      /\ 0 \in 0 .. Len(dst_tunnels.elts)
  BY <1>2 DEF RemoveDest, TableType, PoolType
<1> QED
  BY <1>1, <1>3, <1>4

LEMMA RemoveDestLemma ==
  ASSUME TableType, DestIndexSound, RouteHeard,
         NEW d \in Dest, RemoveDest(d), children' = children
  PROVE  /\ TableType' /\ DestIndexSound' /\ RouteHeard'
         /\ dst_by_ip4'[d] = 0
         /\ \A l \in Dest : l # d => dst_by_ip4'[l] = dst_by_ip4[l]
<1> DEFINE p == dst_tunnels
           q == dst_tunnels'
           i == dst_by_ip4[d]
<1>1. CASE i = 0
  <2>1. UNCHANGED << dst_tunnels, dst_by_ip4 >>
    BY <1>1 DEF RemoveDest, tableVars
  <2> QED
    BY <1>1, <2>1 DEF TableType, DestIndexSound, RouteHeard
<1>2. CASE i # 0
  <2>1. /\ i \in Live(p)
        /\ q \in PoolType(TunnelType)
        /\ PoolOK(q)
        /\ q.elts = p.elts
        /\ Live(q) = Live(p) \ {i}
        /\ dst_by_ip4'[d] = 0
        /\ \A l \in Dest : l # d => dst_by_ip4'[l] = dst_by_ip4[l]
        /\ dst_by_ip4' \in [Dest -> 0 .. Len(p.elts)]
    BY <1>2, RemoveDestEffect
  <2>2. TableType'
    BY <2>1 DEF TableType
  <2>3. p.elts[i].dst = d
    BY <1>2 DEF DestIndexSound
  <2>4. \A j \in Live(p) : p.elts[j].dst \in Dest
    BY TunnelElement DEF Live
  <2> HIDE DEF q, i
  <2>5. DestIndexSound'
    <3>1. ASSUME NEW l \in Dest, dst_by_ip4'[l] # 0
          PROVE  dst_by_ip4'[l] \in Live(q) /\ p.elts[dst_by_ip4'[l]].dst = l
      <4>1. l # d /\ dst_by_ip4'[l] = dst_by_ip4[l]
        BY <2>1, <3>1
      <4>2. dst_by_ip4[l] \in Live(p) /\ p.elts[dst_by_ip4[l]].dst = l
        BY <3>1, <4>1 DEF DestIndexSound
      <4>3. dst_by_ip4[l] # i
        BY <2>3, <4>1, <4>2
      <4> QED
        BY <2>1, <4>1, <4>2, <4>3
    <3>2. ASSUME NEW j \in Live(q)
          PROVE  dst_by_ip4'[p.elts[j].dst] = j
      <4>1. j \in Live(p) /\ j # i
        BY <2>1
      <4>2. dst_by_ip4[p.elts[j].dst] = j
        BY <4>1 DEF DestIndexSound
      <4> QED
        BY <2>1, <2>4, <4>1, <4>2 DEF i
    <3> QED
      BY <2>1, <3>1, <3>2 DEF DestIndexSound, q
  <2>6. RouteHeard'
    BY <2>1 DEF RouteHeard, q
  <2> QED
    BY <2>1, <2>2, <2>5, <2>6
<1> QED
  BY <1>1, <1>2

-----------------------------------------------------------------------------
\* The interfaces

\* How many destinations there are.
LEMMA CountLive ==
  ASSUME NEW p \in PoolType(TunnelType)
  PROVE  /\ Cardinality(Live(p)) \in Nat
         /\ Cardinality(Live(p)) = 0 <=> Live(p) = {}
<1>1. DOMAIN p.elts = 1 .. Len(p.elts) /\ Len(p.elts) \in Nat
  BY DEF PoolType
<1>2. IsFiniteSet(DOMAIN p.elts)
  BY <1>1, FS_Interval
<1>3. IsFiniteSet(Live(p))
  BY <1>2, FS_Subset DEF Live
<1> QED
  BY <1>3, FS_CardinalityType, FS_EmptySet

\* Somebody is there exactly if the one address is.
LEMMA SomebodyThere ==
  ASSUME TableType, DestIndexSound, \A d \in Dest : d # HackDest => dst_by_ip4[d] = 0
  PROVE  Live(dst_tunnels) = {} <=> dst_by_ip4[HackDest] = 0
<1>1. ASSUME NEW i \in Live(dst_tunnels)
      PROVE  dst_by_ip4[HackDest] # 0
  <2>1. i # 0 /\ dst_tunnels.elts[i].dst \in Dest
    BY TunnelElement DEF Live
  <2>2. dst_by_ip4[dst_tunnels.elts[i].dst] = i
    BY DEF DestIndexSound
  <2> QED
    BY <2>1, <2>2
<1>2. HackDest \in Dest
  BY TransitAssumption
<1> QED
  BY <1>1, <1>2 DEF DestIndexSound

\* Giving up what nobody uses leaves the interface of a destination claimed.
LEMMA ReleaseLemma ==
  ASSUME NEW refs \in Seq({1, Unused}), Release(refs), TableType',
         ClaimType(bool_ref_by_sw_if_index, feature),
         egress[HackDest] \in Interface \cup {NoInterface}
  PROVE  /\ ClaimType(bool_ref_by_sw_if_index', feature')
         /\ fault' \in {fault, "no interface"}
         /\ fault' # "no interface" /\ Live(dst_tunnels') # {} =>
              Claimed(egress[HackDest], bool_ref_by_sw_if_index', feature')
<1> DEFINE i      == egress[HackDest]
           others == Cardinality(Live(dst_tunnels'))
           all    == IF others = 0 THEN refs ELSE Referred(refs, i)
           more   == EnabledMore(feature, i, others)
<1>1. others \in Nat /\ (others = 0 <=> Live(dst_tunnels') = {})
  <2>1. dst_tunnels' \in PoolType(TunnelType)
    BY DEF TableType
  <2> QED
    BY <2>1, CountLive
<1>2. CASE others > 0 /\ i = NoInterface
  <2>1. fault' = "no interface" /\ UNCHANGED << bool_ref_by_sw_if_index, feature >>
    BY <1>2 DEF Release
  <2> QED
    BY <2>1
<1>3. CASE ~(others > 0 /\ i = NoInterface)
  <2>1. /\ bool_ref_by_sw_if_index' = all
        /\ feature' = Disabled(more, Selected(all), 1)
        /\ fault' = fault
    BY <1>3 DEF Release
  <2>2. others # 0 => i \in Interface
    BY <1>1, <1>3
  <2> HIDE DEF others, i
  <2>3. /\ all \in Seq({1, Unused})
        /\ others # 0 => i \in DOMAIN all /\ all[i] = 1
    BY <2>2, ReferredLemma
  <2>4. more \in [Interface -> Nat] /\ (i \in Interface => more[i] = feature[i] + others)
    BY <1>1, EnabledMoreLemma DEF ClaimType
  <2> HIDE DEF all, more
  <2>5. /\ feature' \in [Interface -> Nat]
        /\ \A j \in Interface \ Selected(all) : feature'[j] = more[j]
    BY <2>1, <2>4, DisabledLemma
  <2>6. ASSUME others # 0
        PROVE  Claimed(i, all, feature')
    <3>1. i \in Interface /\ i \in DOMAIN all /\ all[i] = 1 /\ i \notin Selected(all)
      BY <2>2, <2>3, <2>6 DEF Selected, Unused
    <3>2. feature'[i] = feature[i] + others /\ feature[i] \in Nat
      BY <2>4, <2>5, <3>1 DEF ClaimType
    <3> QED
      BY <1>1, <2>6, <3>1, <3>2 DEF Claimed
  <2> QED
    BY <1>1, <2>1, <2>3, <2>5, <2>6 DEF ClaimType, i
<1> QED
  BY <1>2, <1>3

\* A refresh moves the claim to where the route leads now.
LEMMA RefreshLemma ==
  ASSUME NEW n \in Nat \ {0}, Refresh(n), TableType, Live(dst_tunnels) # {},
         ClaimType(bool_ref_by_sw_if_index, feature),
         egress'[HackDest] \in Interface \cup {NoInterface}
  PROVE  /\ ClaimType(bool_ref_by_sw_if_index', feature')
         /\ missed' = FALSE
         /\ fault' \in {fault, "no interface"}
         /\ fault' # "no interface" =>
              Claimed(egress'[HackDest], bool_ref_by_sw_if_index', feature')
<1> DEFINE i     == egress'[HackDest]
           dests == Cardinality(Live(dst_tunnels))
           L     == Len(bool_ref_by_sw_if_index)
           size  == Max({L + 1, i}) + n - 1
           more  == (n - 1) * (dests - 1)
           count == Max({feature[i] - 1, 0}) + dests + more
<1>1. dests \in Nat \ {0}
  <2>1. dst_tunnels \in PoolType(TunnelType)
    BY DEF TableType
  <2> QED
    BY <2>1, CountLive
<1>2. missed' = FALSE
  BY <1>1 DEF Refresh
<1>3. CASE i = NoInterface
  <2>1. fault' = "no interface" /\ UNCHANGED << bool_ref_by_sw_if_index, feature >>
    BY <1>1, <1>3 DEF Refresh
  <2> QED
    BY <1>2, <2>1
<1>4. CASE i # NoInterface
  <2>1. /\ bool_ref_by_sw_if_index' = [j \in 1 .. size |-> IF j = i THEN 1 ELSE Unused]
        /\ feature' = [Disabled(feature, Interface, n) EXCEPT ![i] = count]
        /\ fault' = fault
    BY <1>1, <1>4 DEF Refresh
  <2>2. i \in Interface /\ i \in Nat /\ i >= 1 /\ L \in Nat
    BY <1>4, InterfaceType DEF ClaimType
  <2>3. Max({L + 1, i}) = IF L + 1 >= i THEN L + 1 ELSE i
    BY <2>2, MaxOfTwo
  <2>4. size \in Nat /\ i \in 1 .. size
    BY <2>2, <2>3
  <2>5. more \in Nat
    <3>1. n - 1 \in Nat /\ dests - 1 \in Nat
      BY <1>1
    <3>2. \A a, b \in Nat : a * b \in Nat
      OBVIOUS
    <3> QED
      BY <3>1, <3>2
  <2>6. Max({feature[i] - 1, 0}) \in Nat
    BY <2>2, Floored DEF ClaimType
  <2> HIDE DEF i, dests, L, size, more
  <2>7. count \in Nat /\ count > 0
    BY <1>1, <2>5, <2>6
  <2> HIDE DEF count
  <2>8. Disabled(feature, Interface, n) \in [Interface -> Nat]
    BY DisabledLemma DEF ClaimType
  <2>9. feature' \in [Interface -> Nat] /\ feature'[i] = count
    BY <2>1, <2>2, <2>7, <2>8
  <2>10. /\ bool_ref_by_sw_if_index' \in Seq({1, Unused})
         /\ i \in DOMAIN bool_ref_by_sw_if_index'
         /\ bool_ref_by_sw_if_index'[i] = 1
    <3>1. \A j \in 1 .. size : (IF j = i THEN 1 ELSE Unused) \in {1, Unused}
      OBVIOUS
    <3> QED
      BY <2>1, <2>4, <3>1, IsASeq
  <2> QED
    BY <1>2, <2>1, <2>2, <2>7, <2>9, <2>10 DEF ClaimType, Claimed, i
<1> QED
  BY <1>3, <1>4

-----------------------------------------------------------------------------
\* The steps

LEMMA AddressType == HackDest \in Dest /\ \A ip : Address(ip) = HackDest
BY TransitAssumption DEF Address

LEMMA Parts ==
  ASSUME TransitInv
  PROVE  /\ TypeOK /\ DestIndexSound /\ OneAddress /\ ClaimStands /\ RouteHeard
         /\ TableType
         /\ ClaimType(bool_ref_by_sw_if_index, feature)
         /\ egress[HackDest] \in Interface \cup {NoInterface}
         /\ Live(dst_tunnels) = {} <=> dst_by_ip4[HackDest] = 0
<1>1. TypeOK /\ DestIndexSound /\ OneAddress /\ ClaimStands /\ RouteHeard
  BY DEF TransitInv
<1>2. TableType /\ ClaimType(bool_ref_by_sw_if_index, feature)
  BY <1>1 DEF TypeOK, TableType, ClaimType
<1>3. egress[HackDest] \in Interface \cup {NoInterface}
  BY <1>1, AddressType DEF TypeOK
<1> QED
  BY <1>1, <1>2, <1>3, SomebodyThere DEF OneAddress

\* The parts make the invariant.
LEMMA Whole ==
  ASSUME TableType', DestIndexSound', OneAddress', ClaimStands', RouteHeard',
         ClaimType(bool_ref_by_sw_if_index', feature'),
         egress' \in [Dest -> Interface \cup {NoInterface}],
         children' \in [Fib \X Dest -> 0 .. MaxChildren],
         asked' \in BOOLEAN, missed' \in BOOLEAN,
         fault' \in {"none", "no interface", "beyond the vector"}
  PROVE  TransitInv'
BY DEF TransitInv, TypeOK, TableType, ClaimType

NotBeyond == fault' \in {"none", "no interface"}

LEMMA EnableDestStep ==
  ASSUME TransitInv, NEW ip \in Dest, NEW fib \in Fib, EnableDest(ip, fib)
  PROVE  TransitInv' /\ NotBeyond
<1> DEFINE d == HackDest
           i == egress[d]
           refs == bool_ref_by_sw_if_index
<1>0. /\ TypeOK /\ DestIndexSound /\ OneAddress /\ ClaimStands /\ RouteHeard
      /\ TableType /\ ClaimType(refs, feature) /\ i \in Interface \cup {NoInterface}
  BY Parts
<1>1. /\ d \in Dest /\ fault = "none" /\ asked' = TRUE
      /\ egress' = egress /\ missed' = missed
      /\ dst_by_ip4[d] = 0 => children[<< fib, d >>] < MaxChildren
  BY AddressType DEF EnableDest
<1>2. /\ egress' \in [Dest -> Interface \cup {NoInterface}]
      /\ children \in [Fib \X Dest -> 0 .. MaxChildren]
      /\ missed' \in BOOLEAN
  BY <1>0, <1>1 DEF TypeOK
<1>3. CASE i = NoInterface
  <2>1. /\ fault' = "no interface"
        /\ UNCHANGED << dst_tunnels, dst_by_ip4, children, bool_ref_by_sw_if_index, feature >>
    BY <1>3, AddressType DEF EnableDest, tableVars
  <2>2. TableType' /\ DestIndexSound' /\ RouteHeard'
    BY <1>0, <2>1 DEF TableType, DestIndexSound, RouteHeard
  <2>3. OneAddress' /\ ClaimStands'
    BY <1>0, <2>1 DEF OneAddress, ClaimStands
  <2> QED
    BY <1>0, <1>1, <1>2, <2>1, <2>2, <2>3, Whole DEF NotBeyond
<1>4. CASE i # NoInterface
  <2>1. /\ feature' = EnabledMore(feature, i, 1)
        /\ bool_ref_by_sw_if_index' = Referred(refs, i)
        /\ EnterDest(d, fib)
        /\ fault' = fault
        /\ i \in Interface
    BY <1>0, <1>4, AddressType DEF EnableDest
  <2>2. /\ TableType' /\ DestIndexSound' /\ RouteHeard'
        /\ children' \in [Fib \X Dest -> 0 .. MaxChildren]
        /\ dst_by_ip4'[d] # 0
        /\ \A l \in Dest : l # d => dst_by_ip4'[l] = dst_by_ip4[l]
    BY <1>0, <1>1, <1>2, <2>1, EnterDestLemma
  <2>3. OneAddress'
    BY <1>0, <1>1, <2>2 DEF OneAddress
  <2>4. /\ bool_ref_by_sw_if_index' \in Seq({1, Unused})
        /\ i \in DOMAIN bool_ref_by_sw_if_index' /\ bool_ref_by_sw_if_index'[i] = 1
    BY <1>0, <2>1, ReferredLemma DEF ClaimType
  <2>5. feature' \in [Interface -> Nat] /\ feature'[i] = feature[i] + 1 /\ feature[i] \in Nat
    BY <1>0, <2>1, EnabledMoreLemma DEF ClaimType
  <2>6. ClaimType(bool_ref_by_sw_if_index', feature') /\ ClaimStands'
    BY <1>1, <2>1, <2>4, <2>5 DEF ClaimType, ClaimStands, Claimed
  <2> QED
    BY <1>1, <1>2, <2>1, <2>2, <2>3, <2>6, Whole DEF NotBeyond
<1> QED
  BY <1>3, <1>4

LEMMA DisableDestStep ==
  ASSUME TransitInv, NEW ip \in Dest, DisableDest(ip)
  PROVE  /\ TransitInv'
         /\ NotBeyond \/ egress[HackDest] \notin DOMAIN bool_ref_by_sw_if_index
<1> DEFINE d == HackDest
           i == egress[d]
           refs == [bool_ref_by_sw_if_index EXCEPT ![i] = Unused]
<1>0. /\ TypeOK /\ DestIndexSound /\ OneAddress /\ ClaimStands /\ RouteHeard
      /\ TableType /\ ClaimType(bool_ref_by_sw_if_index, feature)
      /\ i \in Interface \cup {NoInterface}
  BY Parts
<1>1. /\ d \in Dest /\ fault = "none" /\ asked' = FALSE
      /\ egress' = egress /\ missed' = missed /\ children' = children
  BY AddressType DEF DisableDest
<1>2. /\ egress' \in [Dest -> Interface \cup {NoInterface}]
      /\ children' \in [Fib \X Dest -> 0 .. MaxChildren]
      /\ missed' \in BOOLEAN
  BY <1>0, <1>1 DEF TypeOK
<1>3. CASE i \notin DOMAIN bool_ref_by_sw_if_index
  <2>1. /\ fault' = "beyond the vector"
        /\ UNCHANGED << dst_tunnels, dst_by_ip4, bool_ref_by_sw_if_index, feature >>
    BY <1>3, AddressType DEF DisableDest, tableVars
  <2>2. TableType' /\ DestIndexSound' /\ RouteHeard'
    BY <1>0, <1>1, <2>1 DEF TableType, DestIndexSound, RouteHeard
  <2>3. OneAddress' /\ ClaimStands'
    BY <1>0, <2>1 DEF OneAddress, ClaimStands
  <2> QED
    BY <1>0, <1>1, <1>2, <1>3, <2>1, <2>2, <2>3, Whole
<1>4. CASE i \in DOMAIN bool_ref_by_sw_if_index
  <2>1. RemoveDest(d) /\ Release(refs)
    BY <1>4 DEF DisableDest, Address
  <2>2. /\ TableType' /\ DestIndexSound' /\ RouteHeard'
        /\ dst_by_ip4'[d] = 0
        /\ \A l \in Dest : l # d => dst_by_ip4'[l] = dst_by_ip4[l]
    BY <1>0, <1>1, <2>1, RemoveDestLemma
  <2>3. OneAddress' /\ ClaimStands'
    BY <1>0, <1>1, <2>2 DEF OneAddress, ClaimStands
  <2>4. refs \in Seq({1, Unused})
    <3>1. bool_ref_by_sw_if_index \in Seq({1, Unused}) /\ Unused \in {1, Unused}
      BY <1>0 DEF ClaimType
    <3> QED
      BY <1>4, <3>1, ExceptSeq
  <2> HIDE DEF refs
  <2>5. /\ ClaimType(bool_ref_by_sw_if_index', feature')
        /\ fault' \in {fault, "no interface"}
    BY <1>0, <2>1, <2>2, <2>4, ReleaseLemma
  <2> QED
    BY <1>1, <1>2, <2>2, <2>3, <2>5, Whole DEF NotBeyond
<1> QED
  BY <1>3, <1>4

LEMMA DisableIp6DestStep ==
  ASSUME TransitInv, DisableIp6Dest
  PROVE  TransitInv' /\ NotBeyond
<1>0. /\ TypeOK /\ DestIndexSound /\ OneAddress /\ ClaimStands /\ RouteHeard
      /\ TableType /\ ClaimType(bool_ref_by_sw_if_index, feature)
      /\ egress[HackDest] \in Interface \cup {NoInterface}
      /\ Live(dst_tunnels) = {} <=> dst_by_ip4[HackDest] = 0
  BY Parts
<1>1. /\ fault = "none" /\ egress' = egress /\ missed' = missed
      /\ children' = children /\ asked' = asked
      /\ UNCHANGED << dst_tunnels, dst_by_ip4 >>
      /\ Release(bool_ref_by_sw_if_index)
  BY DEF DisableIp6Dest, tableVars
<1>2. /\ egress' \in [Dest -> Interface \cup {NoInterface}]
      /\ children' \in [Fib \X Dest -> 0 .. MaxChildren]
      /\ missed' \in BOOLEAN /\ asked' \in BOOLEAN
  BY <1>0, <1>1 DEF TypeOK
<1>3. TableType' /\ DestIndexSound' /\ RouteHeard'
  BY <1>0, <1>1 DEF TableType, DestIndexSound, RouteHeard
<1>4. bool_ref_by_sw_if_index \in Seq({1, Unused})
  BY <1>0 DEF ClaimType
<1>5. /\ ClaimType(bool_ref_by_sw_if_index', feature')
      /\ fault' \in {fault, "no interface"}
      /\ fault' # "no interface" /\ Live(dst_tunnels') # {} =>
           Claimed(egress[HackDest], bool_ref_by_sw_if_index', feature')
  BY <1>0, <1>1, <1>3, <1>4, ReleaseLemma
<1>6. OneAddress' /\ ClaimStands'
  <2>1. OneAddress'
    BY <1>0, <1>1 DEF OneAddress
  <2>2. ClaimStands'
    BY <1>0, <1>1, <1>5 DEF ClaimStands
  <2> QED
    BY <2>1, <2>2
<1> QED
  BY <1>1, <1>2, <1>3, <1>5, <1>6, Whole DEF NotBeyond

LEMMA RouteChangeStep ==
  ASSUME TransitInv, NEW fib \in Fib, NEW d \in Dest,
         NEW i \in Interface \cup {NoInterface}, RouteChange(fib, d, i)
  PROVE  TransitInv' /\ NotBeyond
<1> DEFINE n == children[<< fib, d >>]
<1>0. /\ TypeOK /\ DestIndexSound /\ OneAddress /\ ClaimStands /\ RouteHeard
      /\ TableType /\ ClaimType(bool_ref_by_sw_if_index, feature)
      /\ Live(dst_tunnels) = {} <=> dst_by_ip4[HackDest] = 0
  BY Parts
<1>1. /\ fault = "none" /\ children' = children /\ asked' = asked
      /\ UNCHANGED << dst_tunnels, dst_by_ip4 >>
      /\ egress' \in [Dest -> Interface \cup {NoInterface}]
      /\ \A e \in Dest : e # d => egress'[e] = egress[e]
      /\ n \in Nat
  <2>1. n \in 0 .. MaxChildren /\ egress \in [Dest -> Interface \cup {NoInterface}]
    BY <1>0 DEF TypeOK
  <2> QED
    BY <2>1 DEF RouteChange, tableVars
<1>2. /\ children' \in [Fib \X Dest -> 0 .. MaxChildren]
      /\ asked' \in BOOLEAN /\ missed \in BOOLEAN
  BY <1>0, <1>1 DEF TypeOK
<1>3. TableType' /\ DestIndexSound' /\ RouteHeard'
  BY <1>0, <1>1 DEF TableType, DestIndexSound, RouteHeard
<1>4. CASE n > 0 /\ Live(dst_tunnels) # {}
  <2>1. Refresh(n)
    BY <1>4 DEF RouteChange
  <2>2. n \in Nat \ {0} /\ egress'[HackDest] \in Interface \cup {NoInterface}
    BY <1>1, <1>4, AddressType
  <2> HIDE DEF n
  <2>3. /\ ClaimType(bool_ref_by_sw_if_index', feature')
        /\ missed' = FALSE
        /\ fault' \in {fault, "no interface"}
        /\ fault' # "no interface" =>
             Claimed(egress'[HackDest], bool_ref_by_sw_if_index', feature')
    BY <1>0, <1>4, <2>1, <2>2, RefreshLemma
  <2>4. OneAddress' /\ ClaimStands'
    BY <1>0, <1>1, <2>3 DEF OneAddress, ClaimStands
  <2> QED
    BY <1>1, <1>2, <1>3, <2>3, <2>4, Whole DEF NotBeyond
<1>5. CASE ~(n > 0 /\ Live(dst_tunnels) # {})
  <2>1. /\ UNCHANGED << bool_ref_by_sw_if_index, feature, fault >>
        /\ \/ Live(dst_tunnels) = {} /\ missed' = missed
           \/ missed' = (missed \/ (d \in Enabled /\ egress' # egress))
    <3>1. CASE n > 0
      <4>1. Cardinality(Live(dst_tunnels)) = 0
        BY <1>5, <3>1, FS_EmptySet
      <4> QED
        BY <1>5, <3>1, <4>1 DEF RouteChange, Refresh
    <3>2. CASE ~(n > 0)
      BY <3>2 DEF RouteChange
    <3> QED
      BY <3>1, <3>2
  <2>2. missed' \in BOOLEAN
    BY <1>2, <2>1
  <2>3. OneAddress'
    BY <1>0, <1>1, <2>1 DEF OneAddress
  <2>4. ClaimStands'
    <3> SUFFICES ASSUME ~missed', dst_by_ip4[HackDest] # 0
                 PROVE  Claimed(egress'[HackDest], bool_ref_by_sw_if_index, feature)
      BY <1>1, <2>1 DEF ClaimStands
    <3>1. HackDest \in Enabled
      BY <1>0, EnabledByKey, AddressType
    <3>2. ~missed /\ (d \notin Enabled \/ egress' = egress)
      BY <1>0, <1>2, <2>1
    <3>3. egress'[HackDest] = egress[HackDest]
      BY <1>1, <3>1, <3>2, AddressType
    <3> QED
      BY <1>0, <1>1, <3>2, <3>3 DEF ClaimStands
  <2>5. ClaimType(bool_ref_by_sw_if_index', feature')
    BY <1>0, <2>1
  <2> QED
    BY <1>1, <1>2, <1>3, <2>1, <2>2, <2>3, <2>4, <2>5, Whole DEF NotBeyond
<1> QED
  BY <1>4, <1>5

-----------------------------------------------------------------------------
\* The specification

LEMMA InitTransit == Init => TransitInv
<1> SUFFICES ASSUME Init PROVE TransitInv
  OBVIOUS
<1>1. /\ EmptyPool \in PoolType(TunnelType)
      /\ PoolOK(EmptyPool)
      /\ Live(EmptyPool) = {}
      /\ Len(EmptyPool.elts) = 0
  BY EmptySeq DEF EmptyPool, PoolType, PoolOK, Live, Freed, ToSet
<1>2. /\ dst_tunnels = EmptyPool /\ dst_by_ip4 = [d \in Dest |-> 0]
      /\ bool_ref_by_sw_if_index = << >> /\ feature = [i \in Interface |-> 0]
      /\ asked = FALSE /\ missed = FALSE /\ fault = "none"
  BY DEF Init
<1>3. TypeOK
  <2>1. dst_by_ip4 \in [Dest -> 0 .. Len(dst_tunnels.elts)]
    BY <1>1, <1>2
  <2>2. children \in [Fib \X Dest -> 0 .. MaxChildren]
    BY TransitAssumption DEF Init
  <2>3. bool_ref_by_sw_if_index \in Seq({1, Unused}) /\ feature \in [Interface -> Nat]
    BY <1>2, EmptySeq
  <2>4. egress \in [Dest -> Interface \cup {NoInterface}]
    BY DEF Init
  <2> QED
    BY <1>1, <1>2, <2>1, <2>2, <2>3, <2>4 DEF TypeOK
<1>4. DestIndexSound /\ RouteHeard
  BY <1>1, <1>2 DEF DestIndexSound, RouteHeard
<1>5. OneAddress /\ ClaimStands
  BY <1>2, AddressType DEF OneAddress, ClaimStands
<1> QED
  BY <1>3, <1>4, <1>5 DEF TransitInv

LEMMA NextTransit == TransitInv /\ [Next]_vars => TransitInv'
<1>1. ASSUME TransitInv, UNCHANGED vars
      PROVE  TransitInv'
  <2> USE <1>1 DEF vars, tableVars, TransitInv
  <2>1. TypeOK'
    BY DEF TypeOK
  <2>2. DestIndexSound' /\ RouteHeard'
    BY DEF DestIndexSound, RouteHeard
  <2>3. OneAddress' /\ ClaimStands'
    BY DEF OneAddress, ClaimStands
  <2> QED
    BY <2>1, <2>2, <2>3
<1> QED
  BY <1>1, EnableDestStep, DisableDestStep, DisableIp6DestStep, RouteChangeStep DEF Next

LEMMA TransitInvariant == Spec => []TransitInv
<1> QED
  BY InitTransit, NextTransit, PTL DEF Spec

\* Every variable keeps its type, whatever is enabled and disabled and however
\* the routes change; the pool of destinations stays well formed.
THEOREM TransitTypeCorrect == Spec => []TypeOK
<1>1. TransitInv => TypeOK
  BY DEF TransitInv
<1> QED
  BY <1>1, TransitInvariant, PTL

\* However often the feature was enabled and disabled on an interface, iOAM is
\* recorded on packets for the one address exactly if the last request asked to
\* enable, for whichever destination; and the vector knows the interface.
THEOREM RecordingCorrect == Spec => []RecordsOnEnabled
<1>1. ASSUME TransitInv
      PROVE  RecordsOnEnabled
  <2>1. OneAddress /\ ClaimStands /\ HackDest \in Dest /\ asked \in BOOLEAN
    BY <1>1, AddressType DEF TransitInv, TypeOK
  <2> SUFFICES ASSUME fault = "none", ~missed
               PROVE  /\ \A d \in Dest :
                           nsh_md2_ioam_encap_transit(d) <=> asked /\ d = HackDest
                      /\ asked => /\ egress[HackDest] \in DOMAIN bool_ref_by_sw_if_index
                                  /\ bool_ref_by_sw_if_index[egress[HackDest]] = 1
    BY <2>1 DEF RecordsOnEnabled, nsh_md2_ioam_encap_transit
  <2>2. asked <=> dst_by_ip4[HackDest] # 0
    BY <2>1 DEF OneAddress
  <2>3. asked => Claimed(egress[HackDest], bool_ref_by_sw_if_index, feature)
    BY <2>1, <2>2 DEF ClaimStands
  <2>4. asked => egress[HackDest] # NoInterface
    BY <2>3, InterfaceType DEF Claimed, NoInterface
  <2>5. \A d \in Dest : d # HackDest => ~nsh_md2_ioam_encap_transit(d)
    BY <2>1 DEF OneAddress, nsh_md2_ioam_encap_transit
  <2>6. nsh_md2_ioam_encap_transit(HackDest) <=> asked
    BY <2>2, <2>3, <2>4 DEF Claimed, nsh_md2_ioam_encap_transit
  <2> QED
    BY <2>3, <2>5, <2>6 DEF Claimed
<1> QED
  BY <1>1, TransitInvariant, PTL

\* Every enabled destination is attached to the route in its own table.
THEOREM RouteHeardCorrect == Spec => []RouteHeard
<1>1. TransitInv => RouteHeard
  BY DEF TransitInv
<1> QED
  BY <1>1, TransitInvariant, PTL

\* A disable writes outside of the vector only when no destination is enabled,
\* and the address leaves by an interface the vector does not reach.
THEOREM DisableInBoundsCorrect == Spec => DisableInBounds
<1> DEFINE InBounds ==
      fault' = "beyond the vector" /\ fault = "none" /\ ~missed =>
        /\ HackDest \notin Enabled
        /\ egress[HackDest] \notin DOMAIN bool_ref_by_sw_if_index
<1>1. ASSUME TransitInv, [Next]_vars
      PROVE  InBounds
  <2> SUFFICES ASSUME fault' = "beyond the vector", fault = "none", ~missed
               PROVE  /\ HackDest \notin Enabled
                      /\ egress[HackDest] \notin DOMAIN bool_ref_by_sw_if_index
    OBVIOUS
  <2>1. ~NotBeyond /\ fault' # fault
    BY DEF NotBeyond
  <2>2. PICK ip \in Dest : DisableDest(ip)
    BY <1>1, <2>1, EnableDestStep, DisableIp6DestStep, RouteChangeStep DEF Next, vars
  <2>3. egress[HackDest] \notin DOMAIN bool_ref_by_sw_if_index
    BY <1>1, <2>1, <2>2, DisableDestStep
  <2>4. ClaimStands /\ TableType /\ DestIndexSound
    BY <1>1, Parts
  <2>5. dst_by_ip4[HackDest] = 0
    BY <2>3, <2>4 DEF ClaimStands, Claimed
  <2>6. HackDest \notin Enabled
    BY <2>4, <2>5, EnabledByKey, AddressType
  <2> QED
    BY <2>3, <2>6
<1>2. TransitInv /\ [Next]_vars => [InBounds]_vars
  BY <1>1
<1>3. Spec => [][InBounds]_vars
  BY <1>2, TransitInvariant, PTL DEF Spec
<1> QED
  BY <1>3 DEF DisableInBounds

-----------------------------------------------------------------------------
\* Refinement

LEMMA EnterDestRefines ==
  ASSUME TransitInv, NEW d \in Dest, NEW fib \in Fib, EnterDest(d, fib)
  PROVE  [DestTbl!Next]_DestTable
<1> DEFINE n == NextIndex(dst_tunnels)
           p == dst_tunnels
           q == dst_tunnels'
<1>1. CASE dst_by_ip4[d] # 0
  BY <1>1 DEF EnterDest, tableVars, DestTable
<1>2. CASE dst_by_ip4[d] = 0
  <2>0. TableType /\ DestIndexSound
    BY DEF TransitInv, TypeOK, TableType
  <2>1. /\ n \in Nat \ {0}
        /\ q.elts[n] = [dst |-> d, outer_fib_index |-> fib]
        /\ \A i \in Live(p) : q.elts[i] = p.elts[i]
        /\ dst_by_ip4'[d] = n
        /\ \A l \in Dest : l # d => dst_by_ip4'[l] = dst_by_ip4[l]
    BY <1>2, <2>0, EnterDestEffect
  <2>2. q.elts[n].outer_fib_index = fib
    BY <2>1
  <2> HIDE DEF n, q
  <2>3. ASSUME NEW l \in Dest
        PROVE  DestTable'[l] = [DestTable EXCEPT ![d] = fib][l]
    <3>1. CASE l = d
      BY <2>1, <2>2, <3>1 DEF DestTable, q
    <3>2. CASE l # d /\ dst_by_ip4[l] = 0
      BY <2>1, <3>2 DEF DestTable
    <3>3. CASE l # d /\ dst_by_ip4[l] # 0
      <4>1. dst_by_ip4[l] \in Live(p)
        BY <2>0, <3>3 DEF DestIndexSound
      <4> QED
        BY <2>1, <3>3, <4>1 DEF DestTable, q
    <3> QED
      BY <3>1, <3>2, <3>3
  <2>4. DestTable' = [DestTable EXCEPT ![d] = fib]
    BY <2>3 DEF DestTable
  <2>5. DestTable[d] = NoFib
    BY <1>2 DEF DestTable
  <2>6. DestTbl!Add(d, fib)
    BY <2>4, <2>5 DEF DestTbl!Add
  <2> QED
    BY <2>6 DEF DestTbl!Next
<1> QED
  BY <1>1, <1>2

LEMMA RemoveDestRefines ==
  ASSUME TransitInv, NEW d \in Dest, RemoveDest(d)
  PROVE  [DestTbl!Next]_DestTable
<1>1. CASE dst_by_ip4[d] = 0
  BY <1>1 DEF RemoveDest, tableVars, DestTable
<1>2. CASE dst_by_ip4[d] # 0
  <2> DEFINE i == dst_by_ip4[d]
  <2>0. TableType /\ DestIndexSound
    BY DEF TransitInv, TypeOK, TableType
  <2>1. /\ i \in Live(dst_tunnels)
        /\ dst_tunnels'.elts = dst_tunnels.elts
        /\ dst_by_ip4'[d] = 0
        /\ \A l \in Dest : l # d => dst_by_ip4'[l] = dst_by_ip4[l]
    BY <1>2, <2>0, RemoveDestEffect
  <2>2. DestTable[d] # NoFib
    <3>1. dst_tunnels.elts[i].outer_fib_index \in Fib
      BY <2>0, <2>1, TunnelElement DEF Live
    <3> QED
      BY <1>2, <3>1, TransitAssumption DEF DestTable
  <2>3. \A l \in Dest : DestTable'[l] = [DestTable EXCEPT ![d] = NoFib][l]
    BY <2>1 DEF DestTable
  <2>4. DestTable' = [DestTable EXCEPT ![d] = NoFib]
    BY <2>3 DEF DestTable
  <2>5. DestTbl!Del(d)
    BY <2>2, <2>4 DEF DestTbl!Del
  <2> QED
    BY <2>5 DEF DestTbl!Next
<1> QED
  BY <1>1, <1>2

\* The pool and the hash table of destinations behave as a keyed table of the
\* routing table each was enabled with: whichever elements are reused, no
\* request changes what another destination leads to.
THEOREM DestsImplementTable == Spec => DestsRefineTable
<1>1. Init => DestTbl!Init
  BY DEF Init, DestTbl!Init, DestTable
<1>2. ASSUME TransitInv, [Next]_vars
      PROVE  [DestTbl!Next]_DestTable
  <2>1. CASE UNCHANGED << dst_tunnels, dst_by_ip4 >>
    BY <2>1 DEF DestTable
  <2>2. ASSUME NEW ip \in Dest, NEW fib \in Fib, EnableDest(ip, fib)
        PROVE  [DestTbl!Next]_DestTable
    <3>1. Address(ip) \in Dest
      BY AddressType
    <3>2. EnterDest(Address(ip), fib) \/ UNCHANGED tableVars
      BY <2>2 DEF EnableDest
    <3> QED
      BY <1>2, <2>1, <3>1, <3>2, EnterDestRefines DEF tableVars
  <2>3. ASSUME NEW ip \in Dest, DisableDest(ip)
        PROVE  [DestTbl!Next]_DestTable
    <3>1. Address(ip) \in Dest
      BY AddressType
    <3>2. RemoveDest(Address(ip)) \/ UNCHANGED tableVars
      BY <2>3 DEF DisableDest
    <3> QED
      BY <1>2, <2>1, <3>1, <3>2, RemoveDestRefines DEF tableVars
  <2> QED
    BY <1>2, <2>1, <2>2, <2>3 DEF Next, DisableIp6Dest, RouteChange, vars, tableVars
<1> QED
  BY <1>1, <1>2, TransitInvariant, PTL DEF Spec, DestsRefineTable, DestTbl!Spec
=============================================================================
