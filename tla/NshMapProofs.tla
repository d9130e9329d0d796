---------------------------- MODULE NshMapProofs ----------------------------
(***************************************************************************)
(* Proofs about NshMap for every set of requests, however many interfaces  *)
(* and sessions there are, and with or without sub-interfaces: the types,  *)
(* that the two hash tables and their pools agree, and that each pair      *)
(* implements a plain table, KeyedTable.                                   *)
(*                                                                         *)
(* The second half is about the tunnel interfaces.  It holds where no      *)
(* other code of vpp adds software interfaces of their own                 *)
(* (~SubInterfaces); with sub-interfaces the statements are false:         *)
(* MCNshMapFreeList.cfg shows how.                                         *)
(***************************************************************************)
EXTENDS NshMap, SharedLemmas

-----------------------------------------------------------------------------
\* Keys

LEMMA ArgType ==
  ASSUME NEW a \in MapArgs
  PROVE  /\ a \in MapArgsType
         /\ a.nsp_nsi \in U32
         /\ a.nsp_nsi[1] \in Byte /\ a.nsp_nsi[2] \in Byte
         /\ a.nsp_nsi[3] \in Byte /\ a.nsp_nsi[4] \in Byte
         /\ a.next_node \in NextNodes
<1>1. a \in MapArgsType /\ a.nsp_nsi \in U32 /\ a.next_node \in NextNodes
  BY MapArgsAssumption DEF MapArgsType
<1> QED
  BY <1>1 DEF U32

LEMMA HostToNetType ==
  ASSUME NEW k, k[1] \in Byte, k[2] \in Byte, k[3] \in Byte, k[4] \in Byte
  PROVE  clib_host_to_net_u32(k) \in U32
BY DEF clib_host_to_net_u32, U32

LEMMA NetKeyType ==
  ASSUME NEW a \in MapArgs
  PROVE  NetKey(a) \in NetKeys /\ NetKey(a) \in U32
BY ArgType, HostToNetType DEF NetKey, NetKeys

LEMMA ProxyType ==
  ASSUME NEW a \in MapArgs, a.nsp_nsi[4] # 0
  PROVE  ProxyNspNsi(a) \in U32
<1> DEFINE k == [a.nsp_nsi EXCEPT ![4] = @ - 1]
<1>1. /\ k[1] \in Byte /\ k[2] \in Byte /\ k[3] \in Byte
      /\ k[4] = a.nsp_nsi[4] - 1
  BY ArgType DEF U32
<1>2. k[4] \in Byte
  BY SMTT(30), <1>1, ArgType DEF Byte
<1> HIDE DEF k
<1>3. clib_host_to_net_u32(k) \in U32
  BY <1>1, <1>2, HostToNetType
<1> QED
  BY <1>3 DEF ProxyNspNsi, k

LEMMA SessionKeyType ==
  ASSUME NEW a \in MapArgs, Proxied(a)
  PROVE  SessionKey(a) \in SessionKeys
BY DEF SessionKeys

LEMMA ConstTypes == AllOnes \in U32 /\ Zero32 \in U32
BY DEF AllOnes, Zero32, U32, Byte

LEMMA VecValidateType ==
  ASSUME NEW v \in Seq(U32), NEW n \in Nat
  PROVE  /\ VecValidate(v, n) \in Seq(U32)
         /\ DOMAIN VecValidate(v, n) = 1 .. (IF n > Len(v) THEN n ELSE Len(v))
<1> DEFINE m == IF n > Len(v) THEN n ELSE Len(v)
<1>1. m \in Nat
  OBVIOUS
<1>2. \A i \in 1 .. m : (IF i <= Len(v) THEN v[i] ELSE AllOnes) \in U32
  BY ConstTypes
<1> HIDE DEF m
<1>3. VecValidate(v, n) = [i \in 1 .. m |-> IF i <= Len(v) THEN v[i] ELSE AllOnes]
  BY DEF VecValidate, m
<1>4. VecValidate(v, n) \in Seq(U32)
  BY <1>1, <1>2, <1>3, IsASeq
<1> QED
  BY <1>3, <1>4 DEF m

\* An assignment to one element of a vector keeps its type, even where the
\* index is not one of the vector's.
LEMMA ExceptType ==
  ASSUME NEW S, NEW v \in Seq(S), NEW i, NEW e \in S
  PROVE  [v EXCEPT ![i] = e] \in Seq(S)
<1>1. CASE i \in 1 .. Len(v)
  BY <1>1, ExceptSeq
<1>2. CASE i \notin 1 .. Len(v)
  <2>1. [v EXCEPT ![i] = e] = v
    BY <1>2
  <2> QED
    BY <2>1
<1> QED
  BY <1>1, <1>2

-----------------------------------------------------------------------------
\* The map table

LEMMA NextIndexType ==
  ASSUME NEW S, NEW p \in PoolType(S), PoolOK(p)
  PROVE  NextIndex(p) \in Nat \ {0}
<1>1. CASE p.free = << >>
  BY <1>1 DEF NextIndex, PoolType
<1>2. CASE p.free # << >>
  <2>1. p.free \in Seq(Nat) /\ p.elts \in Seq(S)
    BY DEF PoolType
  <2>2. /\ Len(p.free) \in DOMAIN p.free
        /\ Last(p.free) = p.free[Len(p.free)]
    <3>1. Len(p.free) \in Nat \ {0} /\ Last(p.free) = p.free[Len(p.free)]
      BY <1>2, <2>1, LastFront
    <3> QED
      BY <2>1, <3>1
  <2>3. Last(p.free) \in DOMAIN p.elts
    BY <2>2 DEF PoolOK, Freed, ToSet
  <2> QED
    BY <1>2, <2>1, <2>3 DEF NextIndex
<1> QED
  BY <1>1, <1>2

\* What an element of the pool of maps is.
LEMMA MapElement ==
  ASSUME MapTypeOK, NEW i \in DOMAIN nsh_mappings.elts
  PROVE  /\ i \in Nat \ {0}
         /\ nsh_mappings.elts[i] \in MapType
         /\ nsh_mappings.elts[i].args \in MapArgs
         /\ nsh_mappings.elts[i].nsh_hw_if \in Nat \ {0}
         /\ nsh_mappings.elts[i].nsh_sw_if \in Nat \ {0}
<1>1. nsh_mappings.elts \in Seq(MapType)
  BY DEF MapTypeOK, PoolType
<1>2. i \in Nat \ {0} /\ nsh_mappings.elts[i] \in MapType
  BY <1>1
<1> QED
  BY <1>2 DEF MapType

\* What entering a map does to the pool and to the hash table.
LEMMA EnterMapEffect ==
  ASSUME MapTypeOK,
         NEW a \in MapArgs, NEW adj \in AdjIndex, ~MapExists(a),
         NEW hw \in Nat \ {0}, NEW sw \in Nat \ {0}, EnterMap(a, adj, hw, sw),
         NEW n, n = NextIndex(nsh_mappings),
         NEW e, e = [args |-> a, adj_index |-> adj, nsh_hw_if |-> hw, nsh_sw_if |-> sw]
  PROVE  /\ n \in Nat \ {0}
         /\ n \notin Live(nsh_mappings)
         /\ nsh_mappings' \in PoolType(MapType)
         /\ PoolOK(nsh_mappings')
         /\ DOMAIN nsh_mappings'.elts = DOMAIN nsh_mappings.elts \cup {n}
         /\ Live(nsh_mappings') = Live(nsh_mappings) \cup {n}
         /\ nsh_mappings'.elts[n] = e
         /\ \A i \in DOMAIN nsh_mappings.elts :
              i # n => nsh_mappings'.elts[i] = nsh_mappings.elts[i]
         /\ nsh_mapping_by_key[NetKey(a)] = 0
         /\ nsh_mapping_by_key' \in [NetKeys -> Nat]
         /\ nsh_mapping_by_key'[NetKey(a)] = n
         /\ \A l \in NetKeys : l # NetKey(a) =>
              nsh_mapping_by_key'[l] = nsh_mapping_by_key[l]
<1>1. e \in MapType
  BY DEF MapType
<1>2. /\ nsh_mappings \in PoolType(MapType) /\ PoolOK(nsh_mappings)
      /\ nsh_mappings' = PoolGet(nsh_mappings, e)
  BY DEF MapTypeOK, EnterMap
<1>3. /\ n \in Nat \ {0}
      /\ n \notin Live(nsh_mappings)
      /\ nsh_mappings' \in PoolType(MapType)
      /\ PoolOK(nsh_mappings')
      /\ DOMAIN nsh_mappings'.elts = DOMAIN nsh_mappings.elts \cup {n}
      /\ Live(nsh_mappings') = Live(nsh_mappings) \cup {n}
      /\ nsh_mappings'.elts[n] = e
      /\ \A i \in DOMAIN nsh_mappings.elts :
           i # n => nsh_mappings'.elts[i] = nsh_mappings.elts[i]
  BY <1>1, <1>2, PoolGetLemma
<1>4. NetKey(a) \in NetKeys /\ nsh_mapping_by_key[NetKey(a)] = 0
  BY NetKeyType DEF MapExists
<1>5. /\ nsh_mapping_by_key' \in [NetKeys -> Nat]
      /\ nsh_mapping_by_key'[NetKey(a)] = n
      /\ \A l \in NetKeys : l # NetKey(a) =>
           nsh_mapping_by_key'[l] = nsh_mapping_by_key[l]
  BY <1>3, <1>4 DEF EnterMap, MapTypeOK
<1> QED
  BY <1>3, <1>4, <1>5

LEMMA EnterMapLemma ==
  ASSUME MapTypeOK, MapIndexSound,
         tunnel_index_by_sw_if_index \in Seq(U32),
         NEW a \in MapArgs, NEW adj \in AdjIndex, ~MapExists(a),
         NEW hw \in Nat \ {0}, NEW sw \in Nat \ {0},
         EnterMap(a, adj, hw, sw)
  PROVE  /\ MapTypeOK'
         /\ MapIndexSound'
         /\ tunnel_index_by_sw_if_index' \in Seq(U32)
<1> DEFINE e == [args |-> a, adj_index |-> adj, nsh_hw_if |-> hw, nsh_sw_if |-> sw]
           p == nsh_mappings
           q == nsh_mappings'
           n == NextIndex(nsh_mappings)
           k == NetKey(a)
<1>2. /\ n \in Nat \ {0}
      /\ n \notin Live(p)
      /\ q \in PoolType(MapType)
      /\ PoolOK(q)
      /\ Live(q) = Live(p) \cup {n}
      /\ q.elts[n] = e
      /\ \A i \in DOMAIN p.elts : i # n => q.elts[i] = p.elts[i]
      /\ nsh_mapping_by_key' \in [NetKeys -> Nat]
      /\ nsh_mapping_by_key'[k] = n
      /\ \A l \in NetKeys : l # k => nsh_mapping_by_key'[l] = nsh_mapping_by_key[l]
  BY EnterMapEffect
<1>3. k \in NetKeys /\ k \in U32 /\ nsh_mapping_by_key[k] = 0
  BY NetKeyType DEF MapExists
<1>4. /\ nsh_mapping_by_key' \in [NetKeys -> Nat]
      /\ nsh_mapping_by_key'[k] = n
      /\ \A l \in NetKeys : l # k => nsh_mapping_by_key'[l] = nsh_mapping_by_key[l]
  BY <1>2
<1>5. MapTypeOK'
  BY <1>2, <1>4 DEF MapTypeOK
<1>6. MapIndexSound'
  <2>1. ASSUME NEW l \in NetKeys, nsh_mapping_by_key'[l] # 0
        PROVE  /\ nsh_mapping_by_key'[l] \in Live(q)
               /\ NetKey(q.elts[nsh_mapping_by_key'[l]].args) = l
    <3>1. CASE l = k
      BY <1>2, <1>4, <3>1
    <3>2. CASE l # k
      <4> DEFINE i == nsh_mapping_by_key[l]
      <4>1. i \in Live(p) /\ NetKey(p.elts[i].args) = l
        BY <1>4, <2>1, <3>2 DEF MapIndexSound
      <4>2. q.elts[i] = p.elts[i]
        BY <1>2, <4>1 DEF Live
      <4> QED
        BY <1>2, <1>4, <3>2, <4>1, <4>2
    <3> QED
      BY <3>1, <3>2
  <2>2. ASSUME NEW i \in Live(q)
        PROVE  nsh_mapping_by_key'[NetKey(q.elts[i].args)] = i
    <3>1. CASE i = n
      BY <1>2, <1>4, <3>1
    <3>2. CASE i # n
      <4>1. i \in Live(p) /\ i \in DOMAIN p.elts
        BY <1>2, <3>2 DEF Live
      <4>2. q.elts[i] = p.elts[i]
        BY <1>2, <3>2, <4>1
      <4>3. p.elts[i].args \in MapArgs /\ i # 0
        BY <4>1, MapElement
      <4>4. nsh_mapping_by_key[NetKey(p.elts[i].args)] = i
        BY <4>1 DEF MapIndexSound
      <4>5. NetKey(p.elts[i].args) \in NetKeys /\ NetKey(p.elts[i].args) # k
        BY <1>3, <4>3, <4>4, NetKeyType
      <4> QED
        BY <1>4, <4>2, <4>4, <4>5
    <3> QED
      BY <3>1, <3>2
  <2> QED
    BY <2>1, <2>2 DEF MapIndexSound
<1>7. tunnel_index_by_sw_if_index' \in Seq(U32)
  <2>1. VecValidate(tunnel_index_by_sw_if_index, sw) \in Seq(U32)
    BY VecValidateType
  <2>2. tunnel_index_by_sw_if_index' =
          [VecValidate(tunnel_index_by_sw_if_index, sw) EXCEPT ![sw] = k]
    BY DEF EnterMap
  <2> QED
    BY <1>3, <2>1, <2>2, ExceptType
<1> QED
  BY <1>5, <1>6, <1>7

LEMMA AddMapLemma ==
  ASSUME MapTypeOK, InterfaceTypeOK, MapIndexSound,
         NEW a \in MapArgs, NEW adj \in AdjIndex, AddMap(a, adj)
  PROVE  MapTypeOK' /\ InterfaceTypeOK' /\ MapIndexSound'
<1>0. ~MapExists(a) /\ NextIndex(nsh_mappings) \in Nat
  <2>1. nsh_mappings \in PoolType(MapType) /\ PoolOK(nsh_mappings)
    BY DEF MapTypeOK
  <2> QED
    BY <2>1, NextIndexType DEF AddMap
<1>1. CASE ReuseTunnel(a, adj)
  <2> DEFINE hw == Last(free_nsh_tunnel_hw_if_indices)
             sw == hw_interfaces[hw].sw_if_index
  <2>1. /\ hw \in Nat \ {0}
        /\ free_nsh_tunnel_hw_if_indices' \in Seq(Nat \ {0})
    BY <1>1, LastFront DEF ReuseTunnel, InterfaceTypeOK
  <2>2. hw_interfaces[hw] \in HwType /\ sw \in Nat \ {0}
    <3>1. hw_interfaces[hw] \in HwType
      BY <1>1 DEF ReuseTunnel, InterfaceTypeOK
    <3> QED
      BY <3>1 DEF HwType
  <2>3. /\ MapTypeOK' /\ MapIndexSound'
        /\ tunnel_index_by_sw_if_index' \in Seq(U32)
    BY <1>0, <1>1, <2>1, <2>2, EnterMapLemma DEF ReuseTunnel, InterfaceTypeOK
  <2>4. hw_interfaces' \in Seq(HwType)
    <3> DEFINE r == [hw_interfaces[hw] EXCEPT !.dev_instance = NextIndex(nsh_mappings)]
    <3>2. r \in HwType
      BY <1>0, <2>2 DEF HwType
    <3>3. hw_interfaces' = [hw_interfaces EXCEPT ![hw] = r]
      BY <1>1 DEF ReuseTunnel
    <3> HIDE DEF r
    <3> QED
      BY <3>2, <3>3, ExceptType DEF InterfaceTypeOK
  <2>5. sw_interfaces' \in Seq(BOOLEAN) /\ fault' \in BOOLEAN
    BY <1>1, ExceptType DEF ReuseTunnel, InterfaceTypeOK
  <2> QED
    BY <2>1, <2>3, <2>4, <2>5 DEF InterfaceTypeOK
<1>2. CASE RegisterTunnel(a, adj)
  <2> DEFINE hw == Len(hw_interfaces) + 1
             sw == Len(sw_interfaces) + 1
  <2>1. hw \in Nat \ {0} /\ sw \in Nat \ {0}
    BY DEF InterfaceTypeOK
  <2>2. /\ MapTypeOK' /\ MapIndexSound'
        /\ tunnel_index_by_sw_if_index' \in Seq(U32)
    BY <1>0, <1>2, <2>1, EnterMapLemma DEF RegisterTunnel, InterfaceTypeOK
  <2>3. hw_interfaces' \in Seq(HwType)
    BY <1>0, <1>2, <2>1 DEF RegisterTunnel, InterfaceTypeOK, HwType
  <2>4. /\ sw_interfaces' \in Seq(BOOLEAN) /\ fault' \in BOOLEAN
        /\ free_nsh_tunnel_hw_if_indices' \in Seq(Nat \ {0})
    BY <1>2 DEF RegisterTunnel, InterfaceTypeOK
  <2> QED
    BY <2>2, <2>3, <2>4 DEF InterfaceTypeOK
<1>3. CASE MissTunnel
  BY <1>3 DEF MissTunnel, MapTypeOK, InterfaceTypeOK, MapIndexSound
<1> QED
  BY <1>1, <1>2, <1>3 DEF AddMap

\* What deleting a map does to the pool and to the hash table.
LEMMA DelMapEffect ==
  ASSUME MapTypeOK, MapIndexSound, NEW a \in MapArgs, DelMap(a),
         NEW i, i = nsh_mapping_by_key[NetKey(a)]
  PROVE  /\ i # 0
         /\ i \in Live(nsh_mappings)
         /\ i \in DOMAIN nsh_mappings.elts
         /\ NetKey(nsh_mappings.elts[i].args) = NetKey(a)
         /\ nsh_mappings' \in PoolType(MapType)
         /\ PoolOK(nsh_mappings')
         /\ nsh_mappings'.elts = nsh_mappings.elts
         /\ Live(nsh_mappings') = Live(nsh_mappings) \ {i}
         /\ nsh_mapping_by_key' \in [NetKeys -> Nat]
         /\ nsh_mapping_by_key'[NetKey(a)] = 0
         /\ \A l \in NetKeys : l # NetKey(a) =>
              nsh_mapping_by_key'[l] = nsh_mapping_by_key[l]
<1>1. /\ NetKey(a) \in NetKeys /\ i # 0 /\ i \in Live(nsh_mappings)
      /\ i \in DOMAIN nsh_mappings.elts
      /\ NetKey(nsh_mappings.elts[i].args) = NetKey(a)
  BY NetKeyType DEF DelMap, MapExists, MapIndexSound, Live
<1>2. /\ nsh_mappings' \in PoolType(MapType)
      /\ PoolOK(nsh_mappings')
      /\ nsh_mappings'.elts = nsh_mappings.elts
      /\ Live(nsh_mappings') = Live(nsh_mappings) \ {i}
  <2>1. /\ nsh_mappings \in PoolType(MapType) /\ PoolOK(nsh_mappings)
        /\ nsh_mappings' = PoolPut(nsh_mappings, i)
    BY DEF MapTypeOK, DelMap
  <2> QED
    BY <1>1, <2>1, PoolPutLemma
<1>3. /\ nsh_mapping_by_key' \in [NetKeys -> Nat]
      /\ nsh_mapping_by_key'[NetKey(a)] = 0
      /\ \A l \in NetKeys : l # NetKey(a) =>
           nsh_mapping_by_key'[l] = nsh_mapping_by_key[l]
  BY <1>1 DEF DelMap, MapTypeOK
<1> QED
  BY <1>1, <1>2, <1>3

LEMMA DelMapLemma ==
  ASSUME MapTypeOK, InterfaceTypeOK, MapIndexSound,
         NEW a \in MapArgs, DelMap(a)
  PROVE  MapTypeOK' /\ InterfaceTypeOK' /\ MapIndexSound'
<1> DEFINE p == nsh_mappings
           q == nsh_mappings'
           k == NetKey(a)
           i == nsh_mapping_by_key[k]
           sw == nsh_mappings.elts[i].nsh_sw_if
<1>1. k \in NetKeys /\ i # 0 /\ i \in Live(p) /\ i \in DOMAIN p.elts
  BY NetKeyType, DelMapEffect
<1>2. /\ q \in PoolType(MapType)
      /\ PoolOK(q)
      /\ q.elts = p.elts
      /\ Live(q) = Live(p) \ {i}
  BY DelMapEffect
<1>3. /\ nsh_mapping_by_key' \in [NetKeys -> Nat]
      /\ nsh_mapping_by_key'[k] = 0
      /\ \A l \in NetKeys : l # k => nsh_mapping_by_key'[l] = nsh_mapping_by_key[l]
  BY DelMapEffect
<1>4. MapTypeOK'
  BY <1>2, <1>3 DEF MapTypeOK
<1>5. sw \in Nat \ {0}
  BY <1>1, MapElement
<1>6. InterfaceTypeOK'
  BY <1>5, ConstTypes, ExceptType DEF DelMap, InterfaceTypeOK
<1>7. NetKey(p.elts[i].args) = k
  BY DelMapEffect
<1>8. MapIndexSound'
  <2>1. ASSUME NEW l \in NetKeys, nsh_mapping_by_key'[l] # 0
        PROVE  /\ nsh_mapping_by_key'[l] \in Live(q)
               /\ NetKey(q.elts[nsh_mapping_by_key'[l]].args) = l
    <3>1. l # k /\ nsh_mapping_by_key'[l] = nsh_mapping_by_key[l]
      BY <1>3, <2>1
    <3>2. /\ nsh_mapping_by_key[l] \in Live(p)
          /\ NetKey(p.elts[nsh_mapping_by_key[l]].args) = l
      BY <2>1, <3>1 DEF MapIndexSound
    <3>3. nsh_mapping_by_key[l] # i
      BY <1>7, <3>1, <3>2
    <3> QED
      BY <1>2, <3>1, <3>2, <3>3
  <2>2. ASSUME NEW j \in Live(q)
        PROVE  nsh_mapping_by_key'[NetKey(q.elts[j].args)] = j
    <3>1. j \in Live(p) /\ j # i /\ j \in DOMAIN p.elts
      BY <1>2 DEF Live
    <3>2. nsh_mapping_by_key[NetKey(p.elts[j].args)] = j
      BY <3>1 DEF MapIndexSound
    <3>3. NetKey(p.elts[j].args) \in NetKeys
      BY <3>1, MapElement, NetKeyType
    <3> QED
      BY <1>2, <1>3, <3>1, <3>2, <3>3
  <2> QED
    BY <2>1, <2>2 DEF MapIndexSound
<1> QED
  BY <1>4, <1>6, <1>8

LEMMA MapCallLemma ==
  ASSUME MapTypeOK, InterfaceTypeOK, MapIndexSound,
         NEW a \in MapArgs, NEW adj \in AdjIndex, NEW is_add \in BOOLEAN,
         nsh_add_del_map(is_add, a, adj)
  PROVE  MapTypeOK' /\ InterfaceTypeOK' /\ MapIndexSound'
<1>1. CASE UNCHANGED mapVars
  BY <1>1 DEF mapVars, MapTypeOK, InterfaceTypeOK, MapIndexSound
<1> QED
  BY <1>1, AddMapLemma, DelMapLemma DEF nsh_add_del_map

-----------------------------------------------------------------------------
\* The proxy sessions

LEMMA SessionCallLemma ==
  ASSUME SessionTypeOK, SessionIndexSound,
         NEW a \in MapArgs, Proxied(a), NEW is_add \in BOOLEAN,
         nsh_add_del_proxy_session(is_add, a)
  PROVE  SessionTypeOK' /\ SessionIndexSound'
<1> DEFINE p == nsh_proxy_sessions
           q == nsh_proxy_sessions'
           n == NextIndex(nsh_proxy_sessions)
           k == SessionKey(a)
           i == nsh_proxy_session_by_key[k]
<1>0. /\ k \in SessionKeys
      /\ p \in PoolType(U32)
      /\ PoolOK(p)
      /\ nsh_proxy_session_by_key \in [SessionKeys -> Nat]
  BY SessionKeyType DEF SessionTypeOK
<1>1. CASE UNCHANGED sessionVars
  BY <1>1 DEF sessionVars, SessionTypeOK, SessionIndexSound
<1>2. CASE AddSession(a)
  <2>1. ProxyNspNsi(a) \in U32 /\ i = 0
    BY <1>2, ProxyType DEF AddSession, SessionExists
  <2>2. /\ n \in Nat \ {0}
        /\ n \notin Live(p)
        /\ q \in PoolType(U32)
        /\ PoolOK(q)
        /\ Live(q) = Live(p) \cup {n}
        /\ \A j \in DOMAIN p.elts : j # n => q.elts[j] = p.elts[j]
    BY <1>0, <1>2, <2>1, PoolGetLemma DEF AddSession
  <2>3. /\ nsh_proxy_session_by_key' \in [SessionKeys -> Nat]
        /\ nsh_proxy_session_by_key'[k] = n
        /\ \A s \in SessionKeys :
             s # k => nsh_proxy_session_by_key'[s] = nsh_proxy_session_by_key[s]
    BY <1>0, <1>2, <2>2 DEF AddSession
  <2>4. SessionTypeOK'
    BY <2>2, <2>3 DEF SessionTypeOK
  <2>5. \A s \in SessionKeys : nsh_proxy_session_by_key'[s] # 0 =>
          nsh_proxy_session_by_key'[s] \in Live(q)
    BY <2>2, <2>3 DEF SessionIndexSound
  <2>6. \A s \in SessionKeys : nsh_proxy_session_by_key[s] # n
    BY <2>2 DEF SessionIndexSound
  <2>7. \A s, t \in SessionKeys :
          nsh_proxy_session_by_key'[s] = nsh_proxy_session_by_key'[t]
            => s = t \/ nsh_proxy_session_by_key'[s] = 0
    BY <2>3, <2>6 DEF SessionIndexSound
  <2>8. ASSUME NEW j \in Live(q)
        PROVE  \/ \E s \in SessionKeys : nsh_proxy_session_by_key'[s] = j
               \/ q.elts[j] = Zero32
    <3>1. CASE j = n
      BY <1>0, <2>3, <3>1
    <3>2. CASE j # n
      <4>1. j \in Live(p) /\ j \in DOMAIN p.elts /\ j # 0
        BY <1>0, <2>2, <3>2 DEF Live, PoolType
      <4>2. \/ \E s \in SessionKeys : nsh_proxy_session_by_key[s] = j
            \/ p.elts[j] = Zero32
        BY <4>1 DEF SessionIndexSound
      <4> QED
        BY <2>1, <2>2, <2>3, <3>2, <4>1, <4>2
    <3> QED
      BY <3>1, <3>2
  <2> QED
    BY <2>4, <2>5, <2>7, <2>8 DEF SessionIndexSound
<1>3. CASE LeakSession(a)
  <2>1. /\ n \notin Live(p)
        /\ q \in PoolType(U32)
        /\ PoolOK(q)
        /\ Live(q) = Live(p) \cup {n}
        /\ q.elts[n] = Zero32
        /\ \A j \in DOMAIN p.elts : j # n => q.elts[j] = p.elts[j]
    BY SMTT(30), <1>0, <1>3, ConstTypes, PoolGetLemma DEF LeakSession
  <2>2. nsh_proxy_session_by_key' = nsh_proxy_session_by_key
    BY <1>3 DEF LeakSession
  <2>3. SessionTypeOK'
    BY <1>0, <2>1, <2>2 DEF SessionTypeOK
  <2>4. ASSUME NEW j \in Live(q)
        PROVE  \/ \E s \in SessionKeys : nsh_proxy_session_by_key[s] = j
               \/ q.elts[j] = Zero32
    BY <2>1 DEF SessionIndexSound, Live
  <2> QED
    BY <2>1, <2>2, <2>3, <2>4 DEF SessionIndexSound
<1>4. CASE DelSession(a)
  <2>1. i # 0 /\ i \in Live(p)
    BY <1>0, <1>4 DEF DelSession, SessionExists, SessionIndexSound
  <2>2. /\ q \in PoolType(U32)
        /\ PoolOK(q)
        /\ q.elts = p.elts
        /\ Live(q) = Live(p) \ {i}
    BY <1>0, <1>4, <2>1, PoolPutLemma DEF DelSession
  <2>3. /\ nsh_proxy_session_by_key' \in [SessionKeys -> Nat]
        /\ nsh_proxy_session_by_key'[k] = 0
        /\ \A s \in SessionKeys :
             s # k => nsh_proxy_session_by_key'[s] = nsh_proxy_session_by_key[s]
    BY <1>0, <1>4 DEF DelSession
  <2>4. SessionTypeOK'
    BY <2>2, <2>3 DEF SessionTypeOK
  <2>5. \A s \in SessionKeys :
          s # k /\ nsh_proxy_session_by_key[s] # 0 => nsh_proxy_session_by_key[s] # i
    BY <1>0, <2>1 DEF SessionIndexSound
  <2>6. \A s \in SessionKeys : nsh_proxy_session_by_key'[s] # 0 =>
          nsh_proxy_session_by_key'[s] \in Live(q)
    BY <2>2, <2>3, <2>5 DEF SessionIndexSound
  <2>7. \A s, t \in SessionKeys :
          nsh_proxy_session_by_key'[s] = nsh_proxy_session_by_key'[t]
            => s = t \/ nsh_proxy_session_by_key'[s] = 0
    BY <2>3 DEF SessionIndexSound
  <2>8. ASSUME NEW j \in Live(q)
        PROVE  \/ \E s \in SessionKeys : nsh_proxy_session_by_key'[s] = j
               \/ q.elts[j] = Zero32
    <3>1. j \in Live(p) /\ j # i
      BY <2>2
    <3> QED
      BY <2>2, <2>3, <3>1 DEF SessionIndexSound
  <2> QED
    BY <2>4, <2>6, <2>7, <2>8 DEF SessionIndexSound
<1> QED
  BY <1>1, <1>2, <1>3, <1>4 DEF nsh_add_del_proxy_session

-----------------------------------------------------------------------------
\* The specification

TableInv == TypeOK /\ MapIndexSound /\ SessionIndexSound

LEMMA InitTables == Init => TableInv
<1> SUFFICES ASSUME Init PROVE TableInv
  OBVIOUS
<1>1. /\ \A S : EmptyPool \in PoolType(S)
      /\ PoolOK(EmptyPool)
      /\ Live(EmptyPool) = {}
  BY EmptySeq DEF EmptyPool, PoolType, PoolOK, Live, Freed, ToSet
<1>2. MapTypeOK /\ SessionTypeOK
  BY <1>1 DEF Init, MapTypeOK, SessionTypeOK
<1>3. InterfaceTypeOK
  <2>1. [sw_if_index |-> 1, dev_instance |-> 0, nsh |-> FALSE] \in HwType
    BY DEF HwType
  <2>2. \A S, x : x \in S => << x >> \in Seq(S)
    OBVIOUS
  <2>3. << >> \in Seq(U32) /\ << >> \in Seq(Nat \ {0})
    BY EmptySeq
  <2>4. hw_interfaces \in Seq(HwType)
    BY <2>1, <2>2 DEF Init
  <2>5. sw_interfaces \in Seq(BOOLEAN)
    BY <2>2 DEF Init
  <2> QED
    BY <2>3, <2>4, <2>5 DEF Init, InterfaceTypeOK
<1>4. ReplyTypeOK
  BY DEF Init, ReplyTypeOK
<1>5. MapIndexSound /\ SessionIndexSound
  BY <1>1 DEF Init, MapIndexSound, SessionIndexSound
<1> QED
  BY <1>2, <1>3, <1>4, <1>5 DEF TableInv, TypeOK

LEMMA NextTables == TableInv /\ [Next]_vars => TableInv'
<1> SUFFICES ASSUME TableInv, [Next]_vars PROVE TableInv'
  OBVIOUS
<1> USE DEF TableInv
<1>0. MapTypeOK /\ InterfaceTypeOK /\ SessionTypeOK /\ ReplyTypeOK
  BY DEF TypeOK
<1>1. ASSUME NEW a \in MapArgs, NEW is_add \in BOOLEAN
      PROVE  /\ MapRv(is_add, a) \in {0, -1, -2}
             /\ SessionRv(is_add, a) \in {0, -1, -2}
             /\ MapIndexOut(is_add, a) \in Nat
             /\ Proxied(a) => SessionKey(a) \in SessionKeys
  <2>1. NextIndex(nsh_mappings) \in Nat
    BY <1>0, NextIndexType DEF MapTypeOK
  <2> QED
    BY <2>1, SessionKeyType DEF MapRv, SessionRv, MapIndexOut
<1>2. ASSUME NEW a \in MapArgs, NEW is_add \in BOOLEAN,
             nsh_add_del_map_command_fn(is_add, a)
      PROVE  TableInv'
  <2> DEFINE adj == IF a.next_node = "ETHERNET"
                      THEN nsh_get_adj_by_sw_if_index(a.sw_if_index) ELSE 0
  <2>1. adj \in AdjIndex
    BY DEF AdjIndex
  <2>2. nsh_add_del_map(is_add, a, adj)
    BY <1>2 DEF nsh_add_del_map_command_fn
  <2>3. MapTypeOK' /\ InterfaceTypeOK' /\ MapIndexSound'
    BY <1>0, <2>1, <2>2, MapCallLemma
  <2>4. SessionTypeOK' /\ SessionIndexSound'
    <3>1. CASE Proxied(a) /\ nsh_add_del_proxy_session(is_add, a)
      BY <1>0, <3>1, SessionCallLemma
    <3>2. CASE UNCHANGED sessionVars
      BY <1>0, <3>2 DEF sessionVars, SessionTypeOK, SessionIndexSound
    <3> QED
      BY <1>2, <3>1, <3>2 DEF nsh_add_del_map_command_fn
  <2>5. ReplyTypeOK'
    BY <1>1, <1>2 DEF nsh_add_del_map_command_fn, ReplyTypeOK
  <2> QED
    BY <2>3, <2>4, <2>5 DEF TypeOK
<1>3. ASSUME NEW a \in MapArgs, NEW is_add \in BOOLEAN, NEW adj \in UninitAdj,
             vl_api_nsh_add_del_map_t_handler(is_add, a, adj)
      PROVE  TableInv'
  <2>1. adj \in AdjIndex
    BY DEF AdjIndex
  <2>2. MapTypeOK' /\ InterfaceTypeOK' /\ MapIndexSound'
    BY <1>0, <1>3, <2>1, MapCallLemma DEF vl_api_nsh_add_del_map_t_handler
  <2>3. SessionTypeOK' /\ SessionIndexSound'
    <3>1. CASE Proxied(a) /\ nsh_add_del_proxy_session(is_add, a)
      BY <1>0, <3>1, SessionCallLemma
    <3>2. CASE UNCHANGED sessionVars
      BY <1>0, <3>2 DEF sessionVars, SessionTypeOK, SessionIndexSound
    <3> QED
      BY <1>3, <3>1, <3>2 DEF vl_api_nsh_add_del_map_t_handler
  <2>4. ReplyTypeOK'
    BY <1>1, <1>3 DEF vl_api_nsh_add_del_map_t_handler, ReplyTypeOK
  <2> QED
    BY <2>2, <2>3, <2>4 DEF TypeOK
<1>4. ASSUME CreateHwInterface \/ CreateSubInterface
      PROVE  TableInv'
  <2>1. Len(sw_interfaces) + 1 \in Nat \ {0}
    BY <1>0 DEF InterfaceTypeOK
  <2>2. [sw_if_index |-> Len(sw_interfaces) + 1, dev_instance |-> 0,
         nsh |-> FALSE] \in HwType
    BY <2>1 DEF HwType
  <2>3. /\ sw_interfaces' = Append(sw_interfaces, TRUE)
        /\ UNCHANGED << free_nsh_tunnel_hw_if_indices, tunnel_index_by_sw_if_index,
                        fault >>
        /\ \/ UNCHANGED hw_interfaces
           \/ hw_interfaces' =
                Append(hw_interfaces, [sw_if_index |-> Len(sw_interfaces) + 1,
                                       dev_instance |-> 0, nsh |-> FALSE])
    BY <1>4 DEF CreateHwInterface, CreateSubInterface
  <2>4. hw_interfaces' \in Seq(HwType) /\ sw_interfaces' \in Seq(BOOLEAN)
    <3>1. hw_interfaces \in Seq(HwType) /\ sw_interfaces \in Seq(BOOLEAN)
      BY <1>0 DEF InterfaceTypeOK
    <3>2. \A S, v, e : v \in Seq(S) /\ e \in S => Append(v, e) \in Seq(S)
      OBVIOUS
    <3>3. hw_interfaces' \in Seq(HwType)
      BY <2>2, <2>3, <3>1, <3>2
    <3>4. sw_interfaces' \in Seq(BOOLEAN)
      BY <2>3, <3>1, <3>2
    <3> QED
      BY <3>3, <3>4
  <2>5. InterfaceTypeOK'
    BY <1>0, <2>3, <2>4 DEF InterfaceTypeOK
  <2>6. UNCHANGED << nsh_mappings, nsh_mapping_by_key, sessionVars, reply >>
    BY <1>4 DEF CreateHwInterface, CreateSubInterface
  <2> QED
    BY <1>0, <2>5, <2>6 DEF TypeOK, MapTypeOK, SessionTypeOK, ReplyTypeOK,
       MapIndexSound, SessionIndexSound, sessionVars
<1>5. CASE UNCHANGED vars
  BY <1>0, <1>5 DEF vars, mapVars, sessionVars, TypeOK, MapTypeOK, InterfaceTypeOK,
     SessionTypeOK, ReplyTypeOK, MapIndexSound, SessionIndexSound
<1> QED
  BY <1>2, <1>3, <1>4, <1>5 DEF Next

LEMMA TablesInvariant == Spec => []TableInv
<1> QED
  BY InitTables, NextTables, PTL DEF Spec

\* Every variable keeps its type under every sequence of requests: in
\* particular no session is ever recorded with an nsi that wrapped below zero.
THEOREM TypeCorrect == Spec => []TypeOK
<1>1. TableInv => TypeOK
  BY DEF TableInv
<1> QED
  BY <1>1, TablesInvariant, PTL

\* At every moment what the map hash table leads to is a live map with the key
\* asked for, and each live map is reached from its own key: for all requests,
\* any number of interfaces, with sub-interfaces or without.
THEOREM MapIndexCorrect == Spec => []MapIndexSound
<1>1. TableInv => MapIndexSound
  BY DEF TableInv
<1> QED
  BY <1>1, TablesInvariant, PTL

\* At every moment the session hash table leads to live sessions, one for each
\* key, and whatever else is live in the pool is blank.
THEOREM SessionIndexCorrect == Spec => []SessionIndexSound
<1>1. TableInv => SessionIndexSound
  BY DEF TableInv
<1> QED
  BY <1>1, TablesInvariant, PTL

-----------------------------------------------------------------------------
\* The map table and the session table, seen through the hash tables and pools,
\* behave as KeyedTable says: every step maps to a step of the abstract table or
\* leaves it as it is.

LEMMA EnterMapRefines ==
  ASSUME MapTypeOK, MapIndexSound,
         NEW a \in MapArgs, NEW adj \in AdjIndex, ~MapExists(a),
         NEW hw \in Nat \ {0}, NEW sw \in Nat \ {0}, EnterMap(a, adj, hw, sw)
  PROVE  MapTbl!Add(NetKey(a), a)
<1> DEFINE k == NetKey(a)
           n == NextIndex(nsh_mappings)
           e == [args |-> a, adj_index |-> adj, nsh_hw_if |-> hw, nsh_sw_if |-> sw]
<1>1. /\ n \in Nat \ {0}
      /\ n \notin Live(nsh_mappings)
      /\ nsh_mappings'.elts[n] = e
      /\ \A i \in DOMAIN nsh_mappings.elts :
           i # n => nsh_mappings'.elts[i] = nsh_mappings.elts[i]
      /\ nsh_mapping_by_key[k] = 0
      /\ nsh_mapping_by_key'[k] = n
      /\ \A l \in NetKeys : l # k => nsh_mapping_by_key'[l] = nsh_mapping_by_key[l]
  BY EnterMapEffect
<1>2. k \in NetKeys
  BY NetKeyType
<1>3. MapTable[k] = NoValue
  BY <1>1, <1>2 DEF MapTable
<1>4. ASSUME NEW l \in NetKeys
      PROVE  MapTable'[l] = [MapTable EXCEPT ![k] = a][l]
  <2>1. CASE l = k
    BY <1>1, <2>1 DEF MapTable
  <2>2. CASE l # k
    <3>1. CASE nsh_mapping_by_key[l] = 0
      BY <1>1, <2>2, <3>1 DEF MapTable
    <3>2. CASE nsh_mapping_by_key[l] # 0
      <4> DEFINE i == nsh_mapping_by_key[l]
      <4>1. i \in Live(nsh_mappings)
        BY <3>2 DEF MapIndexSound
      <4>2. nsh_mappings'.elts[i] = nsh_mappings.elts[i]
        BY <1>1, <4>1 DEF Live
      <4> QED
        BY <1>1, <2>2, <3>2, <4>2 DEF MapTable
    <3> QED
      BY <3>1, <3>2
  <2> QED
    BY <2>1, <2>2
<1>5. MapTable' = [MapTable EXCEPT ![k] = a]
  BY <1>4 DEF MapTable
<1> QED
  BY <1>3, <1>5 DEF MapTbl!Add

LEMMA DelMapRefines ==
  ASSUME MapTypeOK, MapIndexSound, NEW a \in MapArgs, DelMap(a)
  PROVE  MapTbl!Del(NetKey(a))
<1> DEFINE k == NetKey(a)
           i == nsh_mapping_by_key[k]
<1>1. /\ i # 0
      /\ i \in DOMAIN nsh_mappings.elts
      /\ nsh_mappings'.elts = nsh_mappings.elts
      /\ nsh_mapping_by_key'[k] = 0
      /\ \A l \in NetKeys : l # k => nsh_mapping_by_key'[l] = nsh_mapping_by_key[l]
  BY DelMapEffect
<1>2. k \in NetKeys
  BY NetKeyType
<1>3. MapTable[k] # NoValue
  <2>1. MapTable[k] = nsh_mappings.elts[i].args
    BY <1>1, <1>2 DEF MapTable
  <2>2. nsh_mappings.elts[i].args \in MapArgs
    BY <1>1, MapElement
  <2> QED
    BY <2>1, <2>2, NoValueAssumption
<1>4. \A l \in NetKeys : MapTable'[l] = [MapTable EXCEPT ![k] = NoValue][l]
  BY <1>1 DEF MapTable
<1>5. MapTable' = [MapTable EXCEPT ![k] = NoValue]
  BY <1>4 DEF MapTable
<1> QED
  BY <1>3, <1>5 DEF MapTbl!Del

LEMMA MapCallRefines ==
  ASSUME MapTypeOK, InterfaceTypeOK, MapIndexSound,
         NEW a \in MapArgs, NEW adj \in AdjIndex, NEW is_add \in BOOLEAN,
         nsh_add_del_map(is_add, a, adj)
  PROVE  [MapTbl!Next]_MapTable
<1>1. CASE UNCHANGED << nsh_mappings, nsh_mapping_by_key >>
  BY <1>1 DEF MapTable
<1>2. CASE ~MapExists(a) /\ ReuseTunnel(a, adj)
  <2> DEFINE hw == Last(free_nsh_tunnel_hw_if_indices)
             sw == hw_interfaces[hw].sw_if_index
  <2>1. hw \in Nat \ {0}
    BY <1>2, LastFront DEF ReuseTunnel, InterfaceTypeOK
  <2>2. hw_interfaces[hw] \in HwType
    BY <1>2 DEF ReuseTunnel, InterfaceTypeOK
  <2>3. sw \in Nat \ {0}
    BY <2>2 DEF HwType
  <2>4. MapTbl!Add(NetKey(a), a)
    BY <1>2, <2>1, <2>3, EnterMapRefines DEF ReuseTunnel
  <2> QED
    BY <2>4, NetKeyType DEF MapTbl!Next
<1>3. CASE ~MapExists(a) /\ RegisterTunnel(a, adj)
  <2>1. Len(hw_interfaces) + 1 \in Nat \ {0} /\ Len(sw_interfaces) + 1 \in Nat \ {0}
    BY DEF InterfaceTypeOK
  <2>2. MapTbl!Add(NetKey(a), a)
    BY <1>3, <2>1, EnterMapRefines DEF RegisterTunnel
  <2> QED
    BY <2>2, NetKeyType DEF MapTbl!Next
<1>4. CASE DelMap(a)
  <2>1. MapTbl!Del(NetKey(a))
    BY <1>4, DelMapRefines
  <2> QED
    BY <2>1, NetKeyType DEF MapTbl!Next
<1> QED
  BY <1>1, <1>2, <1>3, <1>4 DEF nsh_add_del_map, AddMap, MissTunnel, mapVars

\* The map table implements a keyed table: an add binds its key and no other,
\* a delete unbinds its key and no other, and every other request, whatever
\* elements and interfaces are reused under the surface, changes nothing.
THEOREM MapsImplementTable == Spec => MapsRefineTable
<1>1. Init => MapTbl!Init
  BY DEF Init, MapTbl!Init, MapTable
<1>2. ASSUME TableInv, [Next]_vars
      PROVE  [MapTbl!Next]_MapTable
  <2>0. MapTypeOK /\ InterfaceTypeOK /\ MapIndexSound
    BY <1>2 DEF TableInv, TypeOK
  <2>1. ASSUME NEW a \in MapArgs, NEW is_add \in BOOLEAN,
               nsh_add_del_map_command_fn(is_add, a)
        PROVE  [MapTbl!Next]_MapTable
    <3> DEFINE adj == IF a.next_node = "ETHERNET"
                        THEN nsh_get_adj_by_sw_if_index(a.sw_if_index) ELSE 0
    <3>1. adj \in AdjIndex /\ nsh_add_del_map(is_add, a, adj)
      BY <2>1 DEF nsh_add_del_map_command_fn, AdjIndex
    <3> QED
      BY <2>0, <3>1, MapCallRefines
  <2>2. ASSUME NEW a \in MapArgs, NEW is_add \in BOOLEAN, NEW adj \in UninitAdj,
               vl_api_nsh_add_del_map_t_handler(is_add, a, adj)
        PROVE  [MapTbl!Next]_MapTable
    <3>1. adj \in AdjIndex /\ nsh_add_del_map(is_add, a, adj)
      BY <2>2 DEF vl_api_nsh_add_del_map_t_handler, AdjIndex
    <3> QED
      BY <2>0, <3>1, MapCallRefines
  <2>3. CASE CreateHwInterface \/ CreateSubInterface \/ UNCHANGED vars
    BY <2>3 DEF CreateHwInterface, CreateSubInterface, vars, mapVars, MapTable
  <2> QED
    BY <1>2, <2>1, <2>2, <2>3 DEF Next
<1> QED
  BY <1>1, <1>2, TablesInvariant, PTL DEF Spec, MapsRefineTable, MapTbl!Spec

-----------------------------------------------------------------------------
\* Proxy sessions

LEMMA SessionCallRefines ==
  ASSUME SessionTypeOK, SessionIndexSound,
         NEW a \in MapArgs, Proxied(a), NEW is_add \in BOOLEAN,
         nsh_add_del_proxy_session(is_add, a)
  PROVE  [SessionTbl!Next]_SessionTable
<1> DEFINE p == nsh_proxy_sessions
           q == nsh_proxy_sessions'
           n == NextIndex(nsh_proxy_sessions)
           k == SessionKey(a)
           i == nsh_proxy_session_by_key[k]
           V == {ProxyNspNsi(b) : b \in {c \in MapArgs : c.nsp_nsi[4] # 0}}
<1>0. /\ k \in SessionKeys
      /\ p \in PoolType(U32)
      /\ PoolOK(p)
      /\ nsh_proxy_session_by_key \in [SessionKeys -> Nat]
  BY SessionKeyType DEF SessionTypeOK
<1>1. \A s \in SessionKeys : nsh_proxy_session_by_key[s] # 0 =>
        /\ nsh_proxy_session_by_key[s] \in Live(p)
        /\ nsh_proxy_session_by_key[s] \in DOMAIN p.elts
  BY DEF SessionIndexSound, Live
<1>2. CASE UNCHANGED sessionVars
  BY <1>2 DEF sessionVars, SessionTable
<1>3. CASE AddSession(a)
  <2>1. ProxyNspNsi(a) \in U32 /\ ProxyNspNsi(a) \in V /\ i = 0
    BY <1>3, ProxyType DEF AddSession, SessionExists
  <2>2. /\ n \in Nat \ {0}
        /\ n \notin Live(p)
        /\ q.elts[n] = ProxyNspNsi(a)
        /\ \A j \in DOMAIN p.elts : j # n => q.elts[j] = p.elts[j]
    BY <1>0, <1>3, <2>1, PoolGetLemma DEF AddSession
  <2>3. /\ nsh_proxy_session_by_key'[k] = n
        /\ \A s \in SessionKeys :
             s # k => nsh_proxy_session_by_key'[s] = nsh_proxy_session_by_key[s]
    BY <1>0, <1>3 DEF AddSession
  <2>4. SessionTable[k] = NoValue
    BY <1>0, <2>1 DEF SessionTable
  <2>5. ASSUME NEW s \in SessionKeys
        PROVE  SessionTable'[s] = [SessionTable EXCEPT ![k] = ProxyNspNsi(a)][s]
    <3>1. CASE s = k
      BY <2>2, <2>3, <3>1 DEF SessionTable
    <3>2. CASE s # k /\ nsh_proxy_session_by_key[s] = 0
      BY <2>3, <3>2 DEF SessionTable
    <3>3. CASE s # k /\ nsh_proxy_session_by_key[s] # 0
      BY <1>1, <2>2, <2>3, <3>3 DEF SessionTable
    <3> QED
      BY <3>1, <3>2, <3>3
  <2>6. SessionTable' = [SessionTable EXCEPT ![k] = ProxyNspNsi(a)]
    BY <2>5 DEF SessionTable
  <2>7. SessionTbl!Add(k, ProxyNspNsi(a))
    BY <2>4, <2>6 DEF SessionTbl!Add
  <2> QED
    BY <1>0, <2>1, <2>7 DEF SessionTbl!Next
<1>4. CASE LeakSession(a)
  <2>1. /\ n \notin Live(p)
        /\ \A j \in DOMAIN p.elts : j # n => q.elts[j] = p.elts[j]
    BY <1>0, <1>4, ConstTypes, PoolGetLemma DEF LeakSession
  <2>2. nsh_proxy_session_by_key' = nsh_proxy_session_by_key
    BY <1>4 DEF LeakSession
  <2>3. \A s \in SessionKeys : SessionTable'[s] = SessionTable[s]
    BY <1>1, <2>1, <2>2 DEF SessionTable
  <2>4. SessionTable' = SessionTable
    BY <2>3 DEF SessionTable
  <2> QED
    BY <2>4
<1>5. CASE DelSession(a)
  <2>1. i # 0 /\ i \in Live(p) /\ i \in DOMAIN p.elts
    BY <1>0, <1>1, <1>5 DEF DelSession, SessionExists
  <2>2. q.elts = p.elts
    BY <1>0, <1>5, <2>1, PoolPutLemma DEF DelSession
  <2>3. /\ nsh_proxy_session_by_key'[k] = 0
        /\ \A s \in SessionKeys :
             s # k => nsh_proxy_session_by_key'[s] = nsh_proxy_session_by_key[s]
    BY <1>0, <1>5 DEF DelSession
  <2>4. SessionTable[k] # NoValue
    <3>1. p.elts[i] \in U32
      BY <1>0, <2>1 DEF PoolType
    <3>2. SessionTable[k] = p.elts[i]
      BY <1>0, <2>1 DEF SessionTable
    <3> QED
      BY <3>1, <3>2, NoValueAssumption
  <2>5. \A s \in SessionKeys :
          SessionTable'[s] = [SessionTable EXCEPT ![k] = NoValue][s]
    BY <2>2, <2>3 DEF SessionTable
  <2>6. SessionTable' = [SessionTable EXCEPT ![k] = NoValue]
    BY <2>5 DEF SessionTable
  <2>7. SessionTbl!Del(k)
    BY <2>4, <2>6 DEF SessionTbl!Del
  <2> QED
    BY <1>0, <2>7 DEF SessionTbl!Next
<1> QED
  BY <1>2, <1>3, <1>4, <1>5 DEF nsh_add_del_proxy_session

\* The session table implements a keyed table, although its pool also holds
\* elements that an add with an nsi of zero has left behind.
THEOREM SessionsImplementTable == Spec => SessionsRefineTable
<1>1. Init => SessionTbl!Init
  BY DEF Init, SessionTbl!Init, SessionTable
<1>2. ASSUME TableInv, [Next]_vars
      PROVE  [SessionTbl!Next]_SessionTable
  <2>0. SessionTypeOK /\ SessionIndexSound
    BY <1>2 DEF TableInv, TypeOK
  <2>1. CASE UNCHANGED sessionVars
    BY <2>1 DEF sessionVars, SessionTable
  <2>2. ASSUME NEW a \in MapArgs, NEW is_add \in BOOLEAN, Proxied(a),
               nsh_add_del_proxy_session(is_add, a)
        PROVE  [SessionTbl!Next]_SessionTable
    BY <2>0, <2>2, SessionCallRefines
  <2>3. ASSUME NEW a \in MapArgs, NEW is_add \in BOOLEAN,
               nsh_add_del_map_command_fn(is_add, a)
        PROVE  [SessionTbl!Next]_SessionTable
    BY <2>1, <2>2, <2>3 DEF nsh_add_del_map_command_fn
  <2>4. ASSUME NEW a \in MapArgs, NEW is_add \in BOOLEAN, NEW adj \in UninitAdj,
               vl_api_nsh_add_del_map_t_handler(is_add, a, adj)
        PROVE  [SessionTbl!Next]_SessionTable
    BY <2>1, <2>2, <2>4 DEF vl_api_nsh_add_del_map_t_handler
  <2>5. CASE CreateHwInterface \/ CreateSubInterface \/ UNCHANGED vars
    BY <2>1, <2>5 DEF CreateHwInterface, CreateSubInterface, vars
  <2> QED
    BY <1>2, <2>3, <2>4, <2>5 DEF Next
<1> QED
  BY <1>1, <1>2, TablesInvariant, PTL DEF Spec, SessionsRefineTable, SessionTbl!Spec

-----------------------------------------------------------------------------
(***************************************************************************)
(* Tunnels: the inductive invariant.  A freed element keeps its bytes, so  *)
(* that the tunnel of each element of the pool, live or not, is known: an  *)
(* element and the tunnel it was first given stay together for ever.       *)
(***************************************************************************)

\* Every interface has one index, as hardware and as software.
OneIndexSpace ==
  /\ Len(sw_interfaces) = Len(hw_interfaces)
  /\ \A h \in DOMAIN hw_interfaces : hw_interfaces[h].sw_if_index = h

\* The tunnel of an element is named after it, is up as long as the element
\* is live, and carries the key of the map exactly as long.
ElementHasTunnel ==
  \A i \in DOMAIN nsh_mappings.elts :
    LET m == nsh_mappings.elts[i]
        h == m.nsh_hw_if
    IN  /\ m.nsh_sw_if = h
        /\ h \in DOMAIN hw_interfaces
        /\ hw_interfaces[h].nsh
        /\ hw_interfaces[h].dev_instance = i
        /\ sw_interfaces[h] = (i \in Live(nsh_mappings))
        /\ h \in DOMAIN tunnel_index_by_sw_if_index
        /\ tunnel_index_by_sw_if_index[h] =
             IF i \in Live(nsh_mappings) THEN NetKey(m.args) ELSE AllOnes

\* No tunnel is without an element.
TunnelHasElement ==
  \A h \in DOMAIN hw_interfaces : hw_interfaces[h].nsh =>
    /\ hw_interfaces[h].dev_instance \in DOMAIN nsh_mappings.elts
    /\ nsh_mappings.elts[hw_interfaces[h].dev_instance].nsh_hw_if = h

\* The free stack of the pool and that of the tunnels move in step.
StacksInStep ==
  /\ Len(free_nsh_tunnel_hw_if_indices) = Len(nsh_mappings.free)
  /\ \A j \in DOMAIN nsh_mappings.free :
       free_nsh_tunnel_hw_if_indices[j]
         = nsh_mappings.elts[nsh_mappings.free[j]].nsh_hw_if

\* What is no tunnel carries no key.
OnlyTunnelsRoute ==
  \A s \in DOMAIN tunnel_index_by_sw_if_index :
    \/ tunnel_index_by_sw_if_index[s] = AllOnes
    \/ \E i \in DOMAIN nsh_mappings.elts : nsh_mappings.elts[i].nsh_hw_if = s

TunnelInv ==
  /\ ~fault
  /\ OneIndexSpace
  /\ ElementHasTunnel
  /\ TunnelHasElement
  /\ StacksInStep
  /\ OnlyTunnelsRoute

-----------------------------------------------------------------------------
\* Lemmas

\* What is left of a stack when its top is taken.
LEMMA FrontLemma ==
  ASSUME NEW S, NEW f \in Seq(S), f # << >>, NEW g, g = Front(f)
  PROVE  /\ g \in Seq(S)
         /\ Len(g) = Len(f) - 1
         /\ DOMAIN g = 1 .. Len(f) - 1
         /\ \A j \in DOMAIN g : j \in DOMAIN f /\ g[j] = f[j]
<1>1. /\ Len(f) \in Nat \ {0}
      /\ Front(f) \in Seq(S)
      /\ Len(Front(f)) = Len(f) - 1
      /\ \A i \in 1 .. Len(f) - 1 : Front(f)[i] = f[i]
  BY LastFront
<1>2. DOMAIN g = 1 .. Len(f) - 1 /\ DOMAIN f = 1 .. Len(f)
  BY <1>1
<1> QED
  BY <1>1, <1>2

\* The interfaces, as vectors of one length.
LEMMA InterfaceDomains ==
  ASSUME InterfaceTypeOK, OneIndexSpace
  PROVE  /\ Len(hw_interfaces) \in Nat
         /\ DOMAIN hw_interfaces = 1 .. Len(hw_interfaces)
         /\ DOMAIN sw_interfaces = 1 .. Len(hw_interfaces)
         /\ DOMAIN tunnel_index_by_sw_if_index = 1 .. Len(tunnel_index_by_sw_if_index)
         /\ Len(tunnel_index_by_sw_if_index) \in Nat
BY DEF InterfaceTypeOK, OneIndexSpace

\* Two elements never share a tunnel.
LEMMA TunnelOfOneElement ==
  ASSUME ElementHasTunnel,
         NEW i \in DOMAIN nsh_mappings.elts, NEW j \in DOMAIN nsh_mappings.elts,
         nsh_mappings.elts[i].nsh_hw_if = nsh_mappings.elts[j].nsh_hw_if
  PROVE  i = j
BY DEF ElementHasTunnel

\* What is on top of the two free stacks belongs together.
LEMMA TopsBelongTogether ==
  ASSUME MapTypeOK, InterfaceTypeOK, StacksInStep, ElementHasTunnel,
         free_nsh_tunnel_hw_if_indices # << >>,
         NEW n, n = NextIndex(nsh_mappings),
         NEW h, h = Last(free_nsh_tunnel_hw_if_indices)
  PROVE  /\ nsh_mappings.free # << >>
         /\ n \in DOMAIN nsh_mappings.elts
         /\ n \notin Live(nsh_mappings)
         /\ nsh_mappings.elts[n].nsh_hw_if = h
         /\ h \in DOMAIN hw_interfaces
<1> DEFINE f == nsh_mappings.free
           t == free_nsh_tunnel_hw_if_indices
<1>1. /\ f \in Seq(Nat) /\ t \in Seq(Nat \ {0}) /\ Len(f) = Len(t)
  BY DEF MapTypeOK, PoolType, InterfaceTypeOK, StacksInStep
<1>2. f # << >> /\ n = Last(f)
  BY <1>1, EmptySeq DEF NextIndex
<1>3. /\ Len(t) \in Nat \ {0} /\ h = t[Len(t)] /\ n = f[Len(f)]
  BY <1>1, <1>2, LastFront
<1>4. Len(f) \in DOMAIN f
  BY <1>1, <1>3
<1>5. n \in Freed(nsh_mappings) /\ h = nsh_mappings.elts[n].nsh_hw_if
  BY <1>1, <1>3, <1>4 DEF Freed, ToSet, StacksInStep
<1>6. n \in DOMAIN nsh_mappings.elts /\ n \notin Live(nsh_mappings)
  BY <1>5 DEF MapTypeOK, PoolOK, Live
<1> QED
  BY <1>2, <1>5, <1>6 DEF ElementHasTunnel

-----------------------------------------------------------------------------
\* The steps

LEMMA ReuseTunnelStep ==
  ASSUME MapTypeOK, InterfaceTypeOK, MapIndexSound, TunnelInv,
         NEW a \in MapArgs, NEW adj \in AdjIndex, ~MapExists(a),
         ReuseTunnel(a, adj)
  PROVE  TunnelInv' /\ hw_interfaces' = hw_interfaces
<1> USE DEF TunnelInv
<1> DEFINE h == Last(free_nsh_tunnel_hw_if_indices)
           n == NextIndex(nsh_mappings)
           e == [args |-> a, adj_index |-> adj, nsh_hw_if |-> h, nsh_sw_if |-> h]
           p == nsh_mappings
           q == nsh_mappings'
           t == free_nsh_tunnel_hw_if_indices
           v == tunnel_index_by_sw_if_index
           k == NetKey(a)
<1>1. /\ p.free # << >> /\ n \in DOMAIN p.elts /\ n \notin Live(p)
      /\ p.elts[n].nsh_hw_if = h /\ h \in DOMAIN hw_interfaces
  BY TopsBelongTogether DEF ReuseTunnel
<1>2. hw_interfaces[h].sw_if_index = h /\ h \in Nat \ {0}
  BY <1>1, InterfaceDomains DEF OneIndexSpace
<1>3. /\ hw_interfaces[h].nsh /\ hw_interfaces[h].dev_instance = n
      /\ h \in DOMAIN v /\ h \in DOMAIN sw_interfaces
  BY <1>1, InterfaceDomains DEF ElementHasTunnel
<1>4. EnterMap(a, adj, h, h)
  BY <1>2 DEF ReuseTunnel
<1>5. hw_interfaces' = hw_interfaces
  <2>1. hw_interfaces' = [hw_interfaces EXCEPT ![h].dev_instance = n]
    BY DEF ReuseTunnel
  <2>2. hw_interfaces[h] \in HwType
    BY <1>1 DEF InterfaceTypeOK
  <2>3. [hw_interfaces[h] EXCEPT !.dev_instance = n] = hw_interfaces[h]
    BY <1>3, <2>2 DEF HwType
  <2>4. hw_interfaces' = [hw_interfaces EXCEPT ![h] = hw_interfaces[h]]
    BY <2>1, <2>3
  <2> QED
    BY <2>4 DEF InterfaceTypeOK
<1>6. /\ sw_interfaces' = [sw_interfaces EXCEPT ![h] = TRUE]
      /\ t' = Front(t) /\ t # << >>
      /\ fault' = fault
  BY <1>2 DEF ReuseTunnel
<1>7. /\ Live(q) = Live(p) \cup {n}
      /\ DOMAIN q.elts = DOMAIN p.elts
      /\ q.elts[n] = e
      /\ \A i \in DOMAIN p.elts : i # n => q.elts[i] = p.elts[i]
      /\ q.free = Front(p.free)
  <2>1. q.free = Front(p.free)
    BY <1>1, <1>4 DEF EnterMap, PoolGet
  <2>2. /\ Live(q) = Live(p) \cup {n}
        /\ DOMAIN q.elts = DOMAIN p.elts \cup {n}
        /\ q.elts[n] = e
        /\ \A i \in DOMAIN p.elts : i # n => q.elts[i] = p.elts[i]
    <3> HIDE DEF h
    <3> QED
      BY <1>2, <1>4, EnterMapEffect
  <2> QED
    BY <1>1, <2>1, <2>2
<1>8. DOMAIN v' = DOMAIN v /\ v' = [v EXCEPT ![h] = k]
  <2>1. v \in Seq(U32) /\ DOMAIN v = 1 .. Len(v) /\ h <= Len(v) /\ Len(v) \in Nat
    BY <1>3, InterfaceDomains DEF InterfaceTypeOK
  <2>2. VecValidate(v, h) = v
    <3>1. VecValidate(v, h) = [i \in 1 .. Len(v) |-> v[i]]
      BY <1>2, <2>1 DEF VecValidate
    <3> QED
      BY <2>1, <3>1
  <2> QED
    BY <1>4, <2>2 DEF EnterMap
<1>9. \A i \in DOMAIN p.elts : i # n => p.elts[i].nsh_hw_if # h
  BY <1>1, TunnelOfOneElement
<1>10. OneIndexSpace'
  BY <1>5, <1>6 DEF OneIndexSpace, InterfaceTypeOK
<1>11. ElementHasTunnel'
  <2> SUFFICES ASSUME NEW i \in DOMAIN q.elts
               PROVE  LET m == q.elts[i]
                          g == m.nsh_hw_if
                      IN  /\ m.nsh_sw_if = g
                          /\ g \in DOMAIN hw_interfaces'
                          /\ hw_interfaces'[g].nsh
                          /\ hw_interfaces'[g].dev_instance = i
                          /\ sw_interfaces'[g] = (i \in Live(q))
                          /\ g \in DOMAIN v'
                          /\ v'[g] = IF i \in Live(q) THEN NetKey(m.args) ELSE AllOnes
    BY DEF ElementHasTunnel
  <2>1. CASE i = n
    <3>1. /\ q.elts[i].nsh_hw_if = h /\ q.elts[i].nsh_sw_if = h
          /\ q.elts[i].args = a /\ i \in Live(q)
      BY <1>7, <2>1
    <3>2. sw_interfaces'[h] = TRUE /\ v'[h] = NetKey(a)
      BY <1>3, <1>6, <1>8
    <3> HIDE DEF h, n, e, q
    <3> QED
      BY <1>1, <1>3, <1>5, <1>8, <2>1, <3>1, <3>2
  <2>2. CASE i # n
    <3>1. /\ i \in DOMAIN p.elts
          /\ q.elts[i] = p.elts[i]
          /\ i \in Live(q) <=> i \in Live(p)
      BY <1>7, <2>2
    <3>2. p.elts[i].nsh_hw_if # h
      BY <1>9, <2>2, <3>1
    <3>3. /\ sw_interfaces'[p.elts[i].nsh_hw_if] = sw_interfaces[p.elts[i].nsh_hw_if]
          /\ v'[p.elts[i].nsh_hw_if] = v[p.elts[i].nsh_hw_if]
      <4>1. p.elts[i].nsh_hw_if \in DOMAIN v /\ p.elts[i].nsh_hw_if \in DOMAIN sw_interfaces
        BY <3>1, InterfaceDomains DEF ElementHasTunnel
      <4> QED
        BY <1>6, <1>8, <3>2, <4>1
    <3> QED
      BY <1>5, <1>7, <1>8, <2>2, <3>1, <3>3 DEF ElementHasTunnel
  <2> QED
    BY <2>1, <2>2
<1>12. TunnelHasElement'
  <2>1. \A i \in DOMAIN p.elts : q.elts[i].nsh_hw_if = p.elts[i].nsh_hw_if
    BY <1>1, <1>7
  <2> QED
    BY <1>5, <1>7, <2>1 DEF TunnelHasElement
<1>13. StacksInStep'
  <2>1. /\ t \in Seq(Nat \ {0}) /\ p.free \in Seq(Nat) /\ Len(t) = Len(p.free)
    BY DEF InterfaceTypeOK, MapTypeOK, PoolType, StacksInStep
  <2>2. /\ DOMAIN t' = 1 .. Len(t) - 1 /\ Len(t') = Len(t) - 1
        /\ \A j \in DOMAIN t' : t'[j] = t[j]
    BY <1>6, <2>1, FrontLemma
  <2>3. /\ DOMAIN q.free = 1 .. Len(p.free) - 1 /\ Len(q.free) = Len(p.free) - 1
        /\ \A j \in DOMAIN q.free : j \in DOMAIN p.free /\ q.free[j] = p.free[j]
    BY <1>1, <1>7, <2>1, FrontLemma
  <2>4. \A i \in DOMAIN p.elts : q.elts[i].nsh_hw_if = p.elts[i].nsh_hw_if
    BY <1>1, <1>7
  <2>5. ASSUME NEW j \in DOMAIN q.free
        PROVE  t'[j] = q.elts[q.free[j]].nsh_hw_if
    <3>1. j \in DOMAIN t' /\ j \in DOMAIN p.free
      BY <2>1, <2>2, <2>3
    <3>2. p.free[j] \in DOMAIN p.elts
      BY <3>1 DEF MapTypeOK, PoolOK, Freed, ToSet
    <3> QED
      BY <2>1, <2>2, <2>3, <2>4, <3>1, <3>2 DEF StacksInStep
  <2> QED
    BY <2>1, <2>2, <2>3, <2>5 DEF StacksInStep
<1>14. OnlyTunnelsRoute'
  <2> SUFFICES ASSUME NEW s \in DOMAIN v, v'[s] # AllOnes
               PROVE  \E i \in DOMAIN q.elts : q.elts[i].nsh_hw_if = s
    BY <1>8 DEF OnlyTunnelsRoute
  <2>1. CASE s = h
    BY <1>1, <1>7, <2>1
  <2>2. CASE s # h
    <3>1. v'[s] = v[s]
      BY <1>8, <2>2
    <3>2. PICK i \in DOMAIN p.elts : p.elts[i].nsh_hw_if = s
      BY <3>1 DEF OnlyTunnelsRoute
    <3> QED
      BY <1>1, <1>7, <2>2, <3>2
  <2> QED
    BY <2>1, <2>2
<1> QED
  BY <1>5, <1>6, <1>10, <1>11, <1>12, <1>13, <1>14

\* The vector of keys, grown to hold an interface.
LEMMA VecValidateEffect ==
  ASSUME NEW v \in Seq(U32), NEW h \in Nat \ {0},
         NEW x, x = VecValidate(v, h)
  PROVE  /\ x \in Seq(U32)
         /\ h \in DOMAIN x
         /\ \A s \in DOMAIN v : s \in DOMAIN x /\ x[s] = v[s]
         /\ \A s \in DOMAIN x : s \in DOMAIN v \/ x[s] = AllOnes
<1> DEFINE m == IF h > Len(v) THEN h ELSE Len(v)
<1>1. /\ Len(v) \in Nat /\ DOMAIN v = 1 .. Len(v) /\ m \in Nat
      /\ h \in 1 .. m /\ \A s \in DOMAIN v : s \in 1 .. m
  OBVIOUS
<1>2. x \in Seq(U32) /\ DOMAIN x = 1 .. m
  BY VecValidateType
<1>3. \A s \in 1 .. m : x[s] = IF s <= Len(v) THEN v[s] ELSE AllOnes
  BY DEF VecValidate
<1> HIDE DEF m
<1>4. \A s \in DOMAIN v : s <= Len(v)
  BY <1>1
<1>5. \A s \in 1 .. m : s <= Len(v) => s \in DOMAIN v
  BY <1>1
<1> QED
  BY <1>1, <1>2, <1>3, <1>4, <1>5

LEMMA RegisterTunnelStep ==
  ASSUME MapTypeOK, InterfaceTypeOK, MapIndexSound, TunnelInv,
         NEW a \in MapArgs, NEW adj \in AdjIndex, ~MapExists(a),
         RegisterTunnel(a, adj)
  PROVE  /\ TunnelInv'
         /\ \A g \in DOMAIN hw_interfaces : hw_interfaces'[g] = hw_interfaces[g]
<1> USE DEF TunnelInv
<1> DEFINE h == Len(hw_interfaces) + 1
           n == NextIndex(nsh_mappings)
           e == [args |-> a, adj_index |-> adj, nsh_hw_if |-> h, nsh_sw_if |-> h]
           r == [sw_if_index |-> h, nsh |-> TRUE, dev_instance |-> n]
           p == nsh_mappings
           q == nsh_mappings'
           t == free_nsh_tunnel_hw_if_indices
           v == tunnel_index_by_sw_if_index
           k == NetKey(a)
<1>1. /\ h \in Nat \ {0} /\ Len(sw_interfaces) + 1 = h /\ h \notin DOMAIN hw_interfaces
  BY InterfaceDomains DEF OneIndexSpace
<1>2. /\ EnterMap(a, adj, h, h)
      /\ hw_interfaces' = Append(hw_interfaces, r)
      /\ sw_interfaces' = Append(sw_interfaces, TRUE)
      /\ t = << >> /\ t' = << >> /\ fault' = fault
  BY <1>1 DEF RegisterTunnel
<1>3. /\ DOMAIN hw_interfaces' = DOMAIN hw_interfaces \cup {h}
      /\ hw_interfaces'[h] = r
      /\ \A g \in DOMAIN hw_interfaces : hw_interfaces'[g] = hw_interfaces[g]
      /\ sw_interfaces'[h] = TRUE
      /\ \A g \in DOMAIN hw_interfaces : sw_interfaces'[g] = sw_interfaces[g]
      /\ Len(sw_interfaces') = Len(hw_interfaces')
  <2> HIDE DEF r
  <2> QED
    BY <1>1, <1>2, InterfaceDomains DEF OneIndexSpace, InterfaceTypeOK
<1>4. p.free = << >> /\ n = Len(p.elts) + 1 /\ n \notin DOMAIN p.elts
  <2>1. p.free \in Seq(Nat) /\ p.elts \in Seq(MapType) /\ Len(p.free) = 0
    BY <1>2 DEF StacksInStep, MapTypeOK, PoolType
  <2> QED
    BY <2>1 DEF NextIndex
<1>5. /\ Live(q) = Live(p) \cup {n}
      /\ DOMAIN q.elts = DOMAIN p.elts \cup {n}
      /\ q.elts[n] = e
      /\ \A i \in DOMAIN p.elts : q.elts[i] = p.elts[i]
      /\ q.free = << >>
  <2>1. q.free = << >>
    BY <1>4, <1>2 DEF EnterMap, PoolGet
  <2>2. /\ Live(q) = Live(p) \cup {n}
        /\ DOMAIN q.elts = DOMAIN p.elts \cup {n}
        /\ q.elts[n] = e
        /\ \A i \in DOMAIN p.elts : i # n => q.elts[i] = p.elts[i]
    <3> HIDE DEF h
    <3> QED
      BY <1>1, <1>2, EnterMapEffect
  <2> QED
    BY <1>4, <2>1, <2>2
<1>6. /\ h \in DOMAIN v'
      /\ v'[h] = k
      /\ \A s \in DOMAIN v : s \in DOMAIN v' /\ (s # h => v'[s] = v[s])
      /\ \A s \in DOMAIN v' : s \in DOMAIN v \/ s = h \/ v'[s] = AllOnes
  <2> DEFINE x == VecValidate(v, h)
  <2>1. v \in Seq(U32) /\ v' = [x EXCEPT ![h] = k]
    BY <1>2 DEF EnterMap, InterfaceTypeOK
  <2>2. h \in Nat \ {0}
    BY <1>1
  <2> HIDE DEF h, k
  <2>3. /\ x \in Seq(U32)
        /\ h \in DOMAIN x
        /\ \A s \in DOMAIN v : s \in DOMAIN x /\ x[s] = v[s]
        /\ \A s \in DOMAIN x : s \in DOMAIN v \/ x[s] = AllOnes
    BY <2>1, <2>2, VecValidateEffect
  <2> HIDE DEF x
  <2> QED
    BY <2>1, <2>3
<1>7. /\ q.elts[n].nsh_hw_if = h /\ q.elts[n].nsh_sw_if = h /\ q.elts[n].args = a
      /\ r.sw_if_index = h /\ r.nsh /\ r.dev_instance = n
  BY <1>5
<1> HIDE DEF h, n, e, r, q
<1>8. OneIndexSpace'
  BY <1>3, <1>7 DEF OneIndexSpace
<1>9. ElementHasTunnel'
  <2> SUFFICES ASSUME NEW i \in DOMAIN nsh_mappings'.elts
               PROVE  LET m == nsh_mappings'.elts[i]
                          g == m.nsh_hw_if
                      IN  /\ m.nsh_sw_if = g
                          /\ g \in DOMAIN hw_interfaces'
                          /\ hw_interfaces'[g].nsh
                          /\ hw_interfaces'[g].dev_instance = i
                          /\ sw_interfaces'[g] = (i \in Live(nsh_mappings'))
                          /\ g \in DOMAIN v'
                          /\ v'[g] = IF i \in Live(nsh_mappings')
                                       THEN NetKey(m.args) ELSE AllOnes
    BY DEF ElementHasTunnel
  <2>1. CASE i = n
    BY <1>3, <1>5, <1>6, <1>7, <2>1 DEF q
  <2>2. CASE i # n
    <3>1. /\ i \in DOMAIN p.elts
          /\ q.elts[i] = p.elts[i]
          /\ i \in Live(q) <=> i \in Live(p)
      BY <1>5, <2>2 DEF q
    <3> DEFINE g == p.elts[i].nsh_hw_if
    <3>2. g \in DOMAIN hw_interfaces /\ g \in DOMAIN v /\ g # h
      BY <1>1, <3>1 DEF ElementHasTunnel
    <3>3. g \in DOMAIN v' /\ v'[g] = v[g]
      BY <1>6, <3>2
    <3> QED
      BY <1>3, <3>1, <3>2, <3>3 DEF ElementHasTunnel, q
  <2> QED
    BY <2>1, <2>2
<1>10. TunnelHasElement'
  BY <1>1, <1>3, <1>5, <1>7 DEF TunnelHasElement, q
<1>11. StacksInStep'
  BY <1>2, <1>5 DEF StacksInStep, q
<1>12. OnlyTunnelsRoute'
  <2>1. \A i \in DOMAIN p.elts : i \in DOMAIN q.elts /\ q.elts[i] = p.elts[i]
    BY <1>5
  <2>2. n \in DOMAIN q.elts
    BY <1>5
  <2> QED
    BY <1>6, <1>7, <2>1, <2>2 DEF OnlyTunnelsRoute, q
<1> QED
  BY <1>2, <1>3, <1>8, <1>9, <1>10, <1>11, <1>12

LEMMA DelMapStep ==
  ASSUME MapTypeOK, InterfaceTypeOK, MapIndexSound, TunnelInv,
         NEW a \in MapArgs, DelMap(a)
  PROVE  TunnelInv'
<1> USE DEF TunnelInv
<1> DEFINE p == nsh_mappings
           q == nsh_mappings'
           t == free_nsh_tunnel_hw_if_indices
           v == tunnel_index_by_sw_if_index
           n == nsh_mapping_by_key[NetKey(a)]
           h == nsh_mappings.elts[n].nsh_hw_if
<1>1. /\ n \in Live(p) /\ n \in DOMAIN p.elts
      /\ q.elts = p.elts /\ Live(q) = Live(p) \ {n}
  BY DelMapEffect
<1>2. /\ p.elts[n].nsh_sw_if = h /\ h \in DOMAIN hw_interfaces /\ h \in DOMAIN v
      /\ h \in DOMAIN sw_interfaces
  BY <1>1, InterfaceDomains DEF ElementHasTunnel
<1>3. /\ sw_interfaces' = [sw_interfaces EXCEPT ![h] = FALSE]
      /\ t' = Append(t, h)
      /\ v' = [v EXCEPT ![h] = AllOnes]
      /\ q.free = Append(p.free, n)
      /\ hw_interfaces' = hw_interfaces /\ fault' = fault
  BY <1>2 DEF DelMap, PoolPut
<1>4. \A i \in DOMAIN p.elts : i # n => p.elts[i].nsh_hw_if # h
  BY <1>1, TunnelOfOneElement
<1> HIDE DEF n, h, q
<1>5. OneIndexSpace'
  BY <1>3 DEF OneIndexSpace, InterfaceTypeOK
<1>6. ElementHasTunnel'
  <2> SUFFICES ASSUME NEW i \in DOMAIN p.elts
               PROVE  LET m == p.elts[i]
                          g == m.nsh_hw_if
                      IN  /\ m.nsh_sw_if = g
                          /\ g \in DOMAIN hw_interfaces
                          /\ hw_interfaces[g].nsh
                          /\ hw_interfaces[g].dev_instance = i
                          /\ sw_interfaces'[g] = (i \in Live(q))
                          /\ g \in DOMAIN v'
                          /\ v'[g] = IF i \in Live(q) THEN NetKey(m.args) ELSE AllOnes
    <3>1. /\ nsh_mappings'.elts = p.elts /\ Live(nsh_mappings') = Live(q)
          /\ hw_interfaces' = hw_interfaces
      BY <1>1, <1>3 DEF q
    <3> QED
      BY <3>1 DEF ElementHasTunnel
  <2>1. CASE i = n
    <3>1. sw_interfaces'[h] = FALSE /\ v'[h] = AllOnes /\ h \in DOMAIN v'
      BY <1>2, <1>3
    <3>2. p.elts[n].nsh_hw_if = h
      BY DEF h
    <3>3. i \notin Live(q)
      BY <1>1, <2>1
    <3>4. /\ p.elts[n].nsh_sw_if = h /\ h \in DOMAIN hw_interfaces
          /\ hw_interfaces[h].nsh /\ hw_interfaces[h].dev_instance = n
      BY <1>1, <3>2 DEF ElementHasTunnel
    <3>5. sw_interfaces'[p.elts[i].nsh_hw_if] = (i \in Live(q))
      <4>1. (i \in Live(q)) = FALSE
        BY <3>3
      <4>2. sw_interfaces'[p.elts[i].nsh_hw_if] = FALSE
        BY <2>1, <3>1, <3>2
      <4> QED
        BY <4>1, <4>2
    <3> QED
      BY <2>1, <3>1, <3>2, <3>3, <3>4, <3>5
  <2>2. CASE i # n
    <3> DEFINE g == p.elts[i].nsh_hw_if
    <3>1. g # h /\ g \in DOMAIN v /\ g \in DOMAIN sw_interfaces
      BY <1>4, <2>2, InterfaceDomains DEF ElementHasTunnel
    <3>2. sw_interfaces'[g] = sw_interfaces[g] /\ v'[g] = v[g] /\ g \in DOMAIN v'
      BY <1>3, <3>1
    <3>3. i \in Live(q) <=> i \in Live(p)
      BY <1>1, <2>2
    <3> QED
      BY <3>2, <3>3 DEF ElementHasTunnel
  <2> QED
    BY <2>1, <2>2
<1>7. TunnelHasElement'
  BY <1>1, <1>3 DEF TunnelHasElement, q
<1>8. StacksInStep'
  <2>1. /\ t \in Seq(Nat \ {0}) /\ p.free \in Seq(Nat) /\ Len(t) = Len(p.free)
    BY DEF InterfaceTypeOK, MapTypeOK, PoolType, StacksInStep
  <2>2. Len(t') = Len(t) + 1 /\ Len(q.free) = Len(p.free) + 1
    BY <1>3, <2>1
  <2>3. ASSUME NEW j \in DOMAIN q.free
        PROVE  t'[j] = p.elts[q.free[j]].nsh_hw_if
    <3>1. CASE j = Len(t) + 1
      <4>1. t'[j] = h /\ q.free[j] = n
        BY <1>3, <2>1, <3>1
      <4> QED
        BY <4>1 DEF h
    <3>2. CASE j # Len(t) + 1
      <4>1. j \in DOMAIN p.free /\ t'[j] = t[j] /\ q.free[j] = p.free[j]
        BY <1>3, <2>1, <2>2, <3>2
      <4> QED
        BY <4>1 DEF StacksInStep
    <3> QED
      BY <3>1, <3>2
  <2> QED
    BY <1>1, <2>1, <2>2, <2>3 DEF StacksInStep, q
<1>9. OnlyTunnelsRoute'
  BY <1>1, <1>2, <1>3 DEF OnlyTunnelsRoute, q
<1> QED
  BY <1>3, <1>5, <1>6, <1>7, <1>8, <1>9

LEMMA CreateHwInterfaceStep ==
  ASSUME MapTypeOK, InterfaceTypeOK, TunnelInv, CreateHwInterface
  PROVE  /\ TunnelInv'
         /\ \A g \in DOMAIN hw_interfaces : hw_interfaces'[g] = hw_interfaces[g]
<1> USE DEF TunnelInv
<1> DEFINE h == Len(hw_interfaces) + 1
           r == [sw_if_index |-> h, dev_instance |-> 0, nsh |-> FALSE]
           p == nsh_mappings
<1>1. /\ h \in Nat \ {0} /\ Len(sw_interfaces) + 1 = h /\ h \notin DOMAIN hw_interfaces
  BY InterfaceDomains DEF OneIndexSpace
<1>2. /\ hw_interfaces' = Append(hw_interfaces, r)
      /\ sw_interfaces' = Append(sw_interfaces, TRUE)
      /\ nsh_mappings' = nsh_mappings /\ fault' = fault
      /\ free_nsh_tunnel_hw_if_indices' = free_nsh_tunnel_hw_if_indices
      /\ tunnel_index_by_sw_if_index' = tunnel_index_by_sw_if_index
  BY <1>1 DEF CreateHwInterface
<1>3. /\ DOMAIN hw_interfaces' = DOMAIN hw_interfaces \cup {h}
      /\ hw_interfaces'[h] = r
      /\ \A g \in DOMAIN hw_interfaces : hw_interfaces'[g] = hw_interfaces[g]
      /\ \A g \in DOMAIN hw_interfaces : sw_interfaces'[g] = sw_interfaces[g]
      /\ Len(sw_interfaces') = Len(hw_interfaces')
  <2> HIDE DEF r
  <2> QED
    BY <1>1, <1>2, InterfaceDomains DEF OneIndexSpace, InterfaceTypeOK
<1>4. r.sw_if_index = h /\ ~r.nsh
  OBVIOUS
<1> HIDE DEF h, r
<1>5. OneIndexSpace'
  BY <1>3, <1>4 DEF OneIndexSpace
<1>6. ElementHasTunnel'
  <2> DEFINE v == tunnel_index_by_sw_if_index
  <2> SUFFICES ASSUME NEW i \in DOMAIN p.elts
               PROVE  LET m == p.elts[i]
                          g == m.nsh_hw_if
                      IN  /\ m.nsh_sw_if = g
                          /\ g \in DOMAIN hw_interfaces'
                          /\ hw_interfaces'[g].nsh
                          /\ hw_interfaces'[g].dev_instance = i
                          /\ sw_interfaces'[g] = (i \in Live(p))
                          /\ g \in DOMAIN v
                          /\ v[g] = IF i \in Live(p) THEN NetKey(m.args) ELSE AllOnes
    BY <1>2 DEF ElementHasTunnel
  <2> QED
    BY <1>3 DEF ElementHasTunnel
<1>7. TunnelHasElement'
  BY <1>2, <1>3, <1>4 DEF TunnelHasElement
<1>8. StacksInStep' /\ OnlyTunnelsRoute'
  BY <1>2 DEF StacksInStep, OnlyTunnelsRoute
<1> QED
  BY <1>2, <1>3, <1>5, <1>6, <1>7, <1>8

\* vnet always has the interface that is taken off the free stack.
LEMMA NeverMissTunnel ==
  ASSUME MapTypeOK, InterfaceTypeOK, TunnelInv
  PROVE  ~MissTunnel
BY TopsBelongTogether DEF MissTunnel, TunnelInv

\* A tunnel keeps its interface record, its dev_instance with it.
TunnelsKept ==
  \A h \in DOMAIN hw_interfaces : hw_interfaces'[h] = hw_interfaces[h]

LEMMA MapCallStep ==
  ASSUME TypeOK, MapIndexSound, TunnelInv,
         NEW a \in MapArgs, NEW adj \in AdjIndex, NEW is_add \in BOOLEAN,
         nsh_add_del_map(is_add, a, adj)
  PROVE  TunnelInv' /\ TunnelsKept
<1>0. MapTypeOK /\ InterfaceTypeOK
  BY DEF TypeOK
<1>1. CASE UNCHANGED mapVars
  BY <1>1 DEF mapVars, TunnelsKept, TunnelInv, OneIndexSpace, ElementHasTunnel,
     TunnelHasElement, StacksInStep, OnlyTunnelsRoute
<1>2. CASE AddMap(a, adj)
  <2>1. ~MapExists(a)
    BY <1>2 DEF AddMap
  <2>2. CASE ReuseTunnel(a, adj)
    BY <1>0, <2>1, <2>2, ReuseTunnelStep DEF TunnelsKept
  <2>3. CASE RegisterTunnel(a, adj)
    BY <1>0, <2>1, <2>3, RegisterTunnelStep DEF TunnelsKept
  <2> QED
    BY <1>0, <1>2, <2>2, <2>3, NeverMissTunnel DEF AddMap
<1>3. CASE DelMap(a)
  <2>1. hw_interfaces' = hw_interfaces
    BY <1>3 DEF DelMap
  <2> QED
    BY <1>0, <1>3, <2>1, DelMapStep DEF TunnelsKept
<1> QED
  BY <1>1, <1>2, <1>3 DEF nsh_add_del_map

-----------------------------------------------------------------------------
\* The specification

LEMMA InitTunnels == Init => TunnelInv
<1> SUFFICES ASSUME Init PROVE TunnelInv
  OBVIOUS
<1> DEFINE r == [sw_if_index |-> 1, dev_instance |-> 0, nsh |-> FALSE]
<1>1. hw_interfaces = << r >> /\ sw_interfaces = << FALSE >> /\ ~fault
  BY DEF Init
<1>2. r.sw_if_index = 1 /\ ~r.nsh
  OBVIOUS
<1> HIDE DEF r
<1>3. /\ Len(hw_interfaces) = 1 /\ Len(sw_interfaces) = 1
      /\ DOMAIN hw_interfaces = {1} /\ hw_interfaces[1] = r
  BY <1>1
<1>4. OneIndexSpace /\ TunnelHasElement
  BY <1>2, <1>3 DEF OneIndexSpace, TunnelHasElement
<1>5. ElementHasTunnel /\ StacksInStep /\ OnlyTunnelsRoute
  BY DEF Init, EmptyPool, ElementHasTunnel, StacksInStep, OnlyTunnelsRoute
<1> QED
  BY <1>1, <1>4, <1>5 DEF TunnelInv

LEMMA NextTunnels ==
  ASSUME ~SubInterfaces, TypeOK, MapIndexSound, TunnelInv, [Next]_vars
  PROVE  TunnelInv' /\ TunnelsKept
<1>1. ASSUME NEW a \in MapArgs, NEW is_add \in BOOLEAN,
             nsh_add_del_map_command_fn(is_add, a)
      PROVE  TunnelInv' /\ TunnelsKept
  <2> DEFINE adj == IF a.next_node = "ETHERNET"
                      THEN nsh_get_adj_by_sw_if_index(a.sw_if_index) ELSE 0
  <2>1. adj \in AdjIndex
    BY DEF AdjIndex
  <2>2. nsh_add_del_map(is_add, a, adj)
    BY <1>1 DEF nsh_add_del_map_command_fn
  <2> HIDE DEF adj
  <2> QED
    BY <2>1, <2>2, MapCallStep
<1>2. ASSUME NEW a \in MapArgs, NEW is_add \in BOOLEAN, NEW adj \in UninitAdj,
             vl_api_nsh_add_del_map_t_handler(is_add, a, adj)
      PROVE  TunnelInv' /\ TunnelsKept
  <2>1. adj \in AdjIndex /\ nsh_add_del_map(is_add, a, adj)
    BY <1>2 DEF AdjIndex, vl_api_nsh_add_del_map_t_handler
  <2> QED
    BY <2>1, MapCallStep
<1>3. CASE CreateHwInterface
  BY <1>3, CreateHwInterfaceStep DEF TypeOK, TunnelsKept
<1>4. ~CreateSubInterface
  BY DEF CreateSubInterface
<1>5. CASE UNCHANGED vars
  BY <1>5 DEF vars, mapVars, TunnelsKept, TunnelInv, OneIndexSpace, ElementHasTunnel,
     TunnelHasElement, StacksInStep, OnlyTunnelsRoute
<1> QED
  BY <1>1, <1>2, <1>3, <1>4, <1>5 DEF Next

LEMMA TunnelInvariant ==
  ASSUME ~SubInterfaces
  PROVE  Spec => [](TableInv /\ TunnelInv)
<1>1. TableInv /\ TunnelInv /\ [Next]_vars => TunnelInv'
  BY NextTunnels DEF TableInv
<1> QED
  BY <1>1, InitTables, NextTables, InitTunnels, PTL DEF Spec

\* Where no one else adds software interfaces, vnet is never asked for a
\* hardware interface it does not have: for all requests and any number of
\* interfaces.
THEOREM NeverFaults ==
  ASSUME ~SubInterfaces
  PROVE  Spec => []NoFault
<1>1. TunnelInv => NoFault
  BY DEF TunnelInv, NoFault
<1> QED
  BY <1>1, TunnelInvariant, PTL

\* No tunnel serves two maps, and each is up or on the free stack according
\* to whether a map owns it: none is lost and none handed out twice, however
\* often maps are added and deleted.
THEOREM TunnelOwnershipCorrect ==
  ASSUME ~SubInterfaces
  PROVE  Spec => []TunnelOwnership
<1>1. ASSUME TableInv, TunnelInv
      PROVE  TunnelOwnership
  <2> DEFINE p == nsh_mappings
             t == free_nsh_tunnel_hw_if_indices
  <2>0. /\ MapTypeOK /\ InterfaceTypeOK /\ OneIndexSpace
        /\ ElementHasTunnel /\ TunnelHasElement /\ StacksInStep
    BY <1>1 DEF TableInv, TypeOK, TunnelInv
  <2>1. ASSUME NEW i \in Live(p), NEW j \in Live(p),
               p.elts[i].nsh_hw_if = p.elts[j].nsh_hw_if
        PROVE  i = j
    BY <2>0, <2>1, TunnelOfOneElement DEF Live
  <2>2. ASSUME NEW h \in DOMAIN hw_interfaces, hw_interfaces[h].nsh
        PROVE  /\ sw_interfaces[hw_interfaces[h].sw_if_index] = (h \in Owned)
               /\ (h \in ToSet(t)) = (h \notin Owned)
    <3> DEFINE i == hw_interfaces[h].dev_instance
    <3>1. i \in DOMAIN p.elts /\ p.elts[i].nsh_hw_if = h
      BY <2>0, <2>2 DEF TunnelHasElement
    <3>2. sw_interfaces[h] = (i \in Live(p)) /\ hw_interfaces[h].sw_if_index = h
      BY <2>0, <3>1 DEF ElementHasTunnel, OneIndexSpace
    <3>3. \A j \in DOMAIN p.elts : p.elts[j].nsh_hw_if = h => j = i
      BY <2>0, <3>1, TunnelOfOneElement
    <3> HIDE DEF i
    <3>4. h \in Owned <=> i \in Live(p)
      BY <3>1, <3>3 DEF Owned, Live
    <3>5. h \in ToSet(t) <=> i \in Freed(p)
      <4>1. DOMAIN t = DOMAIN p.free
        BY <2>0 DEF StacksInStep, InterfaceTypeOK, MapTypeOK, PoolType
      <4>2. \A j \in DOMAIN p.free :
              t[j] = p.elts[p.free[j]].nsh_hw_if /\ p.free[j] \in DOMAIN p.elts
        BY <2>0 DEF StacksInStep, MapTypeOK, PoolOK, Freed, ToSet
      <4>3. \A j \in DOMAIN p.free : t[j] = h <=> p.free[j] = i
        BY <3>1, <3>3, <4>2
      <4> QED
        BY <4>1, <4>3 DEF Freed, ToSet
    <3>6. h \in ToSet(t) <=> h \notin Owned
      BY <3>1, <3>4, <3>5 DEF Live
    <3>7. sw_interfaces[h] = (h \in Owned)
      <4>1. (i \in Live(p)) = (h \in Owned)
        BY <3>4
      <4> QED
        BY <3>2, <4>1
    <3> QED
      BY <3>2, <3>6, <3>7
  <2> QED
    BY <2>1, <2>2 DEF TunnelOwnership
<1> QED
  BY <1>1, TunnelInvariant, PTL

\* A packet sent into the tunnel of a live map is looked up with the key of
\* that map, and an interface no live map owns carries no key: never the key
\* of a map that was deleted.
THEOREM TunnelRoutingCorrect ==
  ASSUME ~SubInterfaces
  PROVE  Spec => []TunnelRouting
<1>1. ASSUME TunnelInv
      PROVE  TunnelRouting
  <2> DEFINE p == nsh_mappings
             v == tunnel_index_by_sw_if_index
  <2>0. ElementHasTunnel /\ OnlyTunnelsRoute
    BY <1>1 DEF TunnelInv
  <2>1. ASSUME NEW i \in Live(p)
        PROVE  /\ p.elts[i].nsh_sw_if \in DOMAIN v
               /\ v[p.elts[i].nsh_sw_if] = NetKey(p.elts[i].args)
    BY <2>0 DEF ElementHasTunnel, Live
  <2>2. ASSUME NEW s \in DOMAIN v, v[s] # AllOnes
        PROVE  \E i \in Live(p) : p.elts[i].nsh_sw_if = s
    <3>1. PICK i \in DOMAIN p.elts : p.elts[i].nsh_hw_if = s
      BY <2>0, <2>2 DEF OnlyTunnelsRoute
    <3>2. p.elts[i].nsh_sw_if = s /\ i \in Live(p)
      BY <2>0, <2>2, <3>1 DEF ElementHasTunnel
    <3> QED
      BY <3>2
  <2> QED
    BY <2>1, <2>2 DEF TunnelRouting
<1> QED
  BY <1>1, TunnelInvariant, PTL

\* The name of a tunnel interface never changes, although each map that takes
\* the tunnel writes it anew.
THEOREM TunnelNamesKept ==
  ASSUME ~SubInterfaces
  PROVE  Spec => TunnelNameStable
<1> DEFINE Kept ==
      \A h \in DOMAIN hw_interfaces : hw_interfaces[h].nsh =>
        hw_interfaces'[h].dev_instance = hw_interfaces[h].dev_instance
<1>1. TableInv /\ TunnelInv /\ [Next]_vars => [Kept]_vars
  BY NextTunnels DEF TableInv, TunnelsKept
<1>2. Spec => [][Kept]_vars
  BY <1>1, TunnelInvariant, PTL DEF Spec
<1> QED
  BY <1>2 DEF TunnelNameStable

\* What the comment in nsh.h says of the free stack is true as long as no one
\* adds software interfaces alone: it holds tunnels of the plug-in only.
THEOREM FreeListCorrect ==
  ASSUME ~SubInterfaces
  PROVE  Spec => []FreeListHoldsTunnels
<1>1. ASSUME TableInv, TunnelInv
      PROVE  FreeListHoldsTunnels
  <2> DEFINE p == nsh_mappings
             t == free_nsh_tunnel_hw_if_indices
  <2>0. /\ MapTypeOK /\ InterfaceTypeOK /\ ElementHasTunnel /\ StacksInStep
    BY <1>1 DEF TableInv, TypeOK, TunnelInv
  <2>1. DOMAIN t = DOMAIN p.free
    BY <2>0 DEF StacksInStep, InterfaceTypeOK, MapTypeOK, PoolType
  <2>2. \A j \in DOMAIN t :
          p.free[j] \in DOMAIN p.elts /\ t[j] = p.elts[p.free[j]].nsh_hw_if
    BY <2>0, <2>1 DEF StacksInStep, MapTypeOK, PoolOK, Freed, ToSet
  <2> QED
    BY <2>0, <2>2 DEF FreeListHoldsTunnels, ElementHasTunnel, ToSet
<1> QED
  BY <1>1, TunnelInvariant, PTL
=============================================================================
