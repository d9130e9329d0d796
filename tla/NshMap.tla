------------------------------- MODULE NshMap -------------------------------
(***************************************************************************)
(* The NSH map table, the proxy sessions and the tunnel interfaces of the  *)
(* NSH plug-in (nsh-plugin/nsh/nsh.c), as the command line and the binary  *)
(* API change them.                                                        *)
(*                                                                         *)
(* A map says what to do with a packet of one service path (nsp) and index *)
(* (nsi).  Adding one takes an element of a pool, enters it in a hash      *)
(* table under its key in network order, and gives it a tunnel interface:  *)
(* one an earlier map has left, if there is one, or else a new one.  For   *)
(* the VXLAN transports a proxy session is made as well.  Both handlers    *)
(* run on the main thread while the workers stand at the barrier, so that  *)
(* each of them is one step.                                               *)
(***************************************************************************)
EXTENDS Integers, VppPool

CONSTANTS
  MapArgs,         \* the nsh_map_t members a request may carry
  AdjPool,         \* the interface of each adjacency of vnet's adj_pool
  UninitAdj,       \* values a member the API handler never sets may have
  SubInterfaces,   \* whether other code of vpp creates sub-interfaces
  MaxSw,           \* bound: software interfaces the environment goes up to
  MaxSessionPool,  \* bound: elements of the session pool before it leaks
  NoValue          \* stands for "no map", "no session" in the abstract tables

Byte == 0 .. 255

\* An nsp_nsi word, most significant byte first: 24 bits of nsp, 8 of nsi.
U32 == [1 .. 4 -> Byte]

AllOnes == << 255, 255, 255, 255 >>
Zero32  == << 0, 0, 0, 0 >>

\* enum nsh_node_next_t, as far as a map may name it.
NextNodes == {"GRE4", "GRE6", "VXLANGPE", "VXLAN4", "VXLAN6", "LISP_GPE",
              "ETHERNET", "DECAP_ETH_INPUT"}

NshActions == {"swap", "push", "pop"}

MapArgsType ==
  [nsp_nsi : U32, mapped_nsp_nsi : U32, nsh_action : NshActions,
   sw_if_index : Nat, rx_sw_if_index : Nat, next_node : NextNodes]

ASSUME MapArgsAssumption == MapArgs \subseteq MapArgsType
ASSUME AdjAssumption == AdjPool \in Seq(Nat) /\ UninitAdj \subseteq Nat
ASSUME NoValueAssumption == NoValue \notin MapArgs /\ NoValue \notin U32
ASSUME BoundAssumption ==
  /\ SubInterfaces \in BOOLEAN
  /\ MaxSw \in Nat
  /\ MaxSessionPool \in Nat

-----------------------------------------------------------------------------
VARIABLES
  nsh_mappings,                   \* pool of maps
  nsh_mapping_by_key,             \* key in network order -> index, 0 if none
  nsh_proxy_sessions,             \* pool of sessions
  nsh_proxy_session_by_key,       \* <<transport, interface>> -> index, 0 if none
  free_nsh_tunnel_hw_if_indices,  \* stack of the tunnels no map owns
  tunnel_index_by_sw_if_index,    \* vector: interface -> key of its map, or ~0
  hw_interfaces,                  \* vnet's hardware interfaces
  sw_interfaces,                  \* vnet's software interfaces: admin up?
  fault,                          \* vnet was asked for an interface it has not
  reply                           \* what the last request was answered

mapVars == << nsh_mappings, nsh_mapping_by_key, free_nsh_tunnel_hw_if_indices,
              tunnel_index_by_sw_if_index, hw_interfaces, sw_interfaces, fault >>
sessionVars == << nsh_proxy_sessions, nsh_proxy_session_by_key >>
vars == << mapVars, sessionVars, reply >>

-----------------------------------------------------------------------------
\* Keys

clib_host_to_net_u32(k) == << k[4], k[3], k[2], k[1] >>

NetKey(a) == clib_host_to_net_u32(a.nsp_nsi)

NetKeys == {NetKey(a) : a \in MapArgs}

Proxied(a) == a.next_node \in {"VXLAN4", "VXLAN6"}

SessionKey(a) == << a.next_node, a.sw_if_index >>

SessionKeys == {SessionKey(a) : a \in {b \in MapArgs : Proxied(b)}}

\* The key of the map a proxied packet is sent on with: the nsi less one.
ProxyNspNsi(a) == clib_host_to_net_u32([a.nsp_nsi EXCEPT ![4] = @ - 1])

\* The first adjacency on an interface, in pool order; 0 when there is none.
nsh_get_adj_by_sw_if_index(sw) == SelectInSeq(AdjPool, LAMBDA if : if = sw)

\* vec_validate_init_empty: grow the vector so that index n exists.
VecValidate(v, n) ==
  [i \in 1 .. (IF n > Len(v) THEN n ELSE Len(v)) |->
     IF i <= Len(v) THEN v[i] ELSE AllOnes]

MapExists(a) == nsh_mapping_by_key[NetKey(a)] # 0
SessionExists(a) == nsh_proxy_session_by_key[SessionKey(a)] # 0

-----------------------------------------------------------------------------
Init ==
  /\ nsh_mappings = EmptyPool
  /\ nsh_mapping_by_key = [k \in NetKeys |-> 0]
  /\ nsh_proxy_sessions = EmptyPool
  /\ nsh_proxy_session_by_key = [k \in SessionKeys |-> 0]
  /\ free_nsh_tunnel_hw_if_indices = << >>
  /\ tunnel_index_by_sw_if_index = << >>
  \* vnet itself makes local0 before any plug-in runs.
  /\ hw_interfaces = << [sw_if_index |-> 1, dev_instance |-> 0, nsh |-> FALSE] >>
  /\ sw_interfaces = << FALSE >>
  /\ fault = FALSE
  /\ reply = [src |-> "none", is_add |-> FALSE, call |-> "map", rv |-> 0,
              map_index |-> 0, session |-> << >>]

-----------------------------------------------------------------------------
(***************************************************************************)
(* nsh_add_del_map: the part of an add that follows the choice of a tunnel *)
(* is EnterMap; the tunnel is a free one or a new one.                     *)
(***************************************************************************)
EnterMap(a, adj, hw, sw) ==
  /\ nsh_mappings' =
       PoolGet(nsh_mappings, [args |-> a, adj_index |-> adj,
                              nsh_hw_if |-> hw, nsh_sw_if |-> sw])
  /\ nsh_mapping_by_key' =
       [nsh_mapping_by_key EXCEPT ![NetKey(a)] = NextIndex(nsh_mappings)]
  /\ tunnel_index_by_sw_if_index' =
       [VecValidate(tunnel_index_by_sw_if_index, sw) EXCEPT ![sw] = NetKey(a)]

-----------------------------------------------------------------------------
(***************************************************************************)
(* Faulty variants of the definitions below: what a slip in the code would *)
(* do.  No specification uses them; a property that holds of the code must *)
(* fail when one of them takes the place of the definition it varies.      *)
(***************************************************************************)
FaultyDelMap(a, route, index, pool) ==
  LET i  == nsh_mapping_by_key[NetKey(a)]
      sw == nsh_mappings.elts[i].nsh_sw_if
  IN  /\ MapExists(a)
      /\ sw_interfaces' = [sw_interfaces EXCEPT ![sw] = FALSE]
      /\ free_nsh_tunnel_hw_if_indices' =
           Append(free_nsh_tunnel_hw_if_indices, sw)
      /\ tunnel_index_by_sw_if_index' =
           [tunnel_index_by_sw_if_index EXCEPT ![sw] = IF route THEN AllOnes ELSE @]
      /\ nsh_mapping_by_key' =
           [nsh_mapping_by_key EXCEPT ![NetKey(a)] = IF index THEN 0 ELSE @]
      /\ nsh_mappings' = IF pool THEN PoolPut(nsh_mappings, i) ELSE nsh_mappings
      /\ UNCHANGED << hw_interfaces, fault >>

\* The key stays in the hash table.
DelMapKeepsKey(a) == FaultyDelMap(a, TRUE, FALSE, TRUE)

\* The element is not given back to the pool.
DelMapKeepsElement(a) == FaultyDelMap(a, TRUE, TRUE, FALSE)

\* The interface keeps the key of the deleted map.
DelMapKeepsRoute(a) == FaultyDelMap(a, FALSE, TRUE, TRUE)

FaultyReuse(a, adj, hw, rest) ==
  LET sw == hw_interfaces[hw].sw_if_index
  IN  /\ hw \in DOMAIN hw_interfaces
      /\ free_nsh_tunnel_hw_if_indices' = rest
      /\ hw_interfaces' =
           [hw_interfaces EXCEPT ![hw].dev_instance = NextIndex(nsh_mappings)]
      /\ sw_interfaces' = [sw_interfaces EXCEPT ![sw] = TRUE]
      /\ EnterMap(a, adj, hw, sw)
      /\ UNCHANGED fault

\* The free tunnel is used and stays on the stack.
ReuseWithoutPop(a, adj) ==
  /\ free_nsh_tunnel_hw_if_indices # << >>
  /\ FaultyReuse(a, adj, Last(free_nsh_tunnel_hw_if_indices),
                 free_nsh_tunnel_hw_if_indices)

\* The tunnel that has been free for longest is used.
ReuseOldest(a, adj) ==
  /\ free_nsh_tunnel_hw_if_indices # << >>
  /\ FaultyReuse(a, adj, Head(free_nsh_tunnel_hw_if_indices),
                 Tail(free_nsh_tunnel_hw_if_indices))

\* The interface's index is taken to be the next one.
RegisterOffByOne(a, adj) ==
  LET hw == Len(hw_interfaces) + 1
      sw == Len(sw_interfaces) + 1
  IN  /\ free_nsh_tunnel_hw_if_indices = << >>
      /\ hw_interfaces' =
           Append(hw_interfaces, [sw_if_index |-> sw, nsh |-> TRUE,
                                  dev_instance |-> NextIndex(nsh_mappings)])
      /\ sw_interfaces' = Append(sw_interfaces, TRUE)
      /\ EnterMap(a, adj, hw, sw + 1)
      /\ UNCHANGED << free_nsh_tunnel_hw_if_indices, fault >>

FaultyAddSession(a) ==
  /\ nsh_proxy_sessions' = PoolGet(nsh_proxy_sessions, ProxyNspNsi(a))
  /\ nsh_proxy_session_by_key' =
       [nsh_proxy_session_by_key EXCEPT ![SessionKey(a)] =
          NextIndex(nsh_proxy_sessions)]

\* The nsi is decremented without a look at it.
AddSessionAnyNsi(a) == ~SessionExists(a) /\ FaultyAddSession(a)

\* A session is added under a key that has one.
AddSessionAgain(a) == a.nsp_nsi[4] # 0 /\ FaultyAddSession(a)

\* The element is freed while its key stays.
DelSessionKeepsKey(a) ==
  /\ SessionExists(a)
  /\ nsh_proxy_sessions' =
       PoolPut(nsh_proxy_sessions, nsh_proxy_session_by_key[SessionKey(a)])
  /\ UNCHANGED nsh_proxy_session_by_key

-----------------------------------------------------------------------------
ReuseTunnel(a, adj) ==
  LET hw == Last(free_nsh_tunnel_hw_if_indices)
      sw == hw_interfaces[hw].sw_if_index
  IN  /\ free_nsh_tunnel_hw_if_indices # << >>
      /\ hw \in DOMAIN hw_interfaces
      /\ free_nsh_tunnel_hw_if_indices' = Front(free_nsh_tunnel_hw_if_indices)
      /\ hw_interfaces' =
           [hw_interfaces EXCEPT ![hw].dev_instance = NextIndex(nsh_mappings)]
      /\ sw_interfaces' = [sw_interfaces EXCEPT ![sw] = TRUE]
      /\ EnterMap(a, adj, hw, sw)
      /\ UNCHANGED fault

RegisterTunnel(a, adj) ==
  LET hw == Len(hw_interfaces) + 1
      sw == Len(sw_interfaces) + 1
  IN  /\ free_nsh_tunnel_hw_if_indices = << >>
      /\ hw_interfaces' =
           Append(hw_interfaces, [sw_if_index |-> sw, nsh |-> TRUE,
                                  dev_instance |-> NextIndex(nsh_mappings)])
      /\ sw_interfaces' = Append(sw_interfaces, TRUE)
      /\ EnterMap(a, adj, hw, sw)
      /\ UNCHANGED << free_nsh_tunnel_hw_if_indices, fault >>

\* The index on the free stack is not one of a hardware interface: vnet reads
\* past the end of its vector.  Nothing is said of what happens afterwards.
MissTunnel ==
  /\ free_nsh_tunnel_hw_if_indices # << >>
  /\ Last(free_nsh_tunnel_hw_if_indices) \notin DOMAIN hw_interfaces
  /\ fault' = TRUE
  /\ UNCHANGED << nsh_mappings, nsh_mapping_by_key, free_nsh_tunnel_hw_if_indices,
                  tunnel_index_by_sw_if_index, hw_interfaces, sw_interfaces >>

AddMap(a, adj) ==
  /\ ~MapExists(a)
  /\ ReuseTunnel(a, adj) \/ RegisterTunnel(a, adj) \/ MissTunnel

\* The index pushed on the stack of hardware interfaces is nsh_sw_if.
DelMap(a) ==
  LET i  == nsh_mapping_by_key[NetKey(a)]
      sw == nsh_mappings.elts[i].nsh_sw_if
  IN  /\ MapExists(a)
      /\ sw_interfaces' = [sw_interfaces EXCEPT ![sw] = FALSE]
      /\ free_nsh_tunnel_hw_if_indices' = Append(free_nsh_tunnel_hw_if_indices, sw)
      /\ tunnel_index_by_sw_if_index' =
           [tunnel_index_by_sw_if_index EXCEPT ![sw] = AllOnes]
      /\ nsh_mapping_by_key' = [nsh_mapping_by_key EXCEPT ![NetKey(a)] = 0]
      /\ nsh_mappings' = PoolPut(nsh_mappings, i)
      /\ UNCHANGED << hw_interfaces, fault >>

MapRv(is_add, a) ==
  CASE is_add /\ MapExists(a)   -> -1
    [] ~is_add /\ ~MapExists(a) -> -2
    [] OTHER                    -> 0

nsh_add_del_map(is_add, a, adj) ==
  \/ MapRv(is_add, a) # 0 /\ UNCHANGED mapVars
  \/ is_add /\ AddMap(a, adj)
  \/ ~is_add /\ DelMap(a)

-----------------------------------------------------------------------------
(***************************************************************************)
(* nsh_add_del_proxy_session.  The pool element is taken before the nsi is *)
(* looked at, and not given back when it is zero: no key leads to it, and  *)
(* its bytes are the zeros of the memset.                                  *)
(***************************************************************************)
AddSession(a) ==
  /\ ~SessionExists(a)
  /\ a.nsp_nsi[4] # 0
  /\ nsh_proxy_sessions' = PoolGet(nsh_proxy_sessions, ProxyNspNsi(a))
  /\ nsh_proxy_session_by_key' =
       [nsh_proxy_session_by_key EXCEPT ![SessionKey(a)] =
          NextIndex(nsh_proxy_sessions)]

LeakSession(a) ==
  /\ ~SessionExists(a)
  /\ a.nsp_nsi[4] = 0
  /\ Len(nsh_proxy_sessions.elts) < MaxSessionPool
  /\ nsh_proxy_sessions' = PoolGet(nsh_proxy_sessions, Zero32)
  /\ UNCHANGED nsh_proxy_session_by_key

DelSession(a) ==
  /\ SessionExists(a)
  /\ nsh_proxy_sessions' =
       PoolPut(nsh_proxy_sessions, nsh_proxy_session_by_key[SessionKey(a)])
  /\ nsh_proxy_session_by_key' =
       [nsh_proxy_session_by_key EXCEPT ![SessionKey(a)] = 0]

SessionRv(is_add, a) ==
  CASE is_add /\ (SessionExists(a) \/ a.nsp_nsi[4] = 0) -> -1
    [] ~is_add /\ ~SessionExists(a)                     -> -2
    [] OTHER                                            -> 0

nsh_add_del_proxy_session(is_add, a) ==
  \/ is_add = SessionExists(a) /\ UNCHANGED sessionVars
  \/ is_add /\ (AddSession(a) \/ LeakSession(a))
  \/ ~is_add /\ DelSession(a)

-----------------------------------------------------------------------------
\* map_index is written through the pointer only when the call succeeds.
MapIndexOut(is_add, a) ==
  IF is_add /\ ~MapExists(a) THEN NextIndex(nsh_mappings) ELSE 0

\* The command line stops at the first call that fails.
nsh_add_del_map_command_fn(is_add, a) ==
  LET adj     == IF a.next_node = "ETHERNET"
                   THEN nsh_get_adj_by_sw_if_index(a.sw_if_index) ELSE 0
      session == Proxied(a) /\ MapRv(is_add, a) = 0
  IN  /\ ~fault
      /\ nsh_add_del_map(is_add, a, adj)
      /\ IF session THEN nsh_add_del_proxy_session(is_add, a)
                    ELSE UNCHANGED sessionVars
      /\ reply' = [src |-> "cli", is_add |-> is_add,
                   call |-> IF session THEN "session" ELSE "map",
                   rv |-> IF session THEN SessionRv(is_add, a) ELSE MapRv(is_add, a),
                   map_index |-> MapIndexOut(is_add, a),
                   session |-> IF Proxied(a) THEN SessionKey(a) ELSE << >>]

\* The API makes both calls whatever the first returns, answers with the
\* return value of the second, and never sets adj_index.
vl_api_nsh_add_del_map_t_handler(is_add, a, adj) ==
  /\ ~fault
  /\ nsh_add_del_map(is_add, a, adj)
  /\ IF Proxied(a) THEN nsh_add_del_proxy_session(is_add, a)
                   ELSE UNCHANGED sessionVars
  /\ reply' = [src |-> "api", is_add |-> is_add,
               call |-> IF Proxied(a) THEN "session" ELSE "map",
               rv |-> IF Proxied(a) THEN SessionRv(is_add, a) ELSE MapRv(is_add, a),
               map_index |-> MapIndexOut(is_add, a),
               session |-> IF Proxied(a) THEN SessionKey(a) ELSE << >>]

\* Other code of vpp brings up an interface of its own.
CreateHwInterface ==
  /\ ~fault
  /\ Len(sw_interfaces) < MaxSw
  /\ hw_interfaces' =
       Append(hw_interfaces, [sw_if_index |-> Len(sw_interfaces) + 1,
                              dev_instance |-> 0, nsh |-> FALSE])
  /\ sw_interfaces' = Append(sw_interfaces, TRUE)
  /\ UNCHANGED << nsh_mappings, nsh_mapping_by_key, free_nsh_tunnel_hw_if_indices,
                  tunnel_index_by_sw_if_index, fault, sessionVars, reply >>

\* Other code of vpp adds a sub-interface: a software interface alone.
CreateSubInterface ==
  /\ ~fault
  /\ SubInterfaces
  /\ Len(sw_interfaces) < MaxSw
  /\ sw_interfaces' = Append(sw_interfaces, TRUE)
  /\ UNCHANGED << nsh_mappings, nsh_mapping_by_key, free_nsh_tunnel_hw_if_indices,
                  tunnel_index_by_sw_if_index, hw_interfaces, fault, sessionVars,
                  reply >>

Next ==
  \/ \E a \in MapArgs, is_add \in BOOLEAN :
       \/ nsh_add_del_map_command_fn(is_add, a)
       \/ \E adj \in UninitAdj : vl_api_nsh_add_del_map_t_handler(is_add, a, adj)
  \/ CreateHwInterface
  \/ CreateSubInterface

Spec == Init /\ [][Next]_vars

-----------------------------------------------------------------------------
\* Properties

\* Where an adjacency index may come from.
AdjIndex ==
  {0} \cup UninitAdj
    \cup {nsh_get_adj_by_sw_if_index(a.sw_if_index) : a \in MapArgs}

MapType == [args : MapArgs, adj_index : AdjIndex,
            nsh_hw_if : Nat \ {0}, nsh_sw_if : Nat \ {0}]

HwType == [sw_if_index : Nat \ {0}, dev_instance : Nat, nsh : BOOLEAN]

MapTypeOK ==
  /\ nsh_mappings \in PoolType(MapType)
  /\ PoolOK(nsh_mappings)
  /\ nsh_mapping_by_key \in [NetKeys -> Nat]

InterfaceTypeOK ==
  /\ free_nsh_tunnel_hw_if_indices \in Seq(Nat \ {0})
  /\ tunnel_index_by_sw_if_index \in Seq(U32)
  /\ hw_interfaces \in Seq(HwType)
  /\ sw_interfaces \in Seq(BOOLEAN)
  /\ fault \in BOOLEAN

SessionTypeOK ==
  /\ nsh_proxy_sessions \in PoolType(U32)
  /\ PoolOK(nsh_proxy_sessions)
  /\ nsh_proxy_session_by_key \in [SessionKeys -> Nat]

ReplyTypeOK ==
  reply \in [src : {"none", "cli", "api"}, is_add : BOOLEAN,
             call : {"map", "session"}, rv : {0, -1, -2}, map_index : Nat,
             session : SessionKeys \cup {<< >>}]

\* Every variable keeps its type, and the pools their shape.  The session
\* words are bytes: the nsi, less one, never goes below zero.
TypeOK == MapTypeOK /\ InterfaceTypeOK /\ SessionTypeOK /\ ReplyTypeOK

\* The hash table and the pool of maps agree: what a key leads to is a live
\* element that holds this very key (in host order), and every live element
\* is reached from its own key.  No element is freed while a key still leads
\* to it, and none is reused under the key of the map it held before.
MapIndexSound ==
  /\ \A k \in NetKeys : nsh_mapping_by_key[k] # 0 =>
       /\ nsh_mapping_by_key[k] \in Live(nsh_mappings)
       /\ NetKey(nsh_mappings.elts[nsh_mapping_by_key[k]].args) = k
  /\ \A i \in Live(nsh_mappings) :
       nsh_mapping_by_key[NetKey(nsh_mappings.elts[i].args)] = i

\* The session table leads to live elements only, never twice to the same
\* one, and a live element no key leads to (an add with an nsi of zero left
\* it) holds nothing but zeros.
SessionIndexSound ==
  /\ \A s \in SessionKeys : nsh_proxy_session_by_key[s] # 0 =>
       nsh_proxy_session_by_key[s] \in Live(nsh_proxy_sessions)
  /\ \A s, t \in SessionKeys :
       nsh_proxy_session_by_key[s] = nsh_proxy_session_by_key[t]
         => s = t \/ nsh_proxy_session_by_key[s] = 0
  /\ \A i \in Live(nsh_proxy_sessions) :
       \/ \E s \in SessionKeys : nsh_proxy_session_by_key[s] = i
       \/ nsh_proxy_sessions.elts[i] = Zero32

Owned == {nsh_mappings.elts[i].nsh_hw_if : i \in Live(nsh_mappings)}

\* No tunnel interface serves two maps; a tunnel is up exactly as long as a
\* map owns it, and waits on the free stack exactly when none does, so that
\* no tunnel is ever lost or handed out twice.
TunnelOwnership ==
  /\ \A i, j \in Live(nsh_mappings) :
       nsh_mappings.elts[i].nsh_hw_if = nsh_mappings.elts[j].nsh_hw_if => i = j
  /\ \A h \in DOMAIN hw_interfaces : hw_interfaces[h].nsh =>
       /\ sw_interfaces[hw_interfaces[h].sw_if_index] = (h \in Owned)
       /\ (h \in ToSet(free_nsh_tunnel_hw_if_indices)) = (h \notin Owned)

\* A packet sent into a tunnel interface is looked up with the key of the
\* live map that owns this interface; an interface that was handed from a
\* deleted map to a new one never carries the old key, and one that no map
\* owns carries the ~0 of "no map".
TunnelRouting ==
  /\ \A i \in Live(nsh_mappings) :
       LET m == nsh_mappings.elts[i]
       IN  /\ m.nsh_sw_if \in DOMAIN tunnel_index_by_sw_if_index
           /\ tunnel_index_by_sw_if_index[m.nsh_sw_if] = NetKey(m.args)
  /\ \A s \in DOMAIN tunnel_index_by_sw_if_index :
       \/ tunnel_index_by_sw_if_index[s] = AllOnes
       \/ \E i \in Live(nsh_mappings) : nsh_mappings.elts[i].nsh_sw_if = s

\* vnet is never asked for a hardware interface it does not have.
NoFault == ~fault

\* The name of a tunnel interface ("nsh_tunnel" and its dev_instance) is
\* rewritten each time a map takes it, yet never changes: the stack of free
\* tunnels and the stack of free map elements move in step.
TunnelNameStable ==
  [][\A h \in DOMAIN hw_interfaces : hw_interfaces[h].nsh =>
       hw_interfaces'[h].dev_instance = hw_interfaces[h].dev_instance]_vars

\* The two tables as the rest of the plug-in sees them, through the hash
\* table and the pool.
MapTable ==
  [k \in NetKeys |->
     IF nsh_mapping_by_key[k] = 0 THEN NoValue
     ELSE nsh_mappings.elts[nsh_mapping_by_key[k]].args]

SessionTable ==
  [s \in SessionKeys |->
     IF nsh_proxy_session_by_key[s] = 0 THEN NoValue
     ELSE nsh_proxy_sessions.elts[nsh_proxy_session_by_key[s]]]

MapTbl == INSTANCE KeyedTable WITH
  Key <- NetKeys, Value <- MapArgs, None <- NoValue, table <- MapTable

SessionTbl == INSTANCE KeyedTable WITH
  Key <- SessionKeys, None <- NoValue, table <- SessionTable,
  Value <- {ProxyNspNsi(a) : a \in {b \in MapArgs : b.nsp_nsi[4] # 0}}

\* Pool, hash table and tunnels together behave as a table of maps: no add or
\* delete, through reuse of elements and interfaces, ever changes what
\* another key leads to.
MapsRefineTable == MapTbl!Spec

\* The same of the proxy sessions, leaked elements notwithstanding.
SessionsRefineTable == SessionTbl!Spec

-----------------------------------------------------------------------------
\* What the documentation and the comments say and the code does not do.

\* "Free vlib hw_if_indices" (nsh.h:128): what is on the free stack is a
\* hardware interface, and one of the plug-in's own.
FreeListHoldsTunnels ==
  \A h \in ToSet(free_nsh_tunnel_hw_if_indices) :
    h \in DOMAIN hw_interfaces /\ hw_interfaces[h].nsh
=============================================================================
