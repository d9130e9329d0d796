----------------------------- MODULE IoamTransit -----------------------------
(***************************************************************************)
(* Where in-band OAM is recorded on packets that pass through              *)
(* (nsh-plugin/nsh-md2-ioam/nsh_md2_ioam.c): the destinations it is turned *)
(* on for, and the output feature nsh-md2-ioam-encap-transit on the        *)
(* interfaces their routes lead to.  When a route changes, the fib calls   *)
(* back and the feature is moved.                                          *)
(*                                                                         *)
(* The fib and the feature arcs are not part of this repository: egress is *)
(* what fib_table_lookup and fib_path_get_resolving_interface answer for a *)
(* destination, feature how often vnet_feature_enable_disable has been     *)
(* told to enable an interface and not yet to disable it.  vnet counts:    *)
(* the feature is on as long as the count is above 0, and a disable at 0   *)
(* changes nothing.  Interfaces are numbered from 1; 0 is the ~0 of a      *)
(* route without an interface.                                             *)
(*                                                                         *)
(* TRANSIT_UNIT_TEST_HACK is defined in every build, so that one address   *)
(* stands for every IPv4 destination that is asked for.                    *)
(***************************************************************************)
EXTENDS Integers, FiniteSetsExt, VppPool

CONSTANTS
  Dest,           \* IPv4 destinations
  HackDest,       \* the one TRANSIT_UNIT_TEST_HACK puts in place of any other
  Fib,            \* routing tables; 0 is the one routes are looked up in
  NumInterfaces,
  MaxChildren,    \* bound: how often a destination is attached to its route
  MaxRefs,        \* bound: length of bool_ref_by_sw_if_index
  MaxEnables,     \* bound: how often the feature is enabled on an interface
  NoFib           \* stands for "not enabled" in the abstract table

ASSUME TransitAssumption ==
  /\ HackDest \in Dest
  /\ 0 \in Fib
  /\ NumInterfaces \in Nat /\ MaxChildren \in Nat /\ MaxRefs \in Nat
  /\ MaxEnables \in Nat
  /\ NoFib \notin Fib

Interface == 1 .. NumInterfaces
NoInterface == 0
Unused == 255   \* (u8) ~0

VARIABLES
  dst_tunnels,              \* pool of destinations
  dst_by_ip4,               \* destination -> index, 0 if none
  bool_ref_by_sw_if_index,  \* interface -> 1 if in use
  feature,                  \* interface -> how often the feature is enabled
  egress,                   \* the interface each destination is routed to
  children,                 \* how often a destination is attached to its route
  asked,                    \* history: did the last IPv4 request ask to enable
  missed,                   \* history: a route changed and nobody was told
  fault                     \* memory outside of the vector was written

tableVars == << dst_tunnels, dst_by_ip4 >>
vars == << tableVars, bool_ref_by_sw_if_index, feature, egress, children,
           asked, missed, fault >>

Enabled == {dst_tunnels.elts[i].dst : i \in Live(dst_tunnels)}

\* The address a request is about, whatever it says.
Address(ip) == HackDest

-----------------------------------------------------------------------------
Init ==
  /\ dst_tunnels = EmptyPool
  /\ dst_by_ip4 = [d \in Dest |-> 0]
  /\ bool_ref_by_sw_if_index = << >>
  /\ feature = [i \in Interface |-> 0]
  /\ egress \in [Dest -> Interface]
  /\ children = [x \in Fib \X Dest |-> 0]
  /\ asked = FALSE
  /\ missed = FALSE
  /\ fault = "none"

\* vec_validate_init_empty for an interface, and a 1 for it.
Referred(refs, i) ==
  [j \in 1 .. Max({Len(refs), i}) |->
     IF j = i THEN 1 ELSE IF j \in DOMAIN refs THEN refs[j] ELSE Unused]

\* vnet_feature_enable_disable, n times to enable an interface, or n times to
\* disable each of a set.
EnabledMore(on, i, n) == [j \in Interface |-> IF j = i THEN on[j] + n ELSE on[j]]
Disabled(on, I, n) ==
  [j \in Interface |-> IF j \in I THEN Max({on[j] - n, 0}) ELSE on[j]]

\* nsh_md2_ioam_clear_output_feature_on_select_intfs.
Selected(refs) == {j \in DOMAIN refs : refs[j] = Unused}

\* Is iOAM recorded on a packet for this destination: it is if it meets the node
\* on its way out and the node finds its destination.
nsh_md2_ioam_encap_transit(d) ==
  /\ dst_by_ip4[d] # 0
  /\ egress[d] # NoInterface
  /\ feature[egress[d]] > 0

-----------------------------------------------------------------------------
\* Faulty: the destination is attached in the table routes are looked up in.
EnterDestDefaultFib(d, fib) ==
  IF dst_by_ip4[d] # 0
    THEN UNCHANGED << tableVars, children >>
    ELSE /\ dst_tunnels' = PoolGet(dst_tunnels, [dst |-> d, outer_fib_index |-> fib])
         /\ dst_by_ip4' = [dst_by_ip4 EXCEPT ![d] = NextIndex(dst_tunnels)]
         /\ children' = [children EXCEPT ![<< 0, d >>] = @ + 1]

\* Faulty: a destination that is there is entered again.
EnterDestAgain(d, fib) ==
  /\ dst_tunnels' = PoolGet(dst_tunnels, [dst |-> d, outer_fib_index |-> fib])
  /\ dst_by_ip4' = [dst_by_ip4 EXCEPT ![d] = NextIndex(dst_tunnels)]
  /\ children' = [children EXCEPT ![<< fib, d >>] = @ + 1]

\* A destination that is there keeps the routing table it was first given.
EnterDest(d, fib) ==
  IF dst_by_ip4[d] # 0
    THEN UNCHANGED << tableVars, children >>
    ELSE /\ dst_tunnels' = PoolGet(dst_tunnels, [dst |-> d, outer_fib_index |-> fib])
         /\ dst_by_ip4' = [dst_by_ip4 EXCEPT ![d] = NextIndex(dst_tunnels)]
         /\ children' = [children EXCEPT ![<< fib, d >>] = @ + 1]

\* "set nsh-md2-ioam-transit dst-ip": nsh_md2_ioam_enable_disable_for_dest adds.
\* The feature is enabled once more for a destination that is there already.  A
\* route without an interface has the vector grow to 2^32 elements.
EnableDest(ip, fib) ==
  LET d == Address(ip)
      i == egress[d]
  IN  /\ fault = "none"
      /\ dst_by_ip4[d] = 0 => children[<< fib, d >>] < MaxChildren
      /\ i # NoInterface => feature[i] < MaxEnables
      /\ asked' = TRUE
      /\ UNCHANGED << egress, missed >>
      /\ IF i = NoInterface
           THEN /\ fault' = "no interface"
                /\ UNCHANGED << tableVars, children, bool_ref_by_sw_if_index, feature >>
           ELSE /\ feature' = EnabledMore(feature, i, 1)
                /\ bool_ref_by_sw_if_index' = Referred(bool_ref_by_sw_if_index, i)
                /\ EnterDest(d, fib)
                /\ UNCHANGED fault

\* Faulty: the key is left in the hash table.
RemoveDestKeepsKey(d) ==
  IF dst_by_ip4[d] = 0
    THEN UNCHANGED tableVars
    ELSE /\ dst_tunnels' = PoolPut(dst_tunnels, dst_by_ip4[d])
         /\ UNCHANGED dst_by_ip4

\* The destination goes; its attachment to the route stays.
RemoveDest(d) ==
  IF dst_by_ip4[d] = 0
    THEN UNCHANGED tableVars
    ELSE /\ dst_tunnels' = PoolPut(dst_tunnels, dst_by_ip4[d])
         /\ dst_by_ip4' = [dst_by_ip4 EXCEPT ![d] = 0]

\* The rest of nsh_md2_ioam_disable_for_dest: the interface of the destinations
\* that are left is claimed once for each of them, and what nobody uses is
\* disabled once.
Release(refs) ==
  LET i      == egress[HackDest]
      others == Cardinality(Live(dst_tunnels'))
      all    == IF others = 0 THEN refs ELSE Referred(refs, i)
  IN  IF others > 0 /\ i = NoInterface
        THEN /\ fault' = "no interface"
             /\ UNCHANGED << bool_ref_by_sw_if_index, feature >>
        ELSE /\ bool_ref_by_sw_if_index' = all
             /\ feature' = Disabled(EnabledMore(feature, i, others), Selected(all), 1)
             /\ UNCHANGED fault

\* The interface is given up before anyone asks whether the destination was
\* enabled, and whether the vector is that long.
DisableDest(ip) ==
  LET d == Address(ip)
      i == egress[d]
  IN  /\ fault = "none"
      /\ asked' = FALSE
      /\ UNCHANGED << egress, children, missed >>
      /\ IF i \notin DOMAIN bool_ref_by_sw_if_index
           THEN /\ fault' = "beyond the vector"
                /\ UNCHANGED << tableVars, bool_ref_by_sw_if_index, feature >>
           ELSE /\ RemoveDest(d)
                /\ Release([bool_ref_by_sw_if_index EXCEPT ![i] = Unused])

\* An IPv6 destination is never there, but the rest is done.
DisableIp6Dest ==
  /\ fault = "none"
  /\ \A i \in Interface : feature[i] < MaxEnables
  /\ UNCHANGED << tableVars, egress, children, asked, missed >>
  /\ Release(bool_ref_by_sw_if_index)

-----------------------------------------------------------------------------
\* Faulty: a vector of the same length is made, but nothing is enabled.
RefreshClears(n) ==
  /\ bool_ref_by_sw_if_index' =
       [j \in 1 .. Len(bool_ref_by_sw_if_index) + n |-> Unused]
  /\ feature' = Disabled(feature, Interface, n)
  /\ missed' = FALSE
  /\ UNCHANGED fault

\* nsh_md2_ioam_refresh_output_feature_on_all_dest, n > 0 times over: each time
\* every interface is disabled once, a vector one longer is made, and the
\* interface the destinations leave by is claimed once for each of them.  From
\* the second time on it has what the time before claimed, and its claim has the
\* vector reach it.  Without a destination nothing is done.
Refresh(n) ==
  LET i     == egress'[HackDest]
      dests == Cardinality(Live(dst_tunnels))
      size  == Max({Len(bool_ref_by_sw_if_index) + 1, i}) + n - 1
  IN  IF dests = 0
        THEN UNCHANGED << bool_ref_by_sw_if_index, feature, missed, fault >>
        ELSE /\ missed' = FALSE
             /\ IF i = NoInterface
                  THEN /\ fault' = "no interface"
                       /\ UNCHANGED << bool_ref_by_sw_if_index, feature >>
                  ELSE /\ bool_ref_by_sw_if_index' =
                            [j \in 1 .. size |-> IF j = i THEN 1 ELSE Unused]
                       /\ feature' =
                            [Disabled(feature, Interface, n) EXCEPT
                               ![i] = Max({feature[i] - 1, 0}) + dests + (n - 1) * (dests - 1)]
                       /\ UNCHANGED fault

\* A route changes, and nsh_md2_ioam_back_walk is called for every attachment
\* to it, those of destinations long disabled included.
RouteChange(fib, d, i) ==
  LET n == children[<< fib, d >>]
  IN  /\ fault = "none"
      /\ Len(bool_ref_by_sw_if_index) + n <= MaxRefs
      /\ egress' = IF fib = 0 THEN [egress EXCEPT ![d] = i] ELSE egress
      /\ UNCHANGED << tableVars, children, asked >>
      /\ IF n > 0
           THEN Refresh(n)
           ELSE /\ missed' = (missed \/ (d \in Enabled /\ egress' # egress))
                /\ UNCHANGED << bool_ref_by_sw_if_index, feature, fault >>

Next ==
  \/ \E d \in Dest, fib \in Fib : EnableDest(d, fib)
  \/ \E d \in Dest : DisableDest(d)
  \/ DisableIp6Dest
  \/ \E fib \in Fib, d \in Dest, i \in Interface \cup {NoInterface} : RouteChange(fib, d, i)

Spec == Init /\ [][Next]_vars

-----------------------------------------------------------------------------
\* Properties

TunnelType == [dst : Dest, outer_fib_index : Fib]

\* Every variable keeps its type; pool and hash table agree.
TypeOK ==
  /\ dst_tunnels \in PoolType(TunnelType) /\ PoolOK(dst_tunnels)
  /\ dst_by_ip4 \in [Dest -> 0 .. Len(dst_tunnels.elts)]
  /\ bool_ref_by_sw_if_index \in Seq({1, Unused})
  /\ feature \in [Interface -> Nat]
  /\ egress \in [Dest -> Interface \cup {NoInterface}]
  /\ children \in [Fib \X Dest -> 0 .. MaxChildren]
  /\ asked \in BOOLEAN
  /\ missed \in BOOLEAN
  /\ fault \in {"none", "no interface", "beyond the vector"}

\* Whatever is enabled and disabled, however often, and wherever the route moves,
\* iOAM is recorded on packets for the one address all requests are about exactly
\* if the last IPv4 request asked to enable -- for whichever destination -- and
\* on no others that leave by the same interface: what refreshes, disables and
\* IPv6 requests take from the feature is never the last of what a destination
\* needs, and the vector knows its interface, so that a later disable finds what
\* to clear.  Unless a route has changed that the fib told nobody of.
RecordsOnEnabled ==
  fault = "none" /\ ~missed =>
    /\ \A d \in Dest : nsh_md2_ioam_encap_transit(d) = (asked /\ d = HackDest)
    /\ asked => /\ egress[HackDest] \in DOMAIN bool_ref_by_sw_if_index
                /\ bool_ref_by_sw_if_index[egress[HackDest]] = 1

\* Every enabled destination hears of changes to the route in its own table.
RouteHeard ==
  \A i \in Live(dst_tunnels) :
    children[<< dst_tunnels.elts[i].outer_fib_index, dst_tunnels.elts[i].dst >>] > 0

\* Disabling writes outside the vector only for a destination that was not
\* enabled; for one that was, the vector has kept up with its route.
DisableInBounds ==
  [][fault' = "beyond the vector" /\ fault = "none" /\ ~missed =>
       /\ HackDest \notin Enabled
       /\ egress[HackDest] \notin DOMAIN bool_ref_by_sw_if_index]_vars

DestTable ==
  [d \in Dest |-> IF dst_by_ip4[d] = 0 THEN NoFib
                  ELSE dst_tunnels.elts[dst_by_ip4[d]].outer_fib_index]

DestTbl == INSTANCE KeyedTable WITH
  Key <- Dest, Value <- Fib, None <- NoFib, table <- DestTable

\* Pool and hash table of destinations behave as a table of the routing table
\* each was enabled with.
DestsRefineTable == DestTbl!Spec
=============================================================================
