----------------------------- MODULE MCNshInput -----------------------------
(***************************************************************************)
(* Instances of NshInput: a forwarder with one map of each action, and the *)
(* packets that come to its nodes.                                         *)
(***************************************************************************)
EXTENDS NshInput, TLC

CONSTANTS trace, trace2, unknown, local, vnf, tunnel, sff

MCPath == {"swapped", "swapped1", "pushed", "popped", "dangling", "unmapped",
           "shared", "out2", "out1", "out3", "out4"}
MCInterface == {local, vnf, tunnel, sff}
\* Traces of two sizes.
MCOption == {trace, trace2, unknown}
MCRegistered == {trace, trace2}
MCOptionBytes ==
  [o \in MCOption |-> IF o = trace THEN 16 ELSE IF o = trace2 THEN 24 ELSE 8]

M(action, mapped, next) ==
  [nsh_action |-> action, mapped |-> mapped, next_node |-> next,
   sw_if_index |-> sff, rx_sw_if_index |-> local, nsh_sw_if |-> tunnel,
   adj_index |-> IF next = "nsh-eth-output" THEN 2 ELSE 0]

MCMaps ==
  "swapped"  :> M("swap", "out2", "nsh-eth-output") @@
  "swapped1" :> M("swap", "out1", "gre4-input") @@
  "pushed"   :> M("push", "out3", "vxlan4-encap") @@
  "popped"   :> [M("pop", "out1", "ethernet-input") EXCEPT !.nsh_sw_if = vnf] @@
  "dangling" :> [M("swap", "out4", "nsh-eth-output") EXCEPT !.adj_index = 1]

\* With a map that pushes an entry another one swaps to, and an adjacency that is
\* whatever the API handler found on its stack.
MCSharedMaps ==
  MCMaps @@ "shared" :> [M("push", "out2", "nsh-eth-output") EXCEPT !.adj_index = 0]

MCEntryArgs ==
  "out2" :> [md_type |-> 2, ttl |-> 63, tlvs |-> << trace >>] @@
  "out1" :> [md_type |-> 1, ttl |-> 63, tlvs |-> << >>] @@
  "out3" :> [md_type |-> 2, ttl |-> 63, tlvs |-> << unknown, trace >>]

\* The command line finds the first adjacency of an interface, and never the
\* second.  "dangling" is a map of the API, with another interface's.
MCAdjacency ==
  << [sw_if_index |-> local, data_bytes |-> 14, max_l3_packet_bytes |-> 1500, ip4 |-> FALSE],
     [sw_if_index |-> sff, data_bytes |-> 18, max_l3_packet_bytes |-> 40, ip4 |-> TRUE],
     [sw_if_index |-> sff, data_bytes |-> 14, max_l3_packet_bytes |-> 1500, ip4 |-> TRUE] >>

MCTunnelIndex == [i \in MCInterface |-> IF i = tunnel THEN "pushed" ELSE NoPath]
MCSessions == vnf :> "pushed"

Either == BOOLEAN
Loaded == {TRUE}

Payload(byte) ==
  [nsh |-> FALSE, md_type |-> byte, ttl |-> 0, path |-> NoPath, bytes |-> 14,
   length |-> 0, tlvs |-> << >>]
Plain(byte, class, rx, tx) ==
  [hdrs |-> << Payload(byte) >>, class |-> class, rx |-> rx, tx |-> tx, adj |-> 0]

Nsh(md, ttl, path, tlvs) ==
  LET bytes == IF md = 1 THEN 24 ELSE 8 + TlvBytes(tlvs)
  IN  [hdrs |-> << [nsh |-> TRUE, md_type |-> md, ttl |-> ttl, path |-> path,
                    bytes |-> bytes, length |-> bytes, tlvs |-> tlvs], Payload(0) >>,
       class |-> NoPath, rx |-> sff, tx |-> local, adj |-> 0]

\* What nsh-input hands to iOAM export, which hands it to nsh-pop.
Exported(ttl, tlvs) == [Nsh(2, ttl, "popped", tlvs) EXCEPT !.rx = local, !.tx = sff]

\* What vnet hands to the nodes of an adjacency.
Adjacent(i, p) == [p EXCEPT !.adj = i, !.tx = MCAdjacency[i].sw_if_index]

\* What a chain brings: md2 packets for the md2 entry, md1 packets for the
\* md1 entry, options known and unknown, paths with and without a map.
SteadyArrivals ==
  "nsh-input" :>
    {Nsh(2, 9, "swapped", << trace2, unknown, trace >>), Nsh(2, 9, "swapped", << >>),
     Nsh(1, 9, "swapped1", << >>), Nsh(1, 9, "popped", << >>),
     Nsh(2, 9, "popped", << trace >>), Nsh(2, 9, "popped", << unknown >>),
     Nsh(1, 9, "unmapped", << >>), Nsh(1, 9, "dangling", << >>),
     Nsh(1, 1, "swapped1", << >>), Nsh(1, 0, "popped", << >>)} @@
  "nsh-classifier" :>
    {Plain(0, "pushed", local, local), Plain(0, "unmapped", local, local)} @@
  "nsh-aware-vnf-proxy" :> {Plain(0, NoPath, local, tunnel), Plain(0, NoPath, local, vnf)} @@
  "nsh-proxy" :> {Plain(0, NoPath, vnf, local), Plain(0, NoPath, sff, local)} @@
  "nsh-pop" :> {Exported(8, << trace >>), Exported(0, << trace2, trace >>)} @@
  "nsh-adj-incomplete" :> {Adjacent(i, Nsh(2, 9, "out2", << trace >>)) : i \in {1, 2}}

\* Enough for both loops: two packets that share an entry, one without a
\* map, one whose options a null map matters for, one whose ttl is refused, one
\* whose metadata does not fit an entry of md_type 1, one that has no adjacency.
DualArrivals ==
  "nsh-input" :>
    {Nsh(2, 9, "swapped", << trace >>), Nsh(2, 9, "swapped", << >>),
     Nsh(2, 9, "shared", << >>), Nsh(2, 9, "popped", << trace >>), Nsh(1, 9, "unmapped", << >>),
     Nsh(1, 1, "swapped1", << >>), Nsh(2, 9, "swapped1", << trace2 >>)} @@
  "nsh-classifier" :> {Plain(0, "pushed", local, local), Plain(0, "swapped", local, local)} @@
  "nsh-eth-output" :>
    {[Nsh(2, 9, "out2", << trace2 >>) EXCEPT !.adj = i] : i \in 0 .. 2} @@
  "nsh-midchain" :> {Adjacent(i, Nsh(2, 9, "out2", << trace2 >>)) : i \in {1, 2}}

NeighbourArrivals ==
  "nsh-proxy" :> {Plain(0, NoPath, vnf, local), Plain(0, NoPath, local, local)}

\* What the theorems ask of those who configure the nodes is so here.
ASSUME SteadyAssumption ==
  Arrivals = SteadyArrivals =>
    /\ Undisturbed /\ HeadersTrue /\ MetadataFits
    /\ NoSecondHeader /\ ExportsTrue

\* A ttl the lower bits of which are not zero.
ExportedArrivals == "nsh-pop" :> {Exported(9, << trace >>)}
=============================================================================
