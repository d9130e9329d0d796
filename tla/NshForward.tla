----------------------------- MODULE NshForward -----------------------------
(***************************************************************************)
(* What nsh_input_map (nsh-plugin/nsh/nsh.c) does with one packet: how it  *)
(* finds the key of the service path, and what the map of this key makes   *)
(* of the packet.  The operators have no state.  The rewrites, which md2   *)
(* handling changes in place, go in and come out as an argument.           *)
(*                                                                         *)
(* A packet is its headers, outermost first, the last of them the payload, *)
(* and the members of its buffer's opaque area that the nodes read and     *)
(* set.  A path stands for an nsp_nsi word in whichever byte order the     *)
(* place at hand keeps it (NshMap has the conversions).  Of a TLV its      *)
(* class, type and size are kept, not what it says.                        *)
(*                                                                         *)
(* The node nsh-pop (nsh_pop.c), which iOAM export leads to, has a pop of  *)
(* its own; the nodes of nsh_output.c put the rewrite of an adjacency in   *)
(* front of a packet.                                                      *)
(***************************************************************************)
EXTENDS Integers, SequencesExt

CONSTANTS
  Path,           \* nsp_nsi words
  Interface,      \* software interfaces
  Option,         \* class, type and size of a TLV
  OptionBytes,    \* the size, with the TLV header, rounded to 4
  Registered,     \* options nsh_md2_register_option was called for
  Maps,           \* the map table: path -> map
  EntryArgs,      \* path -> what an entry of this path is added with
  TunnelIndex,    \* tunnel_index_by_sw_if_index
  Vxlan4Sessions, \* proxy sessions of transport VXLAN4: interface -> path
  Adjacency,      \* adj_pool, adjacencies of NSH: index -> adjacency
  NoPath,         \* the ~0 of tunnel_index_by_sw_if_index, and no path
  NoInterface     \* a member of a map that is not there

NodeTypes ==
  {"nsh-input", "nsh-proxy", "nsh-classifier", "nsh-aware-vnf-proxy", "nsh-pop",
   "nsh-eth-output", "nsh-midchain", "nsh-adj-incomplete"}

OutputNodes == {"nsh-eth-output", "nsh-midchain"}

MapNextNodes ==
  {"gre4-input", "gre6-input", "vxlan-gpe-encap", "vxlan4-encap", "vxlan6-encap",
   "ethernet-input", "interface-output", "nsh-eth-output"}

BASE_HEADER_LEN == 8      \* sizeof (nsh_base_header_t)
MD1_HEADER_LEN == 24      \* with nsh_md1_data_t
MAX_NSH_HEADER_LEN == 256
ETH_HEADER_LEN == 14      \* sizeof (ethernet_header_t)

\* bytes is below zero where a buffer has been advanced behind its end.
HeaderType ==
  [nsh : BOOLEAN, md_type : 0 .. 255, ttl : 0 .. 63, path : Path \cup {NoPath},
   bytes : Int, length : Nat, tlvs : Seq(Option)]

\* adj_index 0 stands for ~0 and for any other index no adjacency has.
AdjIndex == DOMAIN Adjacency \cup {0}

AdjacencyRecord ==
  [sw_if_index : Interface, data_bytes : Nat, max_l3_packet_bytes : Nat, ip4 : BOOLEAN]

\* rx, tx: sw_if_index[VLIB_RX] and [VLIB_TX]; class: l2_classify.opaque_index;
\* adj: ip.adj_index[VLIB_TX].
PacketType ==
  [hdrs : Seq(HeaderType), class : Path \cup {NoPath},
   rx : Interface, tx : Interface, adj : AdjIndex]

\* adj_index is what the command line has looked up, or what the stack of the
\* API handler held: that one leaves it unset.
MapRecord ==
  [nsh_action : {"swap", "push", "pop"}, mapped : Path, next_node : MapNextNodes,
   sw_if_index : Interface, rx_sw_if_index : Interface, nsh_sw_if : Interface,
   adj_index : AdjIndex]

EntryRecord == [md_type : {1, 2}, ttl : 0 .. 63, tlvs : Seq(Option)]

RewriteType == [tlvs : Seq(Option), rewrite_size : 0 .. 255, length : 0 .. 252]

ASSUME OptionAssumption ==
  /\ Registered \subseteq Option
  /\ OptionBytes \in [Option -> {4 * n : n \in 1 .. 63}]
ASSUME TableAssumption ==
  /\ DOMAIN Maps \subseteq Path
  /\ Maps \in [DOMAIN Maps -> MapRecord]
  /\ DOMAIN EntryArgs \subseteq Path
  /\ EntryArgs \in [DOMAIN EntryArgs -> EntryRecord]
ASSUME InterfaceAssumption ==
  /\ TunnelIndex \in [Interface -> Path \cup {NoPath}]
  /\ DOMAIN Vxlan4Sessions \subseteq Interface
  /\ Vxlan4Sessions \in [DOMAIN Vxlan4Sessions -> Path]
  /\ NoPath \notin Path
  /\ NoInterface \notin Interface
  /\ DOMAIN Adjacency \subseteq Nat \ {0}
  /\ Adjacency \in [DOMAIN Adjacency -> AdjacencyRecord]

-----------------------------------------------------------------------------
\* Recursive functions of how many TLVs are taken, so that proofs can go by it.
FirstBytes(tlvs) ==
  LET sum[i \in 0 .. Len(tlvs)] ==
        IF i = 0 THEN 0 ELSE sum[i - 1] + OptionBytes[tlvs[i]]
  IN  sum

TlvBytes(tlvs) == FirstBytes(tlvs)[Len(tlvs)]

\* rewrite_size is a byte; the length of a header counts words in six bits.
Rewrite(tlvs, bytes) ==
  [tlvs |-> tlvs, rewrite_size |-> bytes % 256, length |-> 4 * ((bytes % 256) \div 4)]

\* The handlers of iOAM trace, the one option the plug-in registers: each of
\* them refuses when the library that has the trace profile is not loaded.
FirstKept(tlvs) ==
  LET kept[i \in 0 .. Len(tlvs)] ==
        IF i = 0 THEN << >>
        ELSE IF tlvs[i] \in Registered THEN Append(kept[i - 1], tlvs[i])
        ELSE kept[i - 1]
  IN  kept

Understood(tlvs, profile) == IF profile THEN FirstKept(tlvs)[Len(tlvs)] ELSE << >>

\* Rewriting of the metadata goes on behind the end of the memory it is in.
Overrun(e, tlvs) ==
  BASE_HEADER_LEN + TlvBytes(tlvs) >
    (IF EntryArgs[e].md_type = 1 THEN MD1_HEADER_LEN ELSE MAX_NSH_HEADER_LEN)

\* Faulty: the TLVs are left to the nodes to add.
RewriteBare(e, profile) ==
  Rewrite(<< >>, IF EntryArgs[e].md_type = 1 THEN MD1_HEADER_LEN ELSE BASE_HEADER_LEN)

nsh_header_rewrite(e, profile) ==
  LET tlvs == Understood(EntryArgs[e].tlvs, profile)
  IN  IF EntryArgs[e].md_type = 1
        THEN Rewrite(<< >>, MD1_HEADER_LEN)
        ELSE Rewrite(tlvs, BASE_HEADER_LEN + TlvBytes(tlvs))

\* The header an entry's rewrite is copied to: rewrite_size bytes of it.
NshHeader(ents, e) ==
  [nsh |-> TRUE, md_type |-> EntryArgs[e].md_type, ttl |-> EntryArgs[e].ttl,
   path |-> e, bytes |-> ents[e].rewrite_size, length |-> ents[e].length,
   tlvs |-> ents[e].tlvs]

DummyEth ==
  [nsh |-> FALSE, md_type |-> 68, ttl |-> 0, path |-> NoPath,
   bytes |-> ETH_HEADER_LEN, length |-> 0, tlvs |-> << >>]

PushHeader(p, h) == [p EXCEPT !.hdrs = << h >> \o @]

\* vlib_buffer_advance by the length of the outermost header, or by nothing.
Advance(p, n) == IF n = 0 THEN p ELSE [p EXCEPT !.hdrs = Tail(@)]

-----------------------------------------------------------------------------
\* The key of the path, by the node the packet came to.
Parsed(p, err, key, len) == [pkt |-> p, error |-> err, key |-> key, header_len |-> len]

\* ttl0 is unsigned: it wraps below zero and only a ttl of one is refused.
ParseInput(p) ==
  Parsed(p, IF Head(p.hdrs).ttl = 1 THEN "INVALID_TTL" ELSE "none",
         Head(p.hdrs).path, Head(p.hdrs).length)

ParseProxy(p) ==
  IF p.rx \in DOMAIN Vxlan4Sessions
    THEN Parsed(p, "none", Vxlan4Sessions[p.rx], 0)
    ELSE Parsed(p, "NO_PROXY", NoPath, 0)

\* The length byte is not masked: its upper two bits are the lower of the ttl.
ParsePop(p) ==
  Parsed(p, "none", Head(p.hdrs).path, Head(p.hdrs).length + 256 * (Head(p.hdrs).ttl % 4))

Parse(type, p) ==
  CASE type = "nsh-input"           -> ParseInput(p)
    [] type = "nsh-pop"             -> ParsePop(p)
    [] type = "nsh-proxy"           -> ParseProxy(p)
    [] type = "nsh-classifier"      -> Parsed(p, "none", p.class, 0)
    [] type = "nsh-aware-vnf-proxy" ->
         Parsed(PushHeader(p, DummyEth), "none", TunnelIndex[p.tx], 0)
    [] OTHER                        -> Parsed(p, "none", NoPath, 0)

-----------------------------------------------------------------------------
\* What becomes of a packet, and of the rewrites.
Fate(p, next, err, ents, flt) ==
  [pkt |-> p, next |-> next, error |-> err, entries |-> ents, fault |-> flt]

\* A TLV nobody registered, or one whose handler refuses, drops the packet.
\* While iOAM export is on, a packet with TLVs goes there and keeps its header.
nsh_md2_decap(tlvs, header_len, next, cfg) ==
  IF Understood(tlvs, cfg.profile) # tlvs
    THEN [next |-> "error-drop", header_len |-> header_len]
  ELSE IF tlvs # << >> /\ cfg.export
    THEN [next |-> "ioam-export", header_len |-> 0]
    ELSE [next |-> next, header_len |-> header_len]

\* Faulty: the size of the rewrite is not reset before the TLVs are scanned.
SwapAppends(ents, e, tlvs, cfg) ==
  LET all == ents[e].tlvs \o Understood(tlvs, cfg.profile)
  IN  [ents EXCEPT ![e] = Rewrite(all, BASE_HEADER_LEN + TlvBytes(all))]

\* Faulty: the length in the header is not updated.
SwapForgetsLength(ents, e, tlvs, cfg) ==
  LET kept == Understood(tlvs, cfg.profile)
      new  == Rewrite(kept, BASE_HEADER_LEN + TlvBytes(kept))
  IN  [ents EXCEPT ![e] = [new EXCEPT !.length = ents[e].length]]

\* The rewrite is refilled with the TLVs of this packet.
nsh_md2_swap(ents, e, tlvs, cfg) ==
  LET kept == Understood(tlvs, cfg.profile)
  IN  [ents EXCEPT ![e] = Rewrite(kept, BASE_HEADER_LEN + TlvBytes(kept))]

\* One handler runs for each option the entry was added with, on the TLV at
\* its place in the header that was pushed.  The rewrite only gets the size
\* of these TLVs, for the next packet.
FirstOf(tlvs, n) == SubSeq(tlvs, 1, IF n < Len(tlvs) THEN n ELSE Len(tlvs))

Handled(e, cfg) == Len(Understood(EntryArgs[e].tlvs, cfg.profile))

nsh_md2_encap(ents, e, cfg) ==
  LET kept == FirstOf(ents[e].tlvs, Handled(e, cfg))
  IN  [ents EXCEPT ![e] = Rewrite(kept, BASE_HEADER_LEN + TlvBytes(kept))]

\* header_len is zero unless the packet came with an NSH header.
Tlvs(p, header_len) == IF header_len = 0 THEN << >> ELSE Head(p.hdrs).tlvs

\* Faulty: packets with options nobody understands are dropped silently.
PopForgetsError(p, m, header_len, rx, ents, cfg) ==
  LET d == nsh_md2_decap(Tlvs(p, header_len), header_len, m.next_node, cfg)
  IN  Fate(IF d.next = "error-drop" THEN p ELSE Advance(p, d.header_len),
           d.next, "none", ents, "none")

Pop(p, m, header_len, rx, ents, cfg) ==
  LET d == nsh_md2_decap(Tlvs(p, header_len), header_len, m.next_node, cfg)
  IN  IF Head(p.hdrs).md_type # 2
        THEN Fate(Advance(p, header_len), m.next_node, "none", ents, "none")
      ELSE IF d.next = "error-drop"
        THEN Fate(p, "error-drop", "INVALID_OPTIONS", ents, "none")
      ELSE IF rx = NoInterface
        THEN Fate(p, d.next, "none", ents, "null_map")
        ELSE Fate(Advance([p EXCEPT !.rx = rx], d.header_len), d.next, "none",
                  ents, "none")

\* Faulty: the old header stays.
SwapKeepsHeader(p, m, header_len, ents, cfg) ==
  LET new == IF Head(p.hdrs).md_type = 2
               THEN nsh_md2_swap(ents, m.mapped, Tlvs(p, header_len), cfg) ELSE ents
  IN  Fate(PushHeader(p, NshHeader(new, m.mapped)), m.next_node, "none", new, "none")

Swap(p, m, header_len, ents, cfg) ==
  LET tlvs == Tlvs(p, header_len)
      md2  == Head(p.hdrs).md_type = 2
      new  == IF md2 THEN nsh_md2_swap(ents, m.mapped, tlvs, cfg) ELSE ents
  IN  Fate(PushHeader(Advance(p, header_len), NshHeader(new, m.mapped)),
           m.next_node, "none", new,
           IF md2 /\ Overrun(m.mapped, Understood(tlvs, cfg.profile))
             THEN "overrun" ELSE "none")

\* The header is as long as the rewrite was before the handlers ran: when there
\* are more of them than TLVs in it, they write over the packet behind it.
Push(p, m, ents, cfg) ==
  LET h    == NshHeader(ents, m.mapped)
      md2  == EntryArgs[m.mapped].md_type = 2
  IN  Fate(PushHeader(p, h), m.next_node, "none",
           IF md2 THEN nsh_md2_encap(ents, m.mapped, cfg) ELSE ents,
           IF md2 /\ Handled(m.mapped, cfg) > Len(h.tlvs) THEN "overrun" ELSE "none")

(***************************************************************************)
(* From the map lookup to the trace label.  x is what Parse made of the    *)
(* packet.  The three copies of this code differ in two places: the single *)
(* loop alone sets VLIB_RX (set_rx), and the second packet of the dual     *)
(* loop takes its rx_sw_if_index from the map of the first (rx_key).       *)
(***************************************************************************)
RxInterface(key) ==
  IF key \in DOMAIN Maps THEN Maps[key].rx_sw_if_index ELSE NoInterface

Forward(x, set_rx, rx_key, ents, cfg) ==
  LET m == Maps[x.key]
      p == [x.pkt EXCEPT !.tx = m.sw_if_index,
                         !.adj = m.adj_index,
                         !.rx = IF set_rx THEN m.nsh_sw_if ELSE @]
  IN  IF x.key \notin DOMAIN Maps
        THEN Fate(x.pkt, "error-drop", "NO_MAPPING", ents, "none")
      ELSE IF m.nsh_action = "pop"
        THEN Pop(p, m, x.header_len, RxInterface(rx_key), ents, cfg)
      ELSE IF m.mapped \notin DOMAIN ents
        THEN Fate(p, m.next_node, "NO_ENTRY", ents, "none")
      ELSE IF m.nsh_action = "swap"
        THEN Swap(p, m, x.header_len, ents, cfg)
        ELSE Push(p, m, ents, cfg)

\* vlib_buffer_advance past the header and as much of the payload as n says.
AdvanceBytes(p, n) ==
  LET over   == n - Head(p.hdrs).bytes
      behind == Tail(p.hdrs)
      cut    == [Head(behind) EXCEPT !.bytes = @ - over]
  IN  [p EXCEPT !.hdrs = << cut >> \o Tail(behind)]

\* Faulty: the buffer is not advanced.
PopOnlyKeeps(x, ents) ==
  Fate(x.pkt, IF x.key \in DOMAIN Maps THEN Maps[x.key].next_node ELSE "error-drop",
       IF x.key \in DOMAIN Maps THEN "none" ELSE "NO_MAPPING", ents, "none")

\* The same lookups as in nsh_input_map, but only a pop does anything, and what
\* the first node has set in the buffer stays.
nsh_pop_inline(x, ents) ==
  LET m == Maps[x.key]
  IN  IF x.key \notin DOMAIN Maps
        THEN Fate(x.pkt, "error-drop", "NO_MAPPING", ents, "none")
      ELSE IF m.nsh_action = "pop"
        THEN Fate(AdvanceBytes(x.pkt, x.header_len), m.next_node, "none", ents, "none")
        ELSE Fate(x.pkt, m.next_node,
                  IF m.mapped \in DOMAIN ents THEN "none" ELSE "NO_ENTRY", ents, "none")

-----------------------------------------------------------------------------
\* vlib_buffer_length_in_chain
LengthInChain(p) == FoldLeft(LAMBDA n, h : n + h.bytes, 0, p.hdrs)

\* The rewrite of the adjacency, with the ethertype of NSH at its end.
EthHeader(adj) == [DummyEth EXCEPT !.md_type = 0, !.bytes = adj.data_bytes]

\* Out of the interface of the adjacency, with its rewrite in front.
SendOut(p, adj) == PushHeader([p EXCEPT !.tx = adj.sw_if_index], EthHeader(adj))

\* A packet that is too long is dropped; its buffer has not been advanced over
\* the rewrite yet.  Any other goes to the second of the next nodes, of which
\* nsh-midchain has registered one.  What midchain's fixup changes in the
\* rewrite, and the features of the interface, are vnet's.
nsh_output_inline(type, p, ents) ==
  LET adj == Adjacency[p.adj]
  IN  IF p.adj \notin DOMAIN Adjacency
        THEN Fate(p, "error-drop", "none", ents, "no_adjacency")
      ELSE IF LengthInChain(p) > adj.max_l3_packet_bytes
        THEN Fate(p, "error-drop", "MTU_EXCEEDED", ents, "none")
        ELSE Fate(SendOut(p, adj), "interface-output", "none", ents,
                  IF type = "nsh-midchain" THEN "no_next" ELSE "none")

\* The neighbour is not known yet.
nsh_adj_incomplete(p, ents) ==
  Fate(p, IF Adjacency[p.adj].ip4 THEN "ip4-arp" ELSE "ip6-discover-neighbor",
       "none", ents, "none")

\* What a node makes of a packet that has a key.
Process(type, x, set_rx, rx_key, ents, cfg) ==
  CASE type = "nsh-pop"            -> nsh_pop_inline(x, ents)
    [] type \in OutputNodes        -> nsh_output_inline(type, x.pkt, ents)
    [] type = "nsh-adj-incomplete" -> nsh_adj_incomplete(x.pkt, ents)
    [] OTHER                       -> Forward(x, set_rx, rx_key, ents, cfg)

\* One round of the single loop.
SinglePacket(type, p, ents, cfg) ==
  LET x == Parse(type, p)
  IN  IF x.error # "none"
        THEN Fate(x.pkt, "error-drop", x.error, ents, "none")
        ELSE Process(type, x, TRUE, x.key, ents, cfg)

=============================================================================
