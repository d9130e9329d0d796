# A TLA+ model of NSH_SFC

NSH_SFC is a plug-in for VPP that makes it a forwarder, classifier and proxy of
service chains: packets carry a Network Service Header (NSH, RFC 8300) that
names a service path (*nsp*) and a place on it (*nsi*), and maps tell what to do
with the header of each.  This directory holds a model of its core, the
configurations TLC checks it with, and proofs checked by TLAPS.  Paths below are
relative to `src/nsh-plugin/`.

## The system

| part | state | operations | talks to |
|---|---|---|---|
| map table (`nsh/nsh.c`) | pool of maps; hash table from key (network order) to index; stack of free tunnels; key of each tunnel interface | CLI and API add/delete; dump; show | vnet (interfaces), the nodes, proxy sessions |
| proxy sessions (`nsh/nsh.c`) | pool; hash table from transport interface to index | made and removed with the maps of VXLAN transports | nsh-proxy |
| entry table (`nsh/nsh.c`) | pool of headers, each with its TLVs and its *rewrite*; hash table from key (host order) | CLI and API add/delete; dump; show | the nodes, which change the rewrites; iOAM, which says how large a trace option is |
| nodes nsh-input, nsh-proxy, nsh-classifier, nsh-aware-vnf-proxy (`nsh/nsh.c`) | the frame at hand; rewrites in the entry table | find the key, then swap, push or pop, in a dual and a single loop | all three tables; option handlers; next nodes |
| md2 option registry (`nsh/nsh.c`) | pool; hash table; arrays of handlers | register, look up, unregister | iOAM trace |
| iOAM trace (`nsh-md2-ioam/nsh_md2_ioam_trace.c`) | counters; the profile lives in VPP's trace library | size and fill in, record, swap, pop, print a trace | the registry; entries, whose rewrites hold the option |
| iOAM transit and output feature (`nsh-md2-ioam/nsh_md2_ioam.c`, `md2_ioam_transit.c`) | destinations; a flag per interface | enable, disable, refresh when a route changes | VPP's fib |
| iOAM export (`nsh-md2-ioam/export-nsh-md2-ioam/`) | export buffers of VPP's ioam library | turn on and off: overrides the next node of popped packets | the nodes |
| pop-only node nsh-pop (`nsh/nsh_pop.c`) | the frame at hand | look up again and pop, after iOAM export | maps, entries; next nodes |
| Ethernet output (`nsh/nsh_output.c`): nsh-eth-output, nsh-midchain, nsh-adj-incomplete | the frame at hand | put the Ethernet header of the packet's adjacency in front, check the length | nsh-input and its maps; vnet's adjacencies |
| test client (`nsh/nsh_test.c`) | last result, whether one is there, count of errors | requests and dumps, each waited for a second | binary API |
| Java bindings, message tables | none | | binary API |

Commands and API messages run on the main thread while the workers wait at a
barrier, so each is one atomic step.  Nodes run on workers, a frame at a time.
The hard parts:

* indices of pools, interfaces and tunnels outlive what they named: freed
  elements are used again in another order, while hash tables, a free stack and
  a vector of keys still refer to them;
* one request is several calls, of which one may fail after the other has
  changed something;
* the rewrite of an entry is a buffer shared by all packets: each md2 packet
  refills it in place, and its size and length must be right for the next;
* the per-packet code exists three times (two packets of the dual loop, one of
  the single loop), with jumps from the failure of one packet over the code of
  the other, and nsh-pop has three more copies of a part of it;
* a trace option is sized with the profile an entry was added with, and filled in
  with the profile of the hop it is at, in a rewrite the last packet has left;
* routes of iOAM destinations move, and the interfaces iOAM is recorded on with them;
* a client that gives up after a second gets its reply all the same, later;
* sizes are bytes, lengths six bits of words, the ttl six bits in two bytes.

What makes each part correct is stated as properties of its module, below; the
hazards themselves are listed, with their lines, in `PROJECT.json`.

## Modules

| module | of what |
|---|---|
| `VppPool` | vppinfra's pool: vector of elements and stack of free indices (outside the repository, modelled from its use) |
| `KeyedTable` | abstract: a partial map from keys to values |
| `NshMap` | map table, proxy sessions, tunnel interfaces |
| `NshEntry` | entry table, down to the bits of its base header |
| `NshForward` | operators: what the nodes do with one packet |
| `NshInput` | the nodes on a worker: frames, dual and single loop, packets handed from node to node, changes between frames |
| `NshWorkers` | two workers at the rewrite of one entry, load by load and store by store |
| `IoamTrace` | the trace option along a chain of hops |
| `IoamTransit` | destinations of iOAM, the back walk of the fib, the output feature and its flags |
| `VatClient` | the test client and the plug-in at the two ends of the API's queues |
| `MCNshMap`, `MCNshEntry`, `MCNshInput`, `MCNshWorkers`, `MCIoamTrace`, `MCIoamTransit`, `MCVatClient` | instances for TLC |
| `SharedLemmas` | lemmas several proofs need: least and greatest numbers, induction up to a number, functions made step by step, pools |
| `NshMapProofs` | types and index invariants of `NshMap`; `NshMap` implements `KeyedTable`, twice; tunnel interfaces, without sub-interfaces |
| `NshEntryProofs` | types, index invariant and dumps of `NshEntry`; `NshEntry` implements `KeyedTable` |
| `NshInputProofs` | types and invariants of `NshInput`, its two loops, and the detour by way of iOAM export |
| `IoamTransitProofs` | types and invariants of `IoamTransit`; its destinations implement `KeyedTable` |
| `IoamTraceProofs` | types and invariants of `IoamTrace` |
| `NshWorkersProofs` | types and `HeaderWhole` of `NshWorkers` |
| `VatClientProofs` | types and invariants of `VatClient` |

**Indices** are shifted by one everywhere: 1 is the first element, 0 the `~0` or
null pointer by which the code says "none".  Hash tables are total functions
with 0 for "absent".  Allocation does not fail, as VPP panics instead.

**`NshMap`.**  `nsh_add_del_map` and `nsh_add_del_proxy_session` are the two
functions of these names; the two handlers call both, each in its own way.
Adding takes a tunnel by `ReuseTunnel` or `RegisterTunnel`; `MissTunnel` is the
step in which the free stack names an interface vnet does not have, after which
nothing is claimed (`fault`).  Keys are four bytes and are really swapped to
network order.  The environment creates interfaces and sub-interfaces.  Members
of a map the API handler does not set take any value of `UninitAdj`.

**`NshEntry`.**  A request is laid out in `ver_o_c` and `length` as its handler
does it, is stored, and is put together again by `Ttl` and
`send_nsh_entry_details`.  `CrashEntry` and `DumpOne` are the steps that follow a
null pointer; after one nothing happens.

**`NshForward`, `NshInput`.**  A packet is its headers, outermost first, the
interfaces of its buffer and its adjacency.  Of a TLV, class, type and size are
kept; what a trace records is `IoamTrace`'s.  `Parse` is the first part of a
round, by node; `Forward` the part from the map lookup on, with `Pop`, `Swap` and
`Push`; rewrites go in and come out.  `nsh_pop_inline` is the part of nsh-pop from
its map lookup on, `nsh_output_inline` and `nsh_adj_incomplete` are the nodes of
`nsh_output.c`, and `Process` picks among them.  `NshInput` applies them in one
round of `SingleLoop` or `DualLoop`; `DualFirstFails` and `DualSecondFails` are the
rounds in which a `goto` jumps over part of the other packet.  Values never set
are any value (`DualFirstFails` takes any key).  `Handover` is the composition:
packets nsh-input has sent to an output node are the next frame of that node.
The export node passes on what it gets, so that what nsh-input hands to it
arrives at nsh-pop.  `adj_index` of a map is any adjacency or none: the command
line looks one up, the API handler leaves what is on its stack.  A packet
nsh-midchain lets pass goes to a next node the node has not registered
(`no_next`).  Between frames, entries are added and deleted and the iOAM
export override is set.  Byte order is left to `NshMap`: a path here stands for
its word in whichever order it is kept.  Maps and sessions are constants of this
module; their changes are the business of `NshMap`.  Maps whose next node is the
drop node, or has a number beyond the table of next nodes, are not enumerated.

**`NshWorkers`.**  `nsh_md2_encap` and `nsh_md2_swap` of one packet taken apart:
the size is reset, each option written and added to the size by a load and a
store, the length set, the size read back, the header copied.  A program counter
per worker; words carry the packet that wrote them.

**`IoamTrace`.**  Packets move hop by hop; a hop pushes, swaps, records in passing
or pops, by its `Roles`.  The node a packet passes takes the ttl bits of the length
byte for length, so that `Transit` drops a packet that ends before that, and scans
any other past its header; `Behind` says what of this is behind the header of each
packet: too little, payload, or payload that reads as an option of ours.  The
rewrite of each hop's entry lives on between packets.  Words of the record list say who was recorded and where, so that a
property can tell a packet's own records from another's.

**`IoamTransit`.**  `egress` is what the fib answers, `children` what is attached
to a route, `feature` how often the output feature is enabled on each interface:
vnet counts, and a feature is off when it was disabled as often as it was enabled.
`EnableDest` enables once more for a destination that is there; `Release`, the rest
of a disable, once for each destination that is left, and disables what no flag
names once; `Refresh` disables everything once and enables again.  Whatever address
a request names, it is about `HackDest`: `nsh_md2_ioam.c:109` defines
`TRANSIT_UNIT_TEST_HACK` in every build.  A route change reaches
`nsh_md2_ioam_back_walk` as often as something is attached.  `missed` remembers a
change nobody was told of, `asked` whether the last IPv4 request asked to enable.

**`VatClient`.**  A command sends and waits; `Result` and `Timeout` are the two ways
its macro `W` ends.  The plug-in takes requests in order and queues replies; the
receiver sets the one result there is, whoever waits.  The client's messages carry
no TLVs, so that the dump of a freed element, which `NshEntry` has crash where there
were some, has none to copy.

## Properties and runs

Each property is stated in words above its definition.  Twelve runs, each of about
a minute or less (numbers are distinct states):

| run | shows |
|---|---|
| `map_tables` | `TunnelOwnership`, `TunnelRouting`, `TunnelNameStable`, `NoFault`: tunnels are never shared, lost, renamed or left with a stale key, and the free stack never names a tunnel vnet does not have.  `MapsRefineTable`, `SessionsRefineTable`: both tables behave as `KeyedTable`. |
| `map_subinterfaces` | `MapIndexSound`, `SessionIndexSound`: tables, pools and keys agree, even after what `map_free_list` finds |
| `entry_table` (33,687) | `EntryIndexSound`: hash table, pool and TLVs agree; `DumpTellsAll`, `DumpReinstalls`: a dump is complete and, sent back, restores the table; `EntriesRefineTable`: the table holds what was asked for, bit by bit |
| `input_steady` (20,056) | `LengthsTrue`, `OwnMetadata`: headers carry their true length and their own packet's options whatever went before; `ExportDetour`: a packet popped after iOAM export leaves as it would have without; `FateHasReason`: a packet is dropped exactly for an error that says so, refused for a ttl of one and not for zero, and otherwise goes to the next node of its own map; `OneHeader` |
| `input_dual` (31,908) | `FateHasReason` where rounds take two packets, so that one may be dropped, with no error, for the sake of the other; `FaultsHaveCauses`: memory is overrun, and a null or wrong pointer followed, for five named causes only, each of which occurs; `DualAsSingle`: a dual round of two packets with keys equals two single rounds, in all nodes; `FrameCompletes`: every frame is worked off |
| `workers` (1,278,520) | `HeaderWhole`: a worker that had the entry to itself from the reset of its size to the copy sends the right header, whatever workers that overlapped have left in the rewrite.  Workers that do overlap may send a torn one (the code has no lock; no line promises more), and a push needs the rewrite to have been left whole. |
| `ioam_path` (1,238,494) | `TraceTellsPath`: when the trace of a packet tells its own hops in order; `OwnRecordsOnly`: when it has no records of other packets; `PayloadKept`: payload is written over only where the records are wider than the option was made for, or where a ttl has the scan go on into payload that reads as an option |
| `ioam_transit` (155,996) | `RecordsOnEnabled`: however often the feature was enabled and disabled, iOAM is recorded on packets for the one address exactly if the last request asked for it, and on no others, unless a route moved unheard; `RouteHeard`; `DisableInBounds`: only disabling what was not enabled writes outside the vector; `DestsRefineTable`: destinations are a `KeyedTable` |
| `vat_client` (310,618) | `ResultTellsTable`: when a result can be believed; `AnswersOnce`; `ScriptInOrder`: the tables come out as the script says however many commands were given up; `CommandEnds`: every command returns |

Three runs show where code and comments disagree; `PROJECT.json` quotes the lines:

| run | violated |
|---|---|
| `map_free_list` | `FreeListHoldsTunnels`: software indices are pushed on the stack of hardware indices |
| `input_own_fate` | `OwnFate`: a packet is dropped for its neighbour's missing session |
| `input_pop_only` | `PopsTheHeader`: nsh-pop takes bits of the ttl for length, and cuts the payload |

### Divergences without a run

These were met while modelling.  The first group is in the model, as what the code
does; the second is not.

* The API's reply is that of its second call: 0 may mean that a session, not the
  map, was deleted or added (`nsh.c:847`; `nsh.api:100` has "0 if successful").
* A byte of a packet without an NSH header, taken for an md type, decides how an
  entry is copied (`nsh.c:2174`, `nsh.c:1548`).
* A header of 256 bytes has length 0 (`nsh.c:957`; `nsh_packet.h:49` calls the
  field the total length).
* A push uses the size, and the options, another packet's swap has left in the
  entry (`nsh.c:2200-2201`).
* A ttl of zero is accepted, while a packet with a ttl of one is refused with the
  words "ttl equals zero" (`nsh.h:195`); `FateHasReason` says which of the two it is.  A
  decremented ttl is never written (`ParseInput`);
  the default ttl of 63 is stored as 3 (`CliArgs`); an md type other than 1 and 2,
  which is what a command line without `md-type` gives, crashes (`CrashEntry`);
  details never carry their entry's index (`send_nsh_entry_details`); a session
  refused for its nsi is reported as existing; VLIB_RX is set by the single loop
  alone.
* An API map has an adjacency that was never set (`nsh.c:831`), so that its packets
  leave by any interface, or `nsh_output.c:166` reads an adjacency that is not there.
* nsh-midchain registers one next node, the drop node, and sends what it does not
  drop to the second (`nsh_output.c:276`, `364-367`).
* nsh-md2-ioam-encap-transit takes the ttl bits of the length byte for length
  (`nsh_md2_ioam_util.h:55`, `60`): with a ttl that is no multiple of four, a packet
  too short for it is dropped by "Basic validity checks", and in any other up to
  768 bytes of payload are scanned, and written to where they read as an option.
* A swap copies as many bytes of a trace option as the rewrite's says
  (`nsh_md2_ioam_trace.c:316`), which is why `TraceTellsPath` needs its premises.
* `TRANSIT_UNIT_TEST_HACK` is defined in the source itself (`nsh_md2_ioam.c:109`):
  one fixed destination is enabled and disabled whatever the command line names,
  against its help, "dst-ip <dst_ip>" (`nsh_md2_ioam.c:460`).
* The output feature is enabled more often than it is disabled: a destination that
  is enabled twice, or moved, and disabled once leaves the feature on, on
  interfaces no flag names any more (`nsh_md2_ioam.c:208`, `337`).  No packet is
  recorded for it, because the node looks the destination up
  (`md2_ioam_transit.c:131`): this is what `RecordsOnEnabled` shows.
* Routes are looked up in table 0, but a destination is attached to its route in
  the table the command names (`nsh_md2_ioam.c:264`), so that with another table
  "the dest route will invoke a callback" (`nsh_md2_ioam.c:251-254`) is not the
  route whose interface records: `missed` has it.
* The test client asks for a dump with index 0, which is the first element
  (`nsh_test.c:241`), and sends keys and next nodes in host order
  (`nsh_test.c:200`, `302`), so that the plug-in enters the swapped key.
* Not in the model: the trace handlers read an IP ttl where the NSH header is; a fib
  entry's index is passed where a path's is expected (`nsh_md2_ioam.c:203-204`);
  `options_size` is written and
  read nowhere; the nodes of `nsh_output.c` register no error strings, and their
  `output_feature_arc_index` is never set; the nodes look sessions up with
  transport VXLAN4 alone, so that those of VXLAN6 are never found (`nsh.c:1744`).

### Bounds

* `map_tables`: three keys, all VXLAN.  Two collide on one transport interface
  and one has an nsi of zero, so all three results of a session call occur; with
  three keys, elements and tunnels are freed in one order and taken in another.
  `MaxSw` = 4 leaves the environment room for an interface between tunnels, so
  that numbers of tunnels and pool elements differ.  `MaxSessionPool` = 2 leaves
  room for one live and one lost session element; the leak has no end by itself.
* `map_subinterfaces`, `map_free_list`: one key with two transports and the key
  0xFFFFFFFF, which `tunnel_index_by_sw_if_index` cannot tell from ~0.
* `entry_table`: three keys, requests of both md types and of none, ttls above
  six bits, flags with stray bits.
* `input_steady`: frames of up to two packets (a frame is a sequence of rounds,
  and what a round leaves behind is in the state), twenty kinds of packet, all
  nodes but nsh-midchain, a map of each action, an entry of each md type, with and
  without a trace profile, maps that name an adjacency of their interface or, as
  those of the API may, of another one, headers of different sizes and an MTU that
  is met, ttls of zero and one, all changes between frames.  Here, no entry is both
  swapped in and pushed (`input_dual` has one that is), no plain packet's third byte
  reads as md type 2, and the ttl of an exported packet is a multiple of four (that
  of `input_pop_only` is not).
* `input_dual`: frames of up to four, the least for which the dual loop runs, and
  room for one or two in the next frame.  The guards of the loops only tell
  apart none, up to three and four packets, and no room, room for one and for
  two: all of these occur together, and so do dual rounds, single rounds and
  full next frames in every order a frame of four allows.  Its maps share an entry
  between a push and a swap and leave an adjacency unset, and its packets are with
  and without a map, refused, too long for an entry, or without an adjacency, so
  that each of the five faults occurs.
* `workers`: two workers, which are interchangeable (symmetry), and four packets:
  two that overlap and tear an entry, and one or two that come after.  Options of
  one and two words, so that sizes differ; a pushed entry of two options.
* `ioam_path`: three hops, three packets, so that an entry has been used by one
  packet and is used by another while a third is ahead, one of each kind of
  `Behind`; a first hop whose entry has a ttl of zero or three, before and after it
  is replaced; a profile with room for all hops and one with wider records and
  less room; one change to a profile or an entry, which may come between any two steps.
* `ioam_transit`: two destinations, two tables, three interfaces, so that routes
  can share an interface, part, and move to one beyond the vector.  A
  destination is attached at most twice, and the vector, which each refresh makes
  longer, at most five elements; the feature is enabled at most three times on
  an interface, so that more is enabled than is disabled.
* `vat_client`: three requests, the least in which a late reply is taken for
  another request's and a third shows what is left; two tables, since each has
  its reply handlers.

Deadlock is checked where the environment may always act; it is switched off
where the model really stops: after a fault or a crash, or when the packets or
requests of its bound are used up.

### Fairness

* `FrameCompletes`: `WF_vars(NodeStep)`.  A node function is a loop that runs to
  its end on the worker's own core, so that a step that stays enabled is taken;
  nothing is assumed of dispatching, nor of the main thread.
* `CommandEnds`: weak fairness of the end of a wait and of both processes' reading
  of their queues.  The wait polls a clock that goes on, the plug-in's main loop
  and the client's receiving thread poll their queues; no speed is assumed, and
  nothing of when commands are given.

## Proofs

All theorems hold for every set of requests and every bound, from the named
assumptions on the constants (requests are well-formed, bounds are numbers,
`NoValue` is no value).

* `TypeCorrect`, `MapIndexCorrect`, `SessionIndexCorrect`: `TypeOK`,
  `MapIndexSound` and `SessionIndexSound` of `NshMap` are invariants, for every
  adjacency pool and with `SubInterfaces` or without.  None of them is
  inductive alone: an element the hash table leads to must be live for a delete
  to keep the pool's shape, and a free index must be one no key leads to for an
  add to keep the tables apart.  Their conjunction `TableInv` is.  The lemmas go
  from the pool (`PoolGetLemma`, `PoolPutLemma`: what a get and a put do to the
  live elements), to one call (`MapCallLemma`, `SessionCallLemma`), to a step
  (`NextTables`).  Nothing is needed of tunnels: whatever the free stack holds,
  the tables stay sound, which is why the flaw of the stack does not reach them.
* `MapsImplementTable`, `SessionsImplementTable`: under the mapping that looks a
  key up through hash table and pool, each step is an `Add`, a `Del` or a stutter
  of `KeyedTable`, from `TableInv`.
* `EntryIndexCorrect`: `EntryIndexSound` of `NshEntry` is an invariant, for every set
  of keys, metadata and requests.  The inductive invariant `EntryInv` adds the
  shape of the pool and the types of its elements.  `StepCases` reduces both
  handlers to one request that is well laid out (`Tells`), `AddSound` and
  `DelSound` do the two branches; the crash changes no table.
* `EntriesImplementTable`: the table, seen through `Shown`, is a `KeyedTable` of what
  was asked for.  It rests on the arithmetic of the base header: `TtlBits`,
  `JoinedFlags` and `JoinedLength` show that the six bits of a ttl, spread over two
  bytes that hold flags and length besides, come out as they went in, for every
  byte (`MadeLemma`).  TLC tries a few bytes; the proof covers all of them.
* `TypeCorrect`, `DumpCorrect`, `DumpRestores` of `NshEntry`: types, and what
  `entry_table` checks of dumps (`DumpTellsAll`, `DumpReinstalls`).  `DumpInv` says
  that the messages are those of the pool as it is, as long as nothing was asked
  for since; the rest is `EntryInv`, that `pool_foreach` visits each live element
  once (`ForeachLemma`), and that the bytes of an element come back from its message
  bit by bit (`SentBack`, from `SameFlags` and `SameLength`).

* `NeverFaults`, `TunnelOwnershipCorrect`, `TunnelRoutingCorrect`, `TunnelNamesKept`,
  `FreeListCorrect`: what `map_tables` checks of tunnels (`NoFault`,
  `TunnelOwnership`, `TunnelRouting`, `TunnelNameStable`), and the property
  `map_free_list` finds violated, all under `~SubInterfaces`: where only interfaces
  with a hardware interface of their own are made, the two index spaces are one
  (`OneIndexSpace`), and sub-interfaces are the only cause of that flaw.
  `TunnelInv` holds of freed elements too: an element keeps the bytes of the map
  that was deleted, and with them the tunnel it was first given, which is the one
  it will have again, because the stack of free elements and the stack of free
  tunnels hold the same ones in the same order (`StacksInStep`).  Without that, nothing
  would tie a tunnel's name, which is an element's index, to the map that takes it.
* `TypeCorrect`, `TwoAsOneByOne` of `NshInput`: for every table of maps and entries,
  every set of packets and frames of any length, with nothing assumed but what the
  constants are.  `TypeInv` adds to `TypeOK` that a packet a node gets has the
  headers it will take off (`FramesOK`).  `TwoAsOneByOne` is about any round of the
  dual loop of two packets with keys: the second finds the rewrite as the first
  has left it (`TwoAtATime`), and the copies of the code differ only after a null
  map was followed (`LoopsAgree`).
* `FatesHaveReasons`, `FaultsAreCaused` of `NshInput`: the two properties `input_dual`
  checks of packets whatever they and the tables are.  They assume nothing: maps name
  any adjacency or none, share entries, and rounds of two are disturbed.  `FateInv`
  adds to them that an entry no map swaps to still has a TLV for each handler that
  will run on it (`OwnTlvs`), so that an overrun of a push has another map to blame.
  What a packet that was parsed does by itself is `OwnReason` and `OverrunCause`; the
  lemmas on the four steps add what the two packets of a round do to each other.
* `LengthsStayTrue`, `MetadataIsOwn`, `HeaderIsOne`: the other invariants
  `input_steady` checks.  They do not hold of every configuration; what is left to
  those who configure the nodes, and no code looks after, is stated in `NshInput`
  before its properties, one definition for each condition, and every theorem names
  those it needs:

  | condition | without it |
  |---|---|
  | `Undisturbed`: packets have a key and a map, or frames are shorter than the dual loop needs | a packet fares as its neighbour does (`input_own_fate`) |
  | `HeadersTrue`: there is an NSH header where the node takes one for granted, its length true, and nowhere else | other bytes are taken for one |
  | `MetadataFits`: metadata of entries and of packets fits 255 bytes, md2 packets are swapped to md2 entries | the length wraps, an md1 rewrite is refilled |
  | `NoSecondHeader`: packets with an NSH header are not pushed another one | they have two |
  | `ExportsTrue`: nsh-pop gets what nsh-input exports, its ttl a multiple of four | nsh-pop cuts the payload (`input_pop_only`) |

  `SteadyAssumption` of `MCNshInput`, which TLC evaluates, says that the instance of
  `input_steady` meets all of them.  The inductive invariant `RoundInv` speaks of the
  packets still in the frame (`Known`), of what the last round made of its own
  (`Good`), and of the rewrites: whatever packets have refilled one, its size and
  length are those of the TLVs in it (`EntriesTrue`).  The fate of one
  packet is worked out once, for all nodes (`ProcessEffect`: what `Forward`,
  `nsh_pop_inline` and the output nodes do, said by headers put in front and taken
  off), and `MadeGood` derives the three properties from it; the steps then only say
  which packets a round takes (`SingleRound`, `DualRound`).
* `DetourChangesNothing`: `ExportDetour`, which compares nsh-pop with nsh-input, from
  `ExportsTrue` alone (`DetourInv`): no frame is too long for it, and it does not
  matter what shares a round.
* Bytes and kept options of a sequence of TLVs are recursive functions of how many
  are taken (`FirstBytes`, `FirstKept`), and so are the words of a worker's options
  (`FirstSizes`, `FirstWords`) and the tables a script of requests makes (`Replay`).
  What they come to for every sequence does not need the library's induction,
  which takes an operator: `UpTo` is induction over a set of numbers, from the least
  one that is missing (`LeastNumber`), and `StepsExist` that a function defined step
  by step exists (all three in `SharedLemmas`).
* `HeaderCorrect`, `WorkersTypeCorrect`: the invariants of `NshWorkers`, for any number
  of workers and packets, any entries and any options.  The property is about the
  copied header, at the end of a packet; that it is right depends on every load and
  store of the loop before.  `WorkInv` therefore follows a worker that has its entry
  to itself through its steps (`Progress`): while options are written, the size of
  the rewrite is that of the options so far, and so is the place of the next one;
  the words written last begin with theirs (`Written`); the sum on its way from a
  load to a store is the next size.  Four more parts are needed to start and to end
  this: two workers at one entry know of each other (`Alone`), so that a step of one
  breaks nothing that is claimed of another; an entry nobody is at and that was not
  left torn is whole (`LeftWhole`), which is what a push starts from; a push never
  writes into the rewrite (`PushedWords`); and however the workers mix, sums have the
  base header in them (`Sized`), without which the copy would have a negative length.
  `StepKeeps` reduces a step to what it does to its own worker, rewrite and header;
  the lemmas before it (`OptionProgress`, `LoadProgress`, `CopyRight`...) are about
  these three values alone.  For a swap nothing is asked of what was left before:
  the reset and the writes make it whole again.

* `RecordingCorrect`, `RouteHeardCorrect`, `TransitTypeCorrect`: the invariants of
  `IoamTransit`, for any number of interfaces, destinations and routing tables, and
  with features counted.  `TransitInv` adds that the hash table leads to the live
  elements, that there is at most one, of `HackDest`, exactly if the last request
  asked for it (`OneAddress`), and that its interface has a flag and a count above
  zero (`ClaimStands`).  `RefreshLemma` and `ReleaseLemma` say what any number of
  refreshes and a disable leave of the counts: what is taken away once is given back
  before or after, to the interface that needs it.  `DisableInBoundsCorrect` (an
  action property) and `DestsImplementTable` (refinement) follow from the same
  invariant.
* `TraceCorrect`, `OwnRecordsCorrect`, `PayloadKeptCorrect`, `TraceTypeCorrect`: the
  invariants of `IoamTrace`, for chains of any length, any roles of their hops, any
  number of packets and every profile whose records fit into a rewrite
  (`ProfileAssumption`).  The inductive invariant `TraceInv` speaks of rewrites as
  well as of packets: the records an option has left fit in it, also in a rewrite
  that has just taken the option of another packet (`OptionOK`), and a rewrite no
  packet was copied to is as it was made (`RewriteOK`).  For packets, `TellsPath`
  ties the list, the room left and the path together, which `ListGrows` shows to
  last: the place of a record is counted from the end, and the arithmetic of
  record sizes is done by cases, as there are only four.  `CopyEffect` is the step
  the flaw of `clib_memcpy` would break: only a rewrite that is no shorter holds
  the words of the packet alone.  `HurtExplained` keeps for each packet why its
  payload was written to: a record that was too wide (`SpillsOnlyWide`), or a scan
  that went on behind the header (`ScanKeeps`).
* `AnswersOnceCorrect`, `ResultCorrect`, `VatTypeCorrect`: the invariants of `VatClient`, for
  any number of requests, keys and tables.  Nothing ties a reply to a request but
  the order of the queues: `VatInv` says that requests and replies are in order
  (`QueueInOrder`, `RepliesInOrder`), that what was returned was heard before what is
  still under way (`AnswersHeard`), and that after a command given when all was
  quiet nothing else can be heard until the next one (`FreshCommand`).
* `ScriptCorrect`: when both queues are empty, the plug-in's tables are those of the
  script of all requests sent, one after the other, and the `async_errors` of an
  asynchronous client counts its failures (`ScriptInOrder`), whatever was given up and
  however late it was heard.
  The queues are rarely empty, so `ScriptInv` speaks of the steps between: the tables
  are those of the requests the plug-in has handled so far, and the errors counted,
  with the failures still in the reply queue (`Failures`), are theirs.
  `DoneEffect` says that what a request does to a pool is what it does to the
  script's set of keys, from `VatInv`; `ReplayKept` that a script that goes on has the
  same beginning; `FailuresBehind` and `FailuresMove` what a reply that is queued or
  heard does to the count.

Each of these invariants was checked by TLC on its instance before it was proved.

Only model-checked are `FrameCompletes` and `CommandEnds`, which are liveness and out of
the prover's reach.  Every other property the passing runs check is a theorem.

## Not modelled

* Parsing and formatting, show commands, counters and packet traces: nothing the
  properties speak of reads them.  The map dump changes nothing.
* The md2 option registry: options are registered once, at start-up, and
  `nsh_md2_unregister_option` has no caller.  `NshForward` has the lookup, as the
  set `Registered`.
* A hop of `IoamTrace` always has a trace profile: without one the handlers refuse the
  option, which `NshForward` has for the nodes, and the transit node drops the packet.
* vnet: output features after `nsh-eth-output`, the fixup of midchain adjacencies, the
  fib's own path lists.  They are called, and what the plug-in relies on is in
  the model.
* The buffers of iOAM export: this repository only instantiates vpp's library.
* Java bindings, message tables, build, packaging, documentation tools, vagrant:
  no behaviour of the program.

## What is left

A chain of whole forwarders composed of `NshForward` and `IoamTrace`, with ttl and nsi
over a journey; the hazards that `PROJECT.json` lists without a property.
