------------------------------ MODULE NshInput ------------------------------
(***************************************************************************)
(* The graph nodes nsh-input, nsh-proxy, nsh-classifier,                   *)
(* nsh-aware-vnf-proxy, nsh-pop and those of nsh_output.c on one worker    *)
(* thread: the loops of nsh_input_map, and the like ones of nsh_pop_inline *)
(* and nsh_output_inline, over a frame of                                  *)
(* packets.  While four packets are left and two fit in the frame of the   *)
(* next node, two are handled in one round (the dual loop); then one a     *)
(* round, until the next frame is full or none is left.                    *)
(*                                                                         *)
(* Between frames the main thread may act: it adds and deletes entries,    *)
(* and the iOAM code sets its export override.                             *)
(***************************************************************************)
EXTENDS NshForward

CONSTANTS
  Arrivals,       \* node -> the packets that come to it
  MaxFrame,       \* bound: packets in a frame
  MaxSpace,       \* bound: room in the frame of the next node
  Profiles,       \* may there be a trace profile, may there be none
  EntryChanges,   \* whether entries are added and deleted meanwhile
  ExportChanges   \* whether iOAM export is turned on and off meanwhile

VARIABLES
  node,          \* the node that runs
  from,          \* the packets left of its frame
  n_left_to_next,\* the room left in the frame of the next node
  done,          \* what the last round made of its packets
  nsh_entries,   \* the entries that are there: path -> rewrite
  ioam,          \* is there a trace profile, is the export override set
  fault          \* memory was overwritten, or a pointer or an index followed that
                 \* leads nowhere

frameVars == << node, from, n_left_to_next, done, fault >>
vars == << frameVars, nsh_entries, ioam >>

\* The last header of a packet is its payload; what comes to nsh-input and to
\* nsh-pop has another one in front.
ASSUME ArrivalAssumption ==
  /\ DOMAIN Arrivals \subseteq NodeTypes
  /\ \A n \in DOMAIN Arrivals : \A p \in Arrivals[n] :
       /\ p \in PacketType /\ p.hdrs # << >>
       /\ n \in {"nsh-input", "nsh-pop"} => Len(p.hdrs) >= 2
ASSUME FrameAssumption ==
  /\ MaxFrame \in Nat
  /\ MaxSpace \in Nat \ {0}
  /\ Profiles \subseteq BOOLEAN
  /\ EntryChanges \in BOOLEAN
  /\ ExportChanges \in BOOLEAN

-----------------------------------------------------------------------------
Init ==
  /\ node \in DOMAIN Arrivals
  /\ from = << >>
  /\ n_left_to_next \in 1 .. MaxSpace
  /\ done = << >>
  /\ ioam \in [profile : Profiles, export : {FALSE}]
  /\ nsh_entries = [e \in DOMAIN EntryArgs |-> nsh_header_rewrite(e, ioam.profile)]
  /\ fault = "none"

\* The graph dispatches a node with a frame of packets.  The packets of nsh-pop
\* come from nsh-input by way of iOAM export.
Dispatch ==
  /\ fault = "none" /\ from = << >>
  /\ \E n \in DOMAIN Arrivals, k \in 1 .. MaxFrame :
       /\ n = "nsh-pop" => ioam.export /\ ioam.profile
       /\ node' = n
       /\ \E f \in [1 .. k -> Arrivals[n]] : from' = f
  /\ done' = << >>
  /\ UNCHANGED << n_left_to_next, nsh_entries, ioam, fault >>

\* The graph goes on with the node the packets of the last round were sent to.
Handover ==
  /\ fault = "none" /\ from = << >>
  /\ \E sent \in {<< 1 >>, << 2 >>, << 1, 2 >>} :
       /\ ToSet(sent) = {i \in DOMAIN done : done[i].next = "nsh-eth-output"}
       /\ from' = [k \in DOMAIN sent |-> done[sent[k]].pkt]
  /\ node' = "nsh-eth-output"
  /\ done' = << >>
  /\ UNCHANGED << n_left_to_next, nsh_entries, ioam, fault >>

\* vlib_get_next_frame: the frame of the next node has some room.
GetNextFrame ==
  /\ fault = "none" /\ from # << >> /\ n_left_to_next = 0
  /\ n_left_to_next' \in 1 .. MaxSpace
  /\ done' = << >>
  /\ UNCHANGED << node, from, nsh_entries, ioam, fault >>

-----------------------------------------------------------------------------
\* nsh-adj-incomplete has a single loop only.
DualGuard ==
  node # "nsh-adj-incomplete" /\ Len(from) >= 4 /\ n_left_to_next >= 2

\* Faulty: the room is not looked at.
SingleGuardNoRoom == from # << >> /\ ~DualGuard

\* Faulty: the single loop only takes what the dual loop leaves of a frame.
SingleGuardTail == Len(from) \in 1 .. 3 /\ n_left_to_next > 0 /\ ~DualGuard

SingleGuard == from # << >> /\ n_left_to_next > 0 /\ ~DualGuard

Round(was, loop, r) ==
  [was |-> was, loop |-> loop, pkt |-> r.pkt, next |-> r.next, error |-> r.error]

SingleLoop ==
  /\ fault = "none" /\ SingleGuard
  /\ \E r \in {SinglePacket(node, from[1], nsh_entries, ioam)} :
       /\ done' = << Round(from[1], "single", r) >>
       /\ nsh_entries' = r.entries
       /\ fault' = r.fault
  /\ from' = Tail(from)
  /\ n_left_to_next' = n_left_to_next - 1
  /\ UNCHANGED << node, ioam >>

FirstFault(r0, r1) == IF r0.fault = "none" THEN r1.fault ELSE r0.fault

EndDual(r0, r1) ==
  /\ done' = << Round(from[1], "first", r0), Round(from[2], "second", r1) >>
  /\ nsh_entries' = r1.entries
  /\ fault' = FirstFault(r0, r1)
  /\ from' = SubSeq(from, 3, Len(from))
  /\ n_left_to_next' = n_left_to_next - 2
  /\ UNCHANGED << node, ioam >>

\* Faulty: the rewrite of the second is looked at before the first is done.
DualLoopHoisted ==
  LET x0 == Parse(node, from[1])
      x1 == Parse(node, from[2])
  IN  /\ fault = "none" /\ DualGuard
      /\ x0.error = "none" /\ x1.error = "none"
      /\ EndDual(Process(node, x0, FALSE, x0.key, nsh_entries, ioam),
                 Process(node, x1, FALSE, x0.key, nsh_entries, ioam))

\* Both packets have a key: the first is done before the second is looked up.
\* (A bounded quantifier names each fate, so that it is worked out once.)
DualLoop ==
  LET x0 == Parse(node, from[1])
      x1 == Parse(node, from[2])
  IN  /\ fault = "none" /\ DualGuard
      /\ x0.error = "none" /\ x1.error = "none"
      /\ \E r0 \in {Process(node, x0, FALSE, x0.key, nsh_entries, ioam)} :
         \E r1 \in {Process(node, x1, FALSE, x0.key, r0.entries, ioam)} :
           EndDual(r0, r1)

\* Faulty: the first is dropped with an error that says there is none.
DualSecondSilent ==
  LET x0 == Parse(node, from[1])
      x1 == Parse(node, from[2])
  IN  /\ fault = "none" /\ DualGuard
      /\ x0.error = "none" /\ x1.error # "none"
      /\ EndDual(Fate(x0.pkt, "error-drop", "none", nsh_entries, "none"),
                 Fate(x1.pkt, "error-drop", x1.error, nsh_entries, "none"))

\* "goto trace1" for the second skips the first, which has been parsed: it
\* goes to the drop node, and its error stays what it was.
DualSecondFails ==
  LET x0 == Parse(node, from[1])
      x1 == Parse(node, from[2])
  IN  /\ fault = "none" /\ DualGuard
      /\ x0.error = "none" /\ x1.error # "none"
      /\ EndDual(Fate(x0.pkt, "error-drop", "unset", nsh_entries, "none"),
                 Fate(x1.pkt, "error-drop", x1.error, nsh_entries, "none"))

\* "goto trace0" for the first skips the parsing of the second, which is then
\* looked up with whatever nsp_nsi1 holds, its header pointer still null.
DualFirstFails ==
  LET x0 == Parse(node, from[1])
  IN  /\ fault = "none" /\ DualGuard
      /\ x0.error # "none"
      /\ \E key \in Path :
           LET r  == Forward(Parsed(from[2], "none", key, 0), FALSE, NoPath,
                             nsh_entries, ioam)
               r1 == IF key \in DOMAIN Maps
                        /\ \/ Maps[key].nsh_action = "pop"
                           \/ Maps[key].nsh_action = "swap" /\ r.error # "NO_ENTRY"
                       THEN Fate(r.pkt, r.next, r.error, r.entries, "null_header") ELSE r
           IN  EndDual(Fate(x0.pkt, "error-drop", x0.error, nsh_entries, "none"), r1)

-----------------------------------------------------------------------------
\* nsh_add_del_entry, as far as the nodes see it.
AddEntry ==
  /\ EntryChanges /\ fault = "none" /\ from = << >>
  /\ \E e \in DOMAIN EntryArgs \ DOMAIN nsh_entries :
       nsh_entries' =
         [f \in DOMAIN nsh_entries \cup {e} |->
            IF f = e THEN nsh_header_rewrite(e, ioam.profile) ELSE nsh_entries[f]]
  /\ done' = << >>
  /\ UNCHANGED << node, from, n_left_to_next, ioam, fault >>

DelEntry ==
  /\ EntryChanges /\ fault = "none" /\ from = << >>
  /\ \E e \in DOMAIN nsh_entries :
       nsh_entries' = [f \in DOMAIN nsh_entries \ {e} |-> nsh_entries[f]]
  /\ done' = << >>
  /\ UNCHANGED << node, from, n_left_to_next, ioam, fault >>

nsh_md2_set_next_ioam_export_override ==
  /\ ExportChanges /\ fault = "none" /\ from = << >>
  /\ ioam' = [ioam EXCEPT !.export = ~@]
  /\ done' = << >>
  /\ UNCHANGED << node, from, n_left_to_next, nsh_entries, fault >>

NodeStep ==
  \/ GetNextFrame
  \/ SingleLoop
  \/ DualLoop
  \/ DualSecondFails
  \/ DualFirstFails

Next ==
  \/ Dispatch
  \/ Handover
  \/ NodeStep
  \/ AddEntry
  \/ DelEntry
  \/ nsh_md2_set_next_ioam_export_override

\* A node function is a loop that runs to its end on the worker's own core.
Spec == Init /\ [][Next]_vars /\ WF_vars(NodeStep)

-----------------------------------------------------------------------------
\* What the nodes leave to those who configure them and to the nodes before
\* them.  No code looks after it; the theorems about the properties below name
\* what each of them needs.

InputNodes == {"nsh-input", "nsh-proxy", "nsh-classifier", "nsh-aware-vnf-proxy"}

\* No packet of a frame the dual loop gets is without a key or without a map.
Undisturbed ==
  \/ MaxFrame < 4
  \/ \A n \in DOMAIN Arrivals : \A p \in Arrivals[n] :
       /\ Parse(n, p).error = "none"
       /\ n \in InputNodes => Parse(n, p).key \in DOMAIN Maps

HeaderTrue(h) ==
  /\ h.bytes = h.length
  /\ h.bytes = IF h.md_type = 1 THEN MD1_HEADER_LEN
               ELSE BASE_HEADER_LEN + TlvBytes(h.tlvs)

\* Only the first header of a packet may be an NSH header, and its length is
\* true: it is there where the node says so, and nowhere else.
HeadersTrue ==
  \A n \in DOMAIN Arrivals : \A p \in Arrivals[n] :
    /\ \A i \in DOMAIN p.hdrs : p.hdrs[i].nsh => i = 1 /\ HeaderTrue(p.hdrs[1])
    /\ n \in {"nsh-input", "nsh-pop"} => p.hdrs[1].nsh
    /\ n \in InputNodes \ {"nsh-input"} => ~p.hdrs[1].nsh

\* The metadata of an entry fits a header, and md2 packets are swapped to
\* entries of md_type 2.
MetadataFits ==
  /\ \A e \in DOMAIN EntryArgs : EntryArgs[e].md_type = 2 =>
       BASE_HEADER_LEN + TlvBytes(EntryArgs[e].tlvs) < MAX_NSH_HEADER_LEN
  /\ \A n \in DOMAIN Arrivals \cap InputNodes : \A p \in Arrivals[n] :
       LET x == Parse(n, p)
       IN  /\ Head(x.pkt.hdrs).md_type = 2
           /\ x.key \in DOMAIN Maps /\ Maps[x.key].nsh_action = "swap"
           /\ Maps[x.key].mapped \in DOMAIN EntryArgs
           => /\ EntryArgs[Maps[x.key].mapped].md_type = 2
              /\ BASE_HEADER_LEN + TlvBytes(Head(x.pkt.hdrs).tlvs) < MAX_NSH_HEADER_LEN

\* A packet that has an NSH header is not given another one.
NoSecondHeader ==
  \A p \in UNION {Arrivals[n] : n \in DOMAIN Arrivals \cap {"nsh-input"}} :
    Head(p.hdrs).path \in DOMAIN Maps => Maps[Head(p.hdrs).path].nsh_action # "push"

\* What comes to nsh-pop is what nsh-input sends to iOAM export, and the bits of
\* its ttl that nsh-pop takes for bits of the length are zero.
ExportsTrue ==
  \A p \in UNION {Arrivals[n] : n \in DOMAIN Arrivals \cap {"nsh-pop"}} :
    LET h == Head(p.hdrs)
    IN  /\ h.path \in DOMAIN Maps /\ Maps[h.path].nsh_action = "pop"
        /\ h.md_type = 2 /\ Understood(h.tlvs, TRUE) = h.tlvs
        /\ h.ttl % 4 = 0
        /\ h.bytes = h.length /\ h.length > 0

-----------------------------------------------------------------------------
\* Properties

RoundType ==
  [was : PacketType, loop : {"single", "first", "second"}, pkt : PacketType,
   next : MapNextNodes \cup {"error-drop", "ioam-export", "ip4-arp",
                             "ip6-discover-neighbor"},
   error : {"none", "unset", "NO_MAPPING", "NO_ENTRY", "NO_PROXY",
            "INVALID_OPTIONS", "INVALID_TTL", "MTU_EXCEEDED"}]

\* Every variable keeps its type; the room left in the next frame never goes
\* below zero, whichever loop takes from it.
TypeOK ==
  /\ node \in NodeTypes
  /\ from \in Seq(PacketType)
  /\ n_left_to_next \in 0 .. MaxSpace
  /\ done \in Seq(RoundType)
  /\ DOMAIN nsh_entries \subseteq DOMAIN EntryArgs
  /\ nsh_entries \in [DOMAIN nsh_entries -> RewriteType]
  /\ ioam \in [profile : BOOLEAN, export : BOOLEAN]
  /\ fault \in {"none", "overrun", "null_map", "null_header", "no_adjacency", "no_next"}

\* The map the packet of a round was looked up with.
MapOf(r) == Maps[Parse(node, r.was).key]

\* A packet that is sent on with an NSH header in front has one whose length
\* field is the length of its base header and all its metadata, whatever the
\* packets before it have left in the rewrite of the entry.
LengthsTrue ==
  \A i \in DOMAIN done :
    LET h == Head(done[i].pkt.hdrs)
    IN  done[i].next # "error-drop" /\ h.nsh => HeaderTrue(h)

\* A packet whose md2 header is swapped keeps all of its own TLVs that are
\* understood, and gets none from the packet that used the entry before it.
OwnMetadata ==
  \A i \in DOMAIN done :
    LET r   == done[i]
        old == Head(r.was.hdrs)
        new == Head(r.pkt.hdrs)
    IN  (node = "nsh-input" /\ r.error = "none"
           /\ MapOf(r).nsh_action = "swap" /\ old.md_type = 2)
        => ToSet(new.tlvs) = IF ioam.profile THEN ToSet(old.tlvs) \cap Registered
                             ELSE {}

NshHeaders(p) == Cardinality({i \in DOMAIN p.hdrs : p.hdrs[i].nsh})

\* A packet a map has been applied to leaves with one NSH header, or with
\* none when the map pops it; only iOAM export gets it with the header that
\* was to be popped.  Its payload is what it came with.
OneHeader ==
  \A i \in DOMAIN done :
    LET r == done[i]
    IN  r.error = "none" =>
          /\ Last(r.pkt.hdrs) = Last(r.was.hdrs)
          /\ NshHeaders(r.pkt) =
               IF node \in OutputNodes \cup {"nsh-adj-incomplete"} THEN NshHeaders(r.was)
               ELSE IF MapOf(r).nsh_action = "pop" /\ r.next # "ioam-export" THEN 0 ELSE 1

\* The second packet of a round of the dual loop whose first was refused before
\* it: nothing has been parsed of it.
Unparsed(r) == r.loop = "second" /\ Parse(node, done[1].was).error # "none"

\* In either loop, a packet is dropped exactly for the errors that say so, or
\* without one for the sake of the packet behind it, and an error never changes
\* its headers.  "no entry" does not drop: such a packet goes to the next node of
\* its map, as it came.  Whatever is not dropped goes where the map of its own
\* key says, or to iOAM export instead of being popped, unless it was not parsed.
\* Refused for its ttl is a packet with a ttl of one, and none with zero.
FateHasReason ==
  fault = "none" => \A i \in DOMAIN done :
    LET r == done[i]
        x == Parse(node, r.was)
    IN  /\ r.next = "error-drop" <=>
             r.error \in {"NO_MAPPING", "NO_PROXY", "INVALID_OPTIONS", "INVALID_TTL",
                          "MTU_EXCEEDED", "unset"}
        /\ r.error = "unset" <=> /\ r.loop = "first" /\ x.error = "none"
                                 /\ Parse(node, done[2].was).error # "none"
        /\ r.error # "none" =>
             r.pkt.hdrs = IF Unparsed(r) THEN r.was.hdrs ELSE x.pkt.hdrs
        /\ ~Unparsed(r) =>
             /\ r.error = "INVALID_TTL" <=> node = "nsh-input" /\ Head(r.was.hdrs).ttl = 1
             /\ node \in InputNodes /\ r.error \in {"none", "NO_ENTRY"} =>
                  \/ r.next = MapOf(r).next_node
                  \/ r.next = "ioam-export" /\ ioam.export /\ MapOf(r).nsh_action = "pop"

SwappedTo == {Maps[k].mapped : k \in {j \in DOMAIN Maps : Maps[j].nsh_action = "swap"}}
PushedBy  == {Maps[k].mapped : k \in {j \in DOMAIN Maps : Maps[j].nsh_action = "push"}}

\* The node runs over memory or after a wrong pointer only for one of these: a
\* packet whose own metadata does not fit the entry it is swapped to; an entry one
\* map pushes while another one swaps to it, which leaves its own options there;
\* a round of the dual loop whose first packet was refused, or has no map; a
\* packet with an adjacency that is not there; any packet midchain lets pass.
FaultsHaveCauses ==
  /\ fault = "overrun" => \E i \in DOMAIN done : \E e \in DOMAIN EntryArgs :
       LET x == Parse(node, done[i].was)
       IN  /\ done[i].error = "none" /\ Head(done[i].pkt.hdrs).path = e
           /\ \/ Overrun(e, Understood(Tlvs(x.pkt, x.header_len), ioam.profile))
              \/ e \in SwappedTo \cap PushedBy
  /\ fault = "null_header" => Len(done) = 2 /\ Parse(node, done[1].was).error # "none"
  /\ fault = "null_map" =>
       /\ Len(done) = 2 /\ Parse(node, done[1].was).error = "none"
       /\ Parse(node, done[1].was).key \notin DOMAIN Maps
  /\ fault = "no_adjacency" =>
       node \in OutputNodes /\ \E i \in DOMAIN done : done[i].was.adj \notin DOMAIN Adjacency
  /\ fault = "no_next" => node = "nsh-midchain"

\* Every frame is worked off, unless a fault ends it: no combination of
\* packets left and room in the next frame stops both loops.
FrameCompletes == from # << >> ~> (from = << >> \/ fault # "none")

\* A packet that iOAM export has taken on a detour leaves nsh-pop as it would
\* have left nsh-input had export been off: to the same node, with the same
\* headers.
ExportDetour ==
  \A i \in DOMAIN done :
    LET direct == SinglePacket("nsh-input", done[i].was, nsh_entries,
                               [ioam EXCEPT !.export = FALSE])
    IN  node = "nsh-pop" =>
          /\ done[i].next = direct.next
          /\ done[i].pkt.hdrs = direct.pkt.hdrs

SameFate(r, s) ==
  /\ r.next = s.next
  /\ r.error = s.error
  /\ [r.pkt EXCEPT !.rx = 0] = [s.pkt EXCEPT !.rx = 0]

\* A round of the dual loop does to two packets that have a key what two
\* rounds of the single loop do, one after the other, although both may use
\* the same entry: same next node, error, headers and transport, and the same
\* rewrites left behind.  (The receiving interface is another matter.)
DualAsSingle ==
  [][LET r0 == SinglePacket(node, from[1], nsh_entries, ioam)
         r1 == SinglePacket(node, from[2], r0.entries, ioam)
     IN  /\ Len(done') = 2 /\ from' # from /\ fault' = "none"
         /\ Parse(node, from[1]).error = "none" /\ Parse(node, from[2]).error = "none"
         =>
           /\ SameFate(done'[1], r0)
           /\ SameFate(done'[2], r1)
           /\ nsh_entries' = r1.entries]_vars

-----------------------------------------------------------------------------
\* What the documentation and the comments say and the code does not do.

\* "Process packet 0" (nsh.c:1818), in the round with packet 1: a packet whose
\* path was found is processed, whatever the one it shares a round with is.
OwnFate ==
  \A i \in DOMAIN done :
    LET r == done[i]
    IN  Parse(node, r.was).error = "none" => r.error # "unset"

\* "Pop NSH header" (nsh_pop.c:148): what nsh-pop removes is the header, and
\* the packet behind it stays whole.
PopsTheHeader ==
  \A i \in DOMAIN done :
    LET r == done[i]
    IN  node = "nsh-pop" /\ r.error = "none" => Last(r.pkt.hdrs) = Last(r.was.hdrs)
=============================================================================
