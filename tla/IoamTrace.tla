------------------------------ MODULE IoamTrace ------------------------------
(***************************************************************************)
(* The record of a packet's path that in-band OAM keeps in the trace       *)
(* option of its NSH header (nsh-md2-ioam/nsh_md2_ioam_trace.c), and what  *)
(* nsh_md2_encap, nsh_md2_swap and nsh_md2_decap (nsh.c) and the transit   *)
(* feature do with this option at the hops of a service chain.             *)
(*                                                                         *)
(* A hop that swaps copies the option of the packet into the rewrite of    *)
(* its entry, as many bytes as the option that is there is long, adds its  *)
(* record there and copies the result back.  So what a packet carries      *)
(* depends on the packets that used the entry before it.                   *)
(*                                                                         *)
(* A word of the list of records says which packet was recorded and where. *)
(* The library that keeps the trace profile is external: of a profile, the *)
(* number of records and the words each takes are kept.                    *)
(*                                                                         *)
(* The byte with the length of the header has the lower two bits of the    *)
(* ttl in it (ttl below).  The transit feature does not mask them: each of *)
(* the three values above 0 has it take the header for 256 bytes longer.   *)
(***************************************************************************)
EXTENDS Integers, Sequences

CONSTANTS
  NumPackets,
  Behind,         \* packet -> what is behind its header: less than that
                  \* ("short"), or what a scan reads as no trace option
                  \* ("plain"), or as one with room left ("option")
  Roles,          \* hop -> what may be done there with a packet that passes
  Ttls,           \* hop -> lower bits of the ttls an entry is added with
  Profiles,       \* trace profiles a hop may have
  RewriteWords,   \* bound: words of records the memory of a rewrite has
  MaxChanges      \* bound: changes to profiles and entries

Packet == 1 .. NumPackets
Hop == DOMAIN Roles

\* elts: num_elts; size: fetch_trace_data_size of the trace type, in words.
ProfileType == [elts : 1 .. 255, size : 1 .. 4]

OptionLength(profile) == (4 * profile.elts * profile.size + 4) % 256

ASSUME RoleAssumption ==
  Roles \in Seq(SUBSET {"push", "transit", "swap", "pop"}) /\ Roles # << >>
ASSUME TtlAssumption ==
  /\ Behind \in [Packet -> {"short", "plain", "option"}]
  /\ Ttls \in [Hop -> SUBSET (0 .. 3)]
\* The option that is made for a profile has its length in a byte and fits into
\* the rewrite.
ASSUME ProfileAssumption ==
  /\ NumPackets \in Nat /\ MaxChanges \in Nat /\ RewriteWords \in 1 .. 62
  /\ Profiles \subseteq {pr \in ProfileType : pr.elts * pr.size <= RewriteWords}

VARIABLES
  profile,   \* hop -> the profile the library has there
  rewrite,   \* hop -> the trace option in the rewrite of its entry
  ttl,       \* hop -> lower bits of the ttl in the header of its entry
  refilled,  \* history: the hops with a rewrite that a packet was copied to
  pkt,       \* packet -> where it is, its option, and its history
  changes

hopVars == << profile, rewrite, ttl, refilled >>
vars == << hopVars, pkt, changes >>

\* What memory holds that no hop has recorded: zeroes, and payload.
Zero == [pkt |-> 0, hop |-> 0]
Payload(p) == [pkt |-> p, hop |-> 0]
Record(p, h) == [pkt |-> p, hop |-> h]
WordType == [pkt : 0 .. NumPackets, hop : {0} \cup Hop]

\* The words of records in an option of this length.
NumWords(length) == IF length < 4 THEN 0 ELSE (length - 4) \div 4

-----------------------------------------------------------------------------
\* Faulty: one record too many is asked for.
RewriteFull(pr) ==
  [length |-> OptionLength(pr), left |-> pr.elts + 1, size |-> pr.size,
   words |-> [i \in 1 .. RewriteWords |-> Zero]]

nsh_md2_ioam_trace_rewrite_handler(pr) ==
  [length |-> OptionLength(pr), left |-> pr.elts, size |-> pr.size,
   words |-> [i \in 1 .. RewriteWords |-> Zero]]

\* The rewrite of an entry without a trace option is zero behind the base header.
BareRewrite ==
  [length |-> 0, left |-> 0, size |-> 0, words |-> [i \in 1 .. RewriteWords |-> Zero]]

\* What the entry of a hop may hold.  One that pushes is added with the option:
\* of the others NshForward tells.
NewRewrites(h, pr) ==
  {nsh_md2_ioam_trace_rewrite_handler(pr)} \cup
  IF "push" \in Roles[h] THEN {} ELSE {BareRewrite}

\* What a hop writes: the words from ElementAt(o, size) on, in the size of its
\* own profile.  The place is counted from the end.
ElementAt(o, size) == (o.left - 1) * size

\* Faulty: left is counted down below zero.
RecordedUnchecked(o, size, p, h) == [o EXCEPT !.left = @ - 1]

\* Faulty: the place is taken before left is counted down.
RecordedLate(o, size, p, h) ==
  IF o.left = 0 THEN o
  ELSE [o EXCEPT !.left = @ - 1,
                 !.words = [i \in DOMAIN @ |->
                              IF i - 1 \in o.left * size .. (o.left + 1) * size - 1
                                THEN Record(p, h) ELSE @[i]]]

Recorded(o, size, p, h) ==
  IF o.left = 0 THEN o
  ELSE [o EXCEPT !.left = @ - 1,
                 !.words = [i \in DOMAIN @ |->
                              IF i - 1 \in ElementAt(o, size) .. o.left * size - 1
                                THEN Record(p, h) ELSE @[i]]]

\* Does the record reach behind the end of the option?
Spills(o, size) == o.left * size > NumWords(o.length)

\* nsh_md2_ioam_trace_data_list_handler on the option in the packet.
DataList(p, h, seen) ==
  LET o == seen.opt
  IN  [seen EXCEPT !.opt = Recorded(o, profile[h].size, p, h),
                   !.path = Append(@, h),
                   !.wide = @ \/ profile[h].size > o.size,
                   !.agree = @ /\ profile[h].size = o.size,
                   !.hurt = @ \/ Spills(o, profile[h].size)]

-----------------------------------------------------------------------------
NoOption == [length |-> 0, left |-> 0, size |-> 0, words |-> << >>]

\* The history: the hops a packet was recorded at, whether all of them, or one
\* too wide, had elements of the size the option was made for, whether its
\* option is one other packets left, was cut short, whether what is behind the
\* header was scanned, and whether payload was overwritten.
NewPacket ==
  [state |-> "new", ttl |-> 0, opt |-> NoOption, path |-> << >>, wide |-> FALSE,
   agree |-> TRUE, soiled |-> FALSE, cut |-> FALSE, scanned |-> FALSE, hurt |-> FALSE]

Init ==
  /\ profile \in [Hop -> Profiles]
  /\ rewrite \in {r \in [Hop -> {BareRewrite} \cup
                                {nsh_md2_ioam_trace_rewrite_handler(pr) : pr \in Profiles}] :
                    \A h \in Hop : r[h] \in NewRewrites(h, profile[h])}
  /\ ttl \in {t \in [Hop -> 0 .. 3] : \A h \in Hop : t[h] \in Ttls[h]}
  /\ refilled = {}
  /\ pkt = [p \in Packet |-> NewPacket]
  /\ changes = 0

\* The option a packet gets when the rewrite is copied in front of it.
Sent(m) == [m EXCEPT !.words = SubSeq(@, 1, NumWords(m.length))]

\* Where the packet goes next, the last hop it was recorded at being the last
\* of its path.
NextHop(p) ==
  IF pkt[p].path = << >> THEN 1 ELSE pkt[p].path[Len(pkt[p].path)] + 1

Arrives(p, h, role) ==
  /\ role \in Roles[h]
  /\ pkt[p].state = "chain" /\ h = NextHop(p)

\* A classifier or proxy: the header comes from the rewrite, and the handler
\* runs on the copy.
Push(p, h) ==
  /\ "push" \in Roles[h] /\ pkt[p].state = "new"
  /\ pkt' = [pkt EXCEPT ![p] =
               DataList(p, h, [@ EXCEPT !.state = "chain", !.ttl = ttl[h],
                                        !.opt = Sent(rewrite[h]), !.soiled = h \in refilled])]
  /\ UNCHANGED << hopVars, changes >>

\* nsh-md2-ioam-encap-transit: the option is found in the packet.  With a ttl in
\* the length, a packet that ends before that is dropped; in any other the scan
\* goes on behind the header, and a handler writes into what reads as its option.
Transit(p, h) ==
  LET x    == pkt[p]
      seen == DataList(p, h, x)
      long == x.ttl # 0
  IN  /\ Arrives(p, h, "transit")
      /\ pkt' = [pkt EXCEPT ![p] =
                   IF long /\ Behind[p] = "short"
                     THEN [x EXCEPT !.state = "dropped"]
                     ELSE [seen EXCEPT !.scanned = seen.scanned \/ long,
                                       !.hurt = seen.hurt \/ (long /\ Behind[p] = "option")]]
      /\ UNCHANGED << hopVars, changes >>

\* Faulty: the records stay in the rewrite.
CopyFirst(m, o, p) ==
  [o EXCEPT !.words = m.words]

\* clib_memcpy (new_opt, old_opt, new_opt->length + 4): the length is that of
\* the option that is there.  It is read before it is overwritten.
CopyOption(m, o, p) ==
  [length |-> o.length,
   left   |-> IF m.length = 0 THEN m.left ELSE o.left,
   size   |-> IF m.length = 0 THEN m.size ELSE o.size,
   words  |-> [i \in 1 .. RewriteWords |->
                 IF i > NumWords(m.length) THEN m.words[i]
                 ELSE IF i \in DOMAIN o.words THEN o.words[i] ELSE Payload(p)]]

\* nsh_md2_swap, nsh_md2_ioam_trace_swap_handler, and the copy to the packet.
Swap(p, h) ==
  LET m == rewrite[h]
      seen == pkt[p]
      o == seen.opt
      copy == CopyOption(m, o, p)
      new  == Recorded(copy, profile[h].size, p, h)
  IN  /\ Arrives(p, h, "swap")
      /\ rewrite' = [rewrite EXCEPT ![h] = new]
      /\ refilled' = refilled \cup {h}
      /\ pkt' = [pkt EXCEPT ![p] =
                   [seen EXCEPT !.ttl = ttl[h],
                                !.opt = Sent(new),
                                !.path = Append(@, h),
                                !.wide = @ \/ profile[h].size > copy.size,
                                !.agree = @ /\ profile[h].size = copy.size,
                                !.cut = @ \/ m.length < o.length]]
      /\ UNCHANGED << profile, ttl, changes >>

\* nsh_md2_ioam_trace_pop_handler: the list is complete, for whoever reads it.
Pop(p, h) ==
  /\ Arrives(p, h, "pop")
  /\ pkt' = [pkt EXCEPT ![p] = [DataList(p, h, @) EXCEPT !.state = "popped"]]
  /\ UNCHANGED << hopVars, changes >>

-----------------------------------------------------------------------------
\* "set ioam-trace profile" at a hop; the entries that are there keep theirs.
SetProfile(h, pr) ==
  /\ changes < MaxChanges /\ pr # profile[h]
  /\ changes' = changes + 1
  /\ profile' = [profile EXCEPT ![h] = pr]
  /\ UNCHANGED << rewrite, ttl, refilled, pkt >>

\* The entry of a hop is deleted and added again.
ReplaceEntry(h, r, t) ==
  /\ changes < MaxChanges
  /\ changes' = changes + 1
  /\ ttl' = [ttl EXCEPT ![h] = t]
  /\ rewrite' = [rewrite EXCEPT ![h] = r]
  /\ refilled' = refilled \ {h}
  /\ UNCHANGED << profile, pkt >>

Next ==
  \/ \E p \in Packet, h \in Hop : Push(p, h) \/ Transit(p, h) \/ Swap(p, h) \/ Pop(p, h)
  \/ \E h \in Hop :
       \/ \E pr \in Profiles : SetProfile(h, pr)
       \/ \E r \in NewRewrites(h, profile[h]), t \in Ttls[h] : ReplaceEntry(h, r, t)

Spec == Init /\ [][Next]_vars

-----------------------------------------------------------------------------
\* Properties

OptionType(words) ==
  [length : 0 .. 255, left : 0 .. 255, size : 0 .. 4, words : words]

\* Every variable keeps its type.
TypeOK ==
  /\ profile \in [Hop -> Profiles]
  /\ \A h \in Hop : rewrite[h] \in OptionType([1 .. RewriteWords -> WordType])
  /\ ttl \in [Hop -> 0 .. 3]
  /\ refilled \subseteq Hop
  /\ \A p \in Packet :
       /\ pkt[p].opt \in OptionType(Seq(WordType))
       /\ Len(pkt[p].opt.words) = NumWords(pkt[p].opt.length)
       /\ pkt[p].path \in Seq(Hop)
       /\ pkt[p].ttl \in 0 .. 3
  /\ changes \in 0 .. MaxChanges

\* The list a path leaves in an option made for elts records of so many words.
ListOf(p, path, elts, size) ==
  [i \in 1 .. elts * size |->
     LET nth == elts - (i - 1) \div size
     IN  IF nth \in DOMAIN path THEN Record(p, path[nth]) ELSE Zero]

\* However many packets share the entries along the chain, the trace of a
\* packet tells its own path: its hops in order from the end of the list, as
\* many as there is room for -- if the hops agree on the size of a record, no
\* rewrite it was swapped through was shorter, and it was pushed with a rewrite
\* no packet was swapped through.
TraceTellsPath ==
  \A p \in Packet :
    LET o == pkt[p].opt
        elts == NumWords(o.length) \div o.size
    IN  pkt[p].state # "new" /\ pkt[p].agree /\ ~pkt[p].soiled /\ ~pkt[p].cut =>
          /\ o.words = ListOf(p, pkt[p].path, elts, o.size)
          /\ o.left = IF Len(pkt[p].path) < elts THEN elts - Len(pkt[p].path) ELSE 0

\* Even if the hops do not agree, a packet never carries records or payload of
\* another one unless it was cut or pushed with a used rewrite.
OwnRecordsOnly ==
  \A p \in Packet :
    ~pkt[p].soiled /\ ~pkt[p].cut =>
      \A i \in DOMAIN pkt[p].opt.words :
        LET w == pkt[p].opt.words[i] IN w = Zero \/ (w.pkt = p /\ w.hop # 0)

\* No hop writes over the payload behind the option, whatever packets its entry
\* was used for, unless it records more than the option was made for, or lets a
\* packet pass whose ttl has the scan go on into payload that reads as an option.
PayloadKept ==
  \A p \in Packet :
    pkt[p].hurt => pkt[p].wide \/ (pkt[p].scanned /\ Behind[p] = "option")
=============================================================================
