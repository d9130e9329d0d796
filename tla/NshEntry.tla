------------------------------ MODULE NshEntry ------------------------------
(***************************************************************************)
(* The table of NSH entries, the headers that maps swap in and push        *)
(* (nsh-plugin/nsh/nsh.c): the command line and the binary API add and     *)
(* delete them, and the API dumps them.  The base header is kept as bytes, *)
(* for its ttl is spread over two of them: the upper four bits lie in      *)
(* ver_o_c, the lower two in length.                                       *)
(***************************************************************************)
EXTENDS Integers, VppPool

CONSTANTS
  Key,            \* nsp_nsi words
  Metadata,       \* what four context words, or a list of TLVs, may hold
  TlvLen,         \* bytes each takes as a list of TLVs
  NoTlvs, Trace,  \* the metadata the command line can ask for, of md type 2
  Profile,        \* is the library loaded that has the trace profile
  CliRequests,    \* what command lines may say
  ApiRequests,    \* what API messages may say
  NoValue         \* stands for "no entry" in the abstract table

Byte == 0 .. 255

\* ttl is -1 when the command line does not name one; flags is what version,
\* o-bit and c-bit come to.
CliRequestType ==
  [nsp_nsi : Key, flags : {16 * n : n \in 0 .. 15}, ttl : -1 .. 255,
   md_type : Byte, md : Metadata, trace : BOOLEAN]

ApiRequestType ==
  [nsp_nsi : Key, ver_o_c : Byte, ttl : Byte, length : Byte, md_type : Byte,
   md : Metadata]

ASSUME RequestAssumption ==
  /\ CliRequests \subseteq CliRequestType
  /\ ApiRequests \subseteq ApiRequestType
ASSUME MetadataAssumption ==
  /\ Profile \in BOOLEAN
  /\ NoTlvs \in Metadata /\ Trace \in Metadata
  /\ TlvLen \in [Metadata -> 0 .. 248] /\ TlvLen[NoTlvs] = 0

ASSUME NoValueAssumption ==
  NoValue \notin [flags : Byte, ttl : 0 .. 63, md_type : Byte, md : Metadata]

VARIABLES
  nsh_entries,       \* pool of entries
  nsh_entry_by_key,  \* key -> index, 0 if none
  reply,             \* what the last request was answered
  details,           \* the messages the last dump was answered with
  crashed            \* a null pointer was followed

vars == << nsh_entries, nsh_entry_by_key, reply, details, crashed >>

-----------------------------------------------------------------------------
NSH_TTL_H4(ttl) == (ttl % 64) \div 4   \* (ttl & NSH_LEN_MASK) >> 2
NSH_TTL_L2(ttl) == 64 * (ttl % 4)      \* (ttl & 0x3) << 6

High4(byte) == 16 * (byte \div 16)    \* byte & 0xF0

\* Faulty: the bits of the ttl are moved one place too few.
TtlShort(e) == ((e.ver_o_c % 16) * 2) + e.length \div 64

\* The ttl as the nodes and the dump put it together again.
Ttl(e) == ((e.ver_o_c % 16) * 4) + e.length \div 64

Words(md_type, md) ==
  CASE md_type = 1 -> 6
    [] md_type = 2 -> 2 + (TlvLen[md] + 3) \div 4
    [] OTHER       -> 0

\* The arguments both handlers make of a request, and the element they become.
Args(r, ver_o_c, length, md) ==
  [nsp_nsi |-> r.nsp_nsi, ver_o_c |-> ver_o_c, length |-> length,
   md_type |-> r.md_type, md |-> md, tlvs_data |-> r.md_type = 2 /\ TlvLen[md] > 0]

CliMd(r) == IF r.md_type # 2 THEN r.md ELSE IF r.trace THEN Trace ELSE NoTlvs

\* The default of 63 reaches the lower bits alone.
CliArgs(r) ==
  LET ttl == IF r.ttl = -1 THEN 63 ELSE r.ttl
      h4  == IF r.ttl = -1 THEN 0 ELSE NSH_TTL_H4(r.ttl)
  IN  Args(r, r.flags + h4, (Words(r.md_type, CliMd(r)) % 64) + NSH_TTL_L2(ttl),
           CliMd(r))

\* Faulty: ver_o_c is not masked, so that it keeps bits of another ttl.
ApiArgsUnmasked(r) ==
  Args(r, (r.ver_o_c + NSH_TTL_H4(r.ttl)) % 256,
       (r.length % 64) + NSH_TTL_L2(r.ttl), r.md)

ApiArgs(r) ==
  Args(r, High4(r.ver_o_c) + NSH_TTL_H4(r.ttl),
       (r.length % 64) + NSH_TTL_L2(r.ttl), r.md)

EntryExists(a) == nsh_entry_by_key[a.nsp_nsi] # 0

Init ==
  /\ nsh_entries = EmptyPool
  /\ nsh_entry_by_key = [k \in Key |-> 0]
  /\ reply = [src |-> "none", rv |-> 0, entry_index |-> 0]
  /\ details = << >>
  /\ crashed = FALSE

-----------------------------------------------------------------------------
\* Faulty: the key is not entered when an element is used again.
AddEntryNewOnly(a) ==
  /\ ~EntryExists(a) /\ a.md_type \in {1, 2}
  /\ nsh_entries' = PoolGet(nsh_entries, a)
  /\ nsh_entry_by_key' =
       [nsh_entry_by_key EXCEPT ![a.nsp_nsi] = Len(nsh_entries.elts) + 1]
  /\ UNCHANGED crashed

AddEntry(a) ==
  /\ ~EntryExists(a) /\ a.md_type \in {1, 2}
  /\ nsh_entries' = PoolGet(nsh_entries, a)
  /\ nsh_entry_by_key' =
       [nsh_entry_by_key EXCEPT ![a.nsp_nsi] = NextIndex(nsh_entries)]
  /\ UNCHANGED crashed

\* nsh_header_rewrite makes no rewrite for another md type, and writes to it.
CrashEntry(a) ==
  /\ ~EntryExists(a) /\ a.md_type \notin {1, 2}
  /\ crashed' = TRUE
  /\ UNCHANGED << nsh_entries, nsh_entry_by_key >>

\* Faulty: the key is left in the hash table.
DelEntryKeepsKey(a) ==
  /\ EntryExists(a)
  /\ nsh_entries' = PoolPut(nsh_entries, nsh_entry_by_key[a.nsp_nsi])
  /\ UNCHANGED << nsh_entry_by_key, crashed >>

\* The TLVs are freed, everything else of the element stays as it is.
DelEntry(a) ==
  LET i == nsh_entry_by_key[a.nsp_nsi]
  IN  /\ EntryExists(a)
      /\ nsh_entry_by_key' = [nsh_entry_by_key EXCEPT ![a.nsp_nsi] = 0]
      /\ nsh_entries' =
           PoolPut([nsh_entries EXCEPT !.elts[i].tlvs_data = FALSE], i)
      /\ UNCHANGED crashed

EntryRv(is_add, a) ==
  CASE is_add /\ EntryExists(a)   -> -1
    [] ~is_add /\ ~EntryExists(a) -> -2
    [] OTHER                      -> 0

nsh_add_del_entry(is_add, a) ==
  \/ EntryRv(is_add, a) # 0 /\ UNCHANGED << nsh_entries, nsh_entry_by_key, crashed >>
  \/ is_add /\ (AddEntry(a) \/ CrashEntry(a))
  \/ ~is_add /\ DelEntry(a)

\* entry_index is written only for an add, and only when it succeeds.
EntryIndexOut(is_add, a) ==
  IF is_add /\ ~EntryExists(a) THEN NextIndex(nsh_entries) ELSE 0

-----------------------------------------------------------------------------
\* The command line refuses TLVs in a header of md type 1, and a trace option
\* when there is no trace profile to take its size from.
CliRefuses(r) == r.trace /\ (r.md_type = 1 \/ (r.md_type = 2 /\ ~Profile))

nsh_add_del_entry_command_fn(is_add, r) ==
  LET a == CliArgs(r)
  IN  /\ ~crashed /\ details' = << >>
      /\ IF CliRefuses(r)
           THEN /\ reply' = [src |-> "cli", rv |-> -1, entry_index |-> 0]
                /\ UNCHANGED << nsh_entries, nsh_entry_by_key, crashed >>
           ELSE /\ nsh_add_del_entry(is_add, a)
                /\ reply' = [src |-> "cli", rv |-> EntryRv(is_add, a),
                             entry_index |-> EntryIndexOut(is_add, a)]

vl_api_nsh_add_del_entry_t_handler(is_add, r) ==
  LET a == ApiArgs(r)
  IN  /\ ~crashed /\ details' = << >>
      /\ nsh_add_del_entry(is_add, a)
      /\ reply' = [src |-> "api", rv |-> EntryRv(is_add, a),
                   entry_index |-> EntryIndexOut(is_add, a)]

\* One message of a dump.  Its entry_index is never set.
send_nsh_entry_details(e) ==
  [entry_index |-> 0, nsp_nsi |-> e.nsp_nsi, ver_o_c |-> e.ver_o_c,
   ttl |-> Ttl(e), length |-> e.length % 64, md_type |-> e.md_type, md |-> e.md]

\* Faulty: the elements of the vector are visited, free ones too.
DumpVector ==
  {[i \in DOMAIN nsh_entries.elts |-> send_nsh_entry_details(nsh_entries.elts[i])]}

\* The messages of a full dump, as a set of one sequence.
DumpAll ==
  {[j \in DOMAIN s |-> send_nsh_entry_details(nsh_entries.elts[s[j]])] :
     s \in PoolForeach(nsh_entries)}

vl_api_nsh_entry_dump_t_handler ==
  /\ ~crashed
  /\ details' \in DumpAll
  /\ reply' = [src |-> "dump_all", rv |-> 0, entry_index |-> 0]
  /\ UNCHANGED << nsh_entries, nsh_entry_by_key, crashed >>

\* A dump of one index asks only whether the vector is that long.  The TLVs of
\* an element that was freed are copied from a null pointer.
DumpOne(i) ==
  LET e == nsh_entries.elts[i]
  IN  /\ ~crashed
      /\ i \in DOMAIN nsh_entries.elts
      /\ reply' = [src |-> "dump_one", rv |-> 0, entry_index |-> i]
      /\ IF e.md_type = 2 /\ TlvLen[e.md] > 0 /\ ~e.tlvs_data
           THEN crashed' = TRUE /\ details' = << >>
           ELSE UNCHANGED crashed /\ details' = << send_nsh_entry_details(e) >>
      /\ UNCHANGED << nsh_entries, nsh_entry_by_key >>

Next ==
  \/ \E is_add \in BOOLEAN, r \in CliRequests :
       nsh_add_del_entry_command_fn(is_add, r)
  \/ \E is_add \in BOOLEAN, r \in ApiRequests :
       vl_api_nsh_add_del_entry_t_handler(is_add, r)
  \/ vl_api_nsh_entry_dump_t_handler
  \/ \E i \in DOMAIN nsh_entries.elts : DumpOne(i)

Spec == Init /\ [][Next]_vars

-----------------------------------------------------------------------------
\* Properties

EntryType ==
  [nsp_nsi : Key, ver_o_c : Byte, length : Byte, md_type : Byte, md : Metadata,
   tlvs_data : BOOLEAN]

DetailsType ==
  [entry_index : {0}, nsp_nsi : Key, ver_o_c : Byte, ttl : 0 .. 63,
   length : 0 .. 63, md_type : Byte, md : Metadata]

\* Every variable keeps its type, and the pool its shape: the bits that are
\* put together for the two bytes of the ttl never leave a byte.
TypeOK ==
  /\ nsh_entries \in PoolType(EntryType)
  /\ PoolOK(nsh_entries)
  /\ nsh_entry_by_key \in [Key -> Nat]
  /\ reply \in [src : {"none", "cli", "api", "dump_all", "dump_one"},
                rv : {0, -1, -2}, entry_index : Nat]
  /\ details \in Seq(DetailsType)
  /\ crashed \in BOOLEAN

\* The hash table and the pool of entries agree: a key leads to a live
\* element that holds it, and every live element is reached from its key, so
\* that the nodes never push a header out of a freed or a foreign entry.  The
\* TLVs of an entry that is there have not been freed.
EntryIndexSound ==
  /\ \A k \in Key : nsh_entry_by_key[k] # 0 =>
       /\ nsh_entry_by_key[k] \in Live(nsh_entries)
       /\ nsh_entries.elts[nsh_entry_by_key[k]].nsp_nsi = k
  /\ \A i \in Live(nsh_entries) :
       LET e == nsh_entries.elts[i]
       IN  /\ nsh_entry_by_key[e.nsp_nsi] = i
           /\ e.tlvs_data = (e.md_type = 2 /\ TlvLen[e.md] > 0)

\* What a request says, apart from how its bits are laid out.
Asked(r, md, flags, ttl) ==
  [flags |-> flags, ttl |-> ttl % 64, md_type |-> r.md_type, md |-> md]

Shown(e) ==
  [flags |-> High4(e.ver_o_c), ttl |-> Ttl(e), md_type |-> e.md_type,
   md |-> e.md]

EntryTable ==
  [k \in Key |-> IF nsh_entry_by_key[k] = 0 THEN NoValue
                 ELSE Shown(nsh_entries.elts[nsh_entry_by_key[k]])]

\* What may stand in the table: what the API was asked for; and what the
\* command line was, where it named a ttl, and with a ttl of 3 where not.
Askable ==
  {Asked(r, r.md, High4(r.ver_o_c), r.ttl) : r \in ApiRequests} \cup
  {Asked(r, CliMd(r), r.flags, IF r.ttl = -1 THEN 3 ELSE r.ttl) : r \in CliRequests}

EntryTbl == INSTANCE KeyedTable WITH
  Value <- Askable, None <- NoValue, table <- EntryTable

\* Pool, hash table and the layout of the bits together behave as a table of
\* entries that were asked for.
EntriesRefineTable == EntryTbl!Spec

\* A full dump tells the whole table and nothing else, each entry once,
\* whatever elements were freed and used again before.
DumpTellsAll ==
  reply.src = "dump_all" =>
    /\ \A k \in Key : EntryTable[k] # NoValue =>
         \E j \in DOMAIN details : details[j].nsp_nsi = k
    /\ \A j \in DOMAIN details : EntryTable[details[j].nsp_nsi] =
         Asked(details[j], details[j].md, High4(details[j].ver_o_c), details[j].ttl)
    /\ \A j, k \in DOMAIN details : details[j].nsp_nsi = details[k].nsp_nsi => j = k

\* A controller that restores what it has dumped restores it: the message of
\* an entry, sent back as a request, makes the same element.
DumpReinstalls ==
  reply.src = "dump_all" =>
    \A j \in DOMAIN details :
      \E i \in Live(nsh_entries) : nsh_entries.elts[i] = ApiArgs(details[j])
=============================================================================
