--------------------------- MODULE NshEntryProofs ---------------------------
(***************************************************************************)
(* Proofs about NshEntry for every set of keys, requests and metadata: the *)
(* hash table, the pool and the TLVs of the entries agree, and the six     *)
(* bits of a ttl come out of the two bytes they are spread over.           *)
(***************************************************************************)
EXTENDS NshEntry, SharedLemmas, FiniteSetTheorems

-----------------------------------------------------------------------------
\* The bits of the ttl

LEMMA Quarter ==
  ASSUME NEW x \in 0 .. 63
  PROVE  x \div 4 \in 0 .. 15 /\ x = 4 * (x \div 4) + (x % 4)
OBVIOUS

LEMMA TtlBits ==
  ASSUME NEW ttl \in Nat
  PROVE  /\ NSH_TTL_H4(ttl) \in 0 .. 15 /\ ttl % 4 \in 0 .. 3
         /\ 4 * NSH_TTL_H4(ttl) + (ttl % 4) = ttl % 64
<1> DEFINE x == ttl % 64
<1>1. x \in 0 .. 63 /\ ttl % 4 \in 0 .. 3 /\ x % 4 = ttl % 4
  OBVIOUS
<1>2. NSH_TTL_H4(ttl) = x \div 4
  BY DEF NSH_TTL_H4
<1> HIDE DEF x
<1>3. x \div 4 \in 0 .. 15 /\ x = 4 * (x \div 4) + (x % 4)
  BY <1>1, Quarter
<1>4. 4 * NSH_TTL_H4(ttl) + (ttl % 4) = x
  BY <1>1, <1>2, <1>3
<1> QED
  BY <1>1, <1>2, <1>3, <1>4 DEF x

LEMMA FlagBits ==
  ASSUME NEW b \in Byte
  PROVE  /\ High4(b) \in {16 * n : n \in 0 .. 15}
         /\ High4(b) % 16 = 0 /\ High4(b) \in 0 .. 240
BY DEF High4, Byte

LEMMA JoinedFlags ==
  ASSUME NEW f, f \in {16 * n : n \in 0 .. 15}, NEW h \in 0 .. 15
  PROVE  f + h \in Byte /\ (f + h) % 16 = h /\ High4(f + h) = f
<1>1. PICK n \in 0 .. 15 : f = 16 * n
  OBVIOUS
<1>2. (16 * n + h) \div 16 = n /\ (16 * n + h) % 16 = h
  OBVIOUS
<1> QED
  BY <1>1, <1>2 DEF High4, Byte

LEMMA JoinedLength ==
  ASSUME NEW len \in 0 .. 63, NEW l \in 0 .. 3
  PROVE  len + 64 * l \in Byte /\ (len + 64 * l) \div 64 = l
BY DEF Byte

\* An element that is laid out rightly and says what was asked for.
Tells(e, asked) ==
  /\ e \in EntryType
  /\ e.tlvs_data = (e.md_type = 2 /\ TlvLen[e.md] > 0)
  /\ Shown(e) = asked

Made(r, f, len, ttl, md) ==
  Args(r, f + NSH_TTL_H4(ttl), len + NSH_TTL_L2(ttl), md)

LEMMA MadeLemma ==
  ASSUME NEW r, r.nsp_nsi \in Key, r.md_type \in Byte, NEW md \in Metadata,
         NEW f, f \in {16 * n : n \in 0 .. 15}, NEW len \in 0 .. 63, NEW ttl \in Nat
  PROVE  Tells(Made(r, f, len, ttl, md), Asked(r, md, f, ttl))
<1> DEFINE h == NSH_TTL_H4(ttl)
           l == ttl % 4
           b == (r.md_type = 2 /\ TlvLen[md] > 0)
           e == Made(r, f, len, ttl, md)
<1>0. b \in BOOLEAN
  OBVIOUS
<1>1. h \in 0 .. 15 /\ l \in 0 .. 3 /\ 4 * h + l = ttl % 64
  BY TtlBits
<1>2. e = [nsp_nsi |-> r.nsp_nsi, ver_o_c |-> f + h, length |-> len + 64 * l,
           md_type |-> r.md_type, md |-> md, tlvs_data |-> b]
  BY DEF Made, Args, NSH_TTL_L2
<1> HIDE DEF h, l, b, e
<1>3. f + h \in Byte /\ (f + h) % 16 = h /\ High4(f + h) = f
  BY <1>1, JoinedFlags
<1>4. len + 64 * l \in Byte /\ (len + 64 * l) \div 64 = l
  BY <1>1, JoinedLength
<1>5. e \in EntryType
  BY <1>0, <1>2, <1>3, <1>4 DEF EntryType
<1>6. Ttl(e) = ttl % 64
  <2>1. (e.ver_o_c % 16) = h /\ (e.length \div 64) = l
    BY <1>2, <1>3, <1>4
  <2>2. Ttl(e) = (h * 4) + l
    BY <2>1, Zenon DEF Ttl
  <2> QED
    BY <1>1, <2>2
<1>7. Shown(e) = Asked(r, md, f, ttl)
  BY <1>2, <1>3, <1>6 DEF Shown, Asked
<1>8. e.tlvs_data = (e.md_type = 2 /\ TlvLen[e.md] > 0)
  BY <1>2 DEF b
<1>9. Tells(e, Asked(r, md, f, ttl))
  BY <1>5, <1>7, <1>8 DEF Tells
<1> QED
  BY <1>9 DEF e

LEMMA ApiArgsLemma ==
  ASSUME NEW r \in ApiRequests
  PROVE  \E asked \in Askable : Tells(ApiArgs(r), asked)
<1> DEFINE f == High4(r.ver_o_c)
           len == r.length % 64
           ttl == r.ttl
           md == r.md
<1>1. r \in ApiRequestType
  BY RequestAssumption
<1>2. /\ r.ver_o_c \in Byte /\ ttl \in Nat /\ r.length \in Nat
      /\ r.md_type \in Byte /\ md \in Metadata /\ r.nsp_nsi \in Key
  BY <1>1 DEF ApiRequestType, Byte
<1>3. f \in {16 * n : n \in 0 .. 15}
  BY <1>2, FlagBits
<1>4. len \in 0 .. 63
  BY <1>2
<1>5. ApiArgs(r) = Made(r, f, len, ttl, md)
  BY DEF ApiArgs, Made
<1>6. Asked(r, md, f, ttl) \in Askable
  BY DEF Askable
<1> HIDE DEF f, len, ttl, md
<1>7. Tells(Made(r, f, len, ttl, md), Asked(r, md, f, ttl))
  BY <1>2, <1>3, <1>4, MadeLemma, Zenon
<1> QED
  BY <1>5, <1>6, <1>7, Zenon

LEMMA WordsType ==
  ASSUME NEW t \in Byte, NEW md \in Metadata
  PROVE  Words(t, md) \in Nat
<1>1. TlvLen[md] \in Nat
  BY MetadataAssumption
<1>2. (TlvLen[md] + 3) \div 4 \in Nat
  BY <1>1
<1> QED
  BY <1>2 DEF Words

\* The default of 63 is a ttl of 3.
LEMMA CliArgsLemma ==
  ASSUME NEW r \in CliRequests
  PROVE  \E asked \in Askable : Tells(CliArgs(r), asked)
<1> DEFINE ttl == IF r.ttl = -1 THEN 3 ELSE r.ttl
           f == r.flags
           md == CliMd(r)
           len == Words(r.md_type, md) % 64
<1>1. r \in CliRequestType
  BY RequestAssumption
<1>2. /\ r.nsp_nsi \in Key /\ r.md_type \in Byte /\ r.md \in Metadata
      /\ f \in {16 * n : n \in 0 .. 15} /\ r.ttl \in -1 .. 255
  BY <1>1 DEF CliRequestType
<1>3. md \in Metadata
  BY <1>2, MetadataAssumption DEF CliMd
<1>4. len \in 0 .. 63
  BY <1>2, <1>3, WordsType
<1>5. ttl \in Nat
  BY <1>2
<1>6. CliArgs(r) = Made(r, f, len, ttl, md)
  <2>1. CASE r.ttl = -1
    <3>1. NSH_TTL_H4(3) = 0 /\ NSH_TTL_L2(3) = NSH_TTL_L2(63)
      BY DEF NSH_TTL_H4, NSH_TTL_L2
    <3> QED
      BY <2>1, <3>1 DEF CliArgs, Made
  <2>2. CASE r.ttl # -1
    BY <2>2 DEF CliArgs, Made
  <2> QED
    BY <2>1, <2>2
<1>7. Asked(r, md, f, ttl) \in Askable
  BY DEF Askable
<1> HIDE DEF ttl, f, md, len
<1>8. Tells(Made(r, f, len, ttl, md), Asked(r, md, f, ttl))
  BY <1>2, <1>3, <1>4, <1>5, MadeLemma, Zenon
<1> QED
  BY <1>6, <1>7, <1>8, Zenon

-----------------------------------------------------------------------------
\* The table

EntryTypeOK ==
  /\ nsh_entries \in PoolType(EntryType)
  /\ PoolOK(nsh_entries)
  /\ nsh_entry_by_key \in [Key -> Nat]

entryVars == << nsh_entries, nsh_entry_by_key >>

EntryInv == EntryTypeOK /\ EntryIndexSound

\* What adding an entry does to the pool and to the hash table.
LEMMA AddEffect ==
  ASSUME EntryTypeOK, NEW a \in EntryType, AddEntry(a),
         NEW n, n = NextIndex(nsh_entries)
  PROVE  /\ n \in Nat \ {0} /\ n \notin Live(nsh_entries)
         /\ EntryTypeOK'
         /\ Live(nsh_entries') = Live(nsh_entries) \cup {n}
         /\ nsh_entries'.elts[n] = a
         /\ \A i \in DOMAIN nsh_entries.elts :
              i # n => nsh_entries'.elts[i] = nsh_entries.elts[i]
         /\ a.nsp_nsi \in Key /\ nsh_entry_by_key[a.nsp_nsi] = 0
         /\ nsh_entry_by_key'[a.nsp_nsi] = n
         /\ \A k \in Key : k # a.nsp_nsi => nsh_entry_by_key'[k] = nsh_entry_by_key[k]
<1>1. /\ nsh_entries \in PoolType(EntryType) /\ PoolOK(nsh_entries)
      /\ nsh_entries' = PoolGet(nsh_entries, a)
  BY DEF EntryTypeOK, AddEntry
<1>2. /\ n \in Nat \ {0}
      /\ n \notin Live(nsh_entries)
      /\ nsh_entries' \in PoolType(EntryType)
      /\ PoolOK(nsh_entries')
      /\ Live(nsh_entries') = Live(nsh_entries) \cup {n}
      /\ nsh_entries'.elts[n] = a
      /\ \A i \in DOMAIN nsh_entries.elts :
           i # n => nsh_entries'.elts[i] = nsh_entries.elts[i]
  BY <1>1, PoolGetLemma
<1>3. a.nsp_nsi \in Key /\ nsh_entry_by_key[a.nsp_nsi] = 0
  BY DEF EntryType, AddEntry, EntryExists
<1>4. /\ nsh_entry_by_key' \in [Key -> Nat]
      /\ nsh_entry_by_key'[a.nsp_nsi] = n
      /\ \A k \in Key : k # a.nsp_nsi => nsh_entry_by_key'[k] = nsh_entry_by_key[k]
  BY <1>2, <1>3 DEF AddEntry, EntryTypeOK
<1> QED
  BY <1>2, <1>3, <1>4 DEF EntryTypeOK

LEMMA AddSound ==
  ASSUME EntryInv, NEW a \in EntryType, AddEntry(a),
         a.tlvs_data = (a.md_type = 2 /\ TlvLen[a.md] > 0)
  PROVE  EntryInv'
<1> DEFINE p == nsh_entries
           q == nsh_entries'
           n == NextIndex(nsh_entries)
           k == a.nsp_nsi
<1>1. EntryTypeOK /\ EntryIndexSound
  BY DEF EntryInv
<1>2. /\ n \in Nat \ {0} /\ n \notin Live(p)
      /\ EntryTypeOK'
      /\ Live(q) = Live(p) \cup {n}
      /\ q.elts[n] = a
      /\ \A i \in DOMAIN p.elts : i # n => q.elts[i] = p.elts[i]
      /\ k \in Key /\ nsh_entry_by_key[k] = 0
      /\ nsh_entry_by_key'[k] = n
      /\ \A l \in Key : l # k => nsh_entry_by_key'[l] = nsh_entry_by_key[l]
  BY <1>1, AddEffect
<1>3. \A i \in Live(p) : i # n /\ i # 0 /\ q.elts[i] = p.elts[i] /\ p.elts[i] \in EntryType
  BY <1>1, <1>2 DEF Live, EntryTypeOK, PoolType
<1> HIDE DEF p, q, n, k
<1>4. ASSUME NEW l \in Key, nsh_entry_by_key'[l] # 0
      PROVE  /\ nsh_entry_by_key'[l] \in Live(q)
             /\ q.elts[nsh_entry_by_key'[l]].nsp_nsi = l
  <2>1. CASE l = k
    BY <1>2, <2>1 DEF k
  <2>2. CASE l # k
    <3>1. nsh_entry_by_key'[l] = nsh_entry_by_key[l]
      BY <1>2, <2>2
    <3>2. /\ nsh_entry_by_key[l] \in Live(p)
          /\ p.elts[nsh_entry_by_key[l]].nsp_nsi = l
      BY <1>1, <1>4, <3>1 DEF EntryIndexSound, p
    <3> QED
      BY <1>2, <1>3, <3>1, <3>2
  <2> QED
    BY <2>1, <2>2
<1>5. ASSUME NEW i \in Live(q)
      PROVE  /\ nsh_entry_by_key'[q.elts[i].nsp_nsi] = i
             /\ q.elts[i].tlvs_data = (q.elts[i].md_type = 2 /\ TlvLen[q.elts[i].md] > 0)
  <2>1. CASE i = n
    BY <1>2, <2>1 DEF k
  <2>2. CASE i # n
    <3>1. i \in Live(p) /\ q.elts[i] = p.elts[i] /\ i # 0
      BY <1>2, <1>3, <2>2
    <3>2. /\ nsh_entry_by_key[p.elts[i].nsp_nsi] = i
          /\ p.elts[i].tlvs_data = (p.elts[i].md_type = 2 /\ TlvLen[p.elts[i].md] > 0)
      BY <1>1, <3>1 DEF EntryIndexSound, p
    <3>3. p.elts[i].nsp_nsi \in Key /\ p.elts[i].nsp_nsi # k
      BY <1>2, <1>3, <3>1, <3>2 DEF EntryType
    <3> QED
      BY <1>2, <3>1, <3>2, <3>3
  <2> QED
    BY <2>1, <2>2
<1>6. EntryIndexSound'
  BY <1>4, <1>5 DEF EntryIndexSound, q
<1> QED
  BY <1>2, <1>6 DEF EntryInv

\* What deleting an entry does to the pool and to the hash table.
LEMMA DelEffect ==
  ASSUME EntryInv, NEW a \in EntryType, DelEntry(a),
         NEW i, i = nsh_entry_by_key[a.nsp_nsi]
  PROVE  /\ i # 0 /\ i \in Live(nsh_entries)
         /\ EntryTypeOK'
         /\ Live(nsh_entries') = Live(nsh_entries) \ {i}
         /\ \A j \in DOMAIN nsh_entries.elts :
              j # i => nsh_entries'.elts[j] = nsh_entries.elts[j]
         /\ a.nsp_nsi \in Key
         /\ nsh_entry_by_key'[a.nsp_nsi] = 0
         /\ \A k \in Key : k # a.nsp_nsi => nsh_entry_by_key'[k] = nsh_entry_by_key[k]
<1> DEFINE p == [nsh_entries EXCEPT !.elts[i].tlvs_data = FALSE]
           r == [nsh_entries.elts[i] EXCEPT !.tlvs_data = FALSE]
<1>1. /\ nsh_entries \in PoolType(EntryType) /\ PoolOK(nsh_entries)
      /\ nsh_entries.elts \in Seq(EntryType) /\ nsh_entries.free \in Seq(Nat)
      /\ nsh_entry_by_key \in [Key -> Nat] /\ EntryIndexSound
  BY DEF EntryInv, EntryTypeOK, PoolType
<1>2. /\ a.nsp_nsi \in Key /\ i # 0 /\ i \in Live(nsh_entries)
      /\ i \in DOMAIN nsh_entries.elts
  BY <1>1 DEF EntryType, DelEntry, EntryExists, EntryIndexSound, Live
<1>3. /\ nsh_entries' = PoolPut(p, i)
      /\ nsh_entry_by_key' = [nsh_entry_by_key EXCEPT ![a.nsp_nsi] = 0]
  BY DEF DelEntry
<1>4. r \in EntryType
  <2>1. nsh_entries.elts[i] \in EntryType
    BY <1>1, <1>2
  <2> QED
    BY <2>1 DEF EntryType
<1>5. p = [elts |-> [nsh_entries.elts EXCEPT ![i] = r], free |-> nsh_entries.free]
  <2>1. nsh_entries = [elts |-> nsh_entries.elts, free |-> nsh_entries.free]
    BY <1>1 DEF PoolType
  <2>2. p = [nsh_entries EXCEPT !.elts = [nsh_entries.elts EXCEPT ![i] = r]]
    OBVIOUS
  <2> QED
    BY <2>1, <2>2
<1> HIDE DEF p, r
<1>6. /\ p.elts \in Seq(EntryType) /\ p.free = nsh_entries.free
      /\ DOMAIN p.elts = DOMAIN nsh_entries.elts
      /\ \A j \in DOMAIN nsh_entries.elts : j # i => p.elts[j] = nsh_entries.elts[j]
  BY <1>1, <1>2, <1>4, <1>5, ExceptSeq
<1>7. /\ p \in PoolType(EntryType) /\ PoolOK(p) /\ Live(p) = Live(nsh_entries)
  BY <1>1, <1>5, <1>6 DEF PoolType, PoolOK, Live, Freed
<1>8. /\ nsh_entries' \in PoolType(EntryType) /\ PoolOK(nsh_entries')
      /\ nsh_entries'.elts = p.elts /\ Live(nsh_entries') = Live(p) \ {i}
  BY <1>2, <1>3, <1>7, PoolPutLemma
<1>9. /\ nsh_entry_by_key' \in [Key -> Nat]
      /\ nsh_entry_by_key'[a.nsp_nsi] = 0
      /\ \A k \in Key : k # a.nsp_nsi => nsh_entry_by_key'[k] = nsh_entry_by_key[k]
  BY <1>1, <1>2, <1>3
<1> QED
  BY <1>2, <1>6, <1>7, <1>8, <1>9 DEF EntryTypeOK

LEMMA DelSound ==
  ASSUME EntryInv, NEW a \in EntryType, DelEntry(a)
  PROVE  EntryInv'
<1> DEFINE p == nsh_entries
           q == nsh_entries'
           k == a.nsp_nsi
           n == nsh_entry_by_key[a.nsp_nsi]
<1>1. EntryTypeOK /\ EntryIndexSound
  BY DEF EntryInv
<1>2. /\ n # 0 /\ n \in Live(p) /\ EntryTypeOK'
      /\ Live(q) = Live(p) \ {n}
      /\ \A j \in DOMAIN p.elts : j # n => q.elts[j] = p.elts[j]
      /\ k \in Key /\ nsh_entry_by_key'[k] = 0
      /\ \A l \in Key : l # k => nsh_entry_by_key'[l] = nsh_entry_by_key[l]
  BY DelEffect
<1>3. \A i \in Live(p) : p.elts[i] \in EntryType /\ (i # n => q.elts[i] = p.elts[i])
  BY <1>1, <1>2 DEF Live, EntryTypeOK, PoolType
<1>4. p.elts[n].nsp_nsi = k
  BY <1>1, <1>2 DEF EntryIndexSound
<1>5. ASSUME NEW l \in Key, nsh_entry_by_key'[l] # 0
      PROVE  /\ nsh_entry_by_key'[l] \in Live(q)
             /\ q.elts[nsh_entry_by_key'[l]].nsp_nsi = l
  <2>1. l # k /\ nsh_entry_by_key'[l] = nsh_entry_by_key[l]
    BY <1>2, <1>5
  <2>2. /\ nsh_entry_by_key[l] \in Live(p)
        /\ p.elts[nsh_entry_by_key[l]].nsp_nsi = l
    BY <1>1, <1>5, <2>1 DEF EntryIndexSound
  <2>3. nsh_entry_by_key[l] # n
    BY <1>4, <2>1, <2>2
  <2> QED
    BY <1>2, <1>3, <2>1, <2>2, <2>3
<1>6. ASSUME NEW i \in Live(q)
      PROVE  /\ nsh_entry_by_key'[q.elts[i].nsp_nsi] = i
             /\ q.elts[i].tlvs_data = (q.elts[i].md_type = 2 /\ TlvLen[q.elts[i].md] > 0)
  <2>1. i \in Live(p) /\ i # n /\ q.elts[i] = p.elts[i] /\ p.elts[i].nsp_nsi \in Key
    BY <1>2, <1>3, <1>6 DEF EntryType
  <2>2. /\ nsh_entry_by_key[p.elts[i].nsp_nsi] = i
        /\ p.elts[i].tlvs_data = (p.elts[i].md_type = 2 /\ TlvLen[p.elts[i].md] > 0)
    BY <1>1, <2>1 DEF EntryIndexSound
  <2>3. p.elts[i].nsp_nsi # k
    BY <2>1, <2>2
  <2> QED
    BY <1>2, <2>1, <2>2, <2>3
<1> HIDE DEF p, q, k, n
<1>7. EntryIndexSound'
  BY <1>5, <1>6 DEF EntryIndexSound, q
<1> QED
  BY <1>2, <1>7 DEF EntryInv

\* Every request keeps the tables sound, whichever of its branches it takes.
LEMMA RequestSound ==
  ASSUME EntryInv, NEW is_add \in BOOLEAN, NEW a, NEW asked, Tells(a, asked),
         nsh_add_del_entry(is_add, a)
  PROVE  EntryInv'
<1>1. a \in EntryType /\ a.tlvs_data = (a.md_type = 2 /\ TlvLen[a.md] > 0)
  BY DEF Tells
<1>2. CASE UNCHANGED entryVars
  BY <1>2 DEF entryVars, EntryInv, EntryTypeOK, EntryIndexSound
<1>3. CASE AddEntry(a)
  BY <1>1, <1>3, AddSound
<1>4. CASE DelEntry(a)
  BY <1>1, <1>4, DelSound
<1> QED
  BY <1>2, <1>3, <1>4 DEF nsh_add_del_entry, CrashEntry, entryVars

\* What a step does to the tables: nothing, or what a request asks for.
LEMMA StepCases ==
  ASSUME [Next]_vars
  PROVE  \/ UNCHANGED entryVars
         \/ \E is_add \in BOOLEAN, asked \in Askable, a \in EntryType :
              Tells(a, asked) /\ nsh_add_del_entry(is_add, a)
<1>1. ASSUME NEW is_add \in BOOLEAN, NEW r \in CliRequests,
             nsh_add_del_entry_command_fn(is_add, r)
      PROVE  \/ UNCHANGED entryVars
             \/ \E asked \in Askable, a \in EntryType :
                  Tells(a, asked) /\ nsh_add_del_entry(is_add, a)
  <2>1. CASE CliRefuses(r)
    BY <1>1, <2>1 DEF nsh_add_del_entry_command_fn, entryVars
  <2>2. CASE ~CliRefuses(r)
    <3>1. PICK asked \in Askable : Tells(CliArgs(r), asked)
      BY CliArgsLemma
    <3>2. CliArgs(r) \in EntryType
      BY <3>1 DEF Tells
    <3>3. nsh_add_del_entry(is_add, CliArgs(r))
      BY <1>1, <2>2 DEF nsh_add_del_entry_command_fn
    <3> QED
      BY <3>1, <3>2, <3>3
  <2> QED
    BY <2>1, <2>2
<1>2. ASSUME NEW is_add \in BOOLEAN, NEW r \in ApiRequests,
             vl_api_nsh_add_del_entry_t_handler(is_add, r)
      PROVE  \E asked \in Askable, a \in EntryType :
               Tells(a, asked) /\ nsh_add_del_entry(is_add, a)
  <2>1. PICK asked \in Askable : Tells(ApiArgs(r), asked)
    BY ApiArgsLemma
  <2>2. ApiArgs(r) \in EntryType
    BY <2>1 DEF Tells
  <2>3. nsh_add_del_entry(is_add, ApiArgs(r))
    BY <1>2 DEF vl_api_nsh_add_del_entry_t_handler
  <2> QED
    BY <2>1, <2>2, <2>3
<1>3. CASE vl_api_nsh_entry_dump_t_handler
  BY <1>3 DEF vl_api_nsh_entry_dump_t_handler, entryVars
<1>4. ASSUME NEW i, DumpOne(i)
      PROVE  UNCHANGED entryVars
  BY <1>4 DEF DumpOne, entryVars
<1>5. CASE UNCHANGED vars
  BY <1>5 DEF vars, entryVars
<1> QED
  BY <1>1, <1>2, <1>3, <1>4, <1>5 DEF Next

LEMMA EntriesInvariant == Spec => []EntryInv
<1>1. Init => EntryInv
  BY DEF Init, EntryInv, EntryTypeOK, EntryIndexSound, EmptyPool, PoolType, PoolOK,
         Live, Freed, ToSet
<1>2. EntryInv /\ [Next]_vars => EntryInv'
  <2> SUFFICES ASSUME EntryInv, [Next]_vars PROVE EntryInv'
    OBVIOUS
  <2>1. CASE UNCHANGED entryVars
    BY <2>1 DEF entryVars, EntryInv, EntryTypeOK, EntryIndexSound
  <2>2. ASSUME NEW is_add \in BOOLEAN, NEW asked \in Askable, NEW a \in EntryType,
               Tells(a, asked), nsh_add_del_entry(is_add, a)
        PROVE  EntryInv'
    BY <2>2, RequestSound
  <2> QED
    BY <2>1, <2>2, StepCases
<1> QED
  BY <1>1, <1>2, PTL DEF Spec

\* Hash table and pool of entries agree, and the TLVs of an entry that is there
\* are there: the nodes that take a header out of an entry (nsh.c:1857-1866)
\* never meet a freed or a foreign one.
THEOREM EntryIndexCorrect == Spec => []EntryIndexSound
BY EntriesInvariant, PTL DEF EntryInv

-----------------------------------------------------------------------------
\* The refinement

LEMMA ShownType ==
  ASSUME NEW e \in EntryType
  PROVE  Shown(e) # NoValue
<1>1. e.ver_o_c \in Byte /\ e.length \in Byte /\ e.md_type \in Byte /\ e.md \in Metadata
  BY DEF EntryType
<1>2. e.ver_o_c % 16 \in 0 .. 15 /\ e.length \div 64 \in 0 .. 3
  BY <1>1 DEF Byte
<1>3. Ttl(e) \in 0 .. 63
  BY <1>2 DEF Ttl
<1>4. High4(e.ver_o_c) \in Byte
  <2>1. High4(e.ver_o_c) \in 0 .. 240
    BY <1>1, FlagBits
  <2> QED
    BY <2>1 DEF Byte
<1> QED
  BY <1>1, <1>3, <1>4, NoValueAssumption DEF Shown

LEMMA RequestRefines ==
  ASSUME EntryInv, NEW is_add \in BOOLEAN, NEW asked \in Askable, NEW a \in EntryType,
         Tells(a, asked), nsh_add_del_entry(is_add, a)
  PROVE  [EntryTbl!Next]_EntryTable
<1> DEFINE p == nsh_entries
           q == nsh_entries'
           k == a.nsp_nsi
<1>1. /\ nsh_entry_by_key \in [Key -> Nat]
      /\ \A l \in Key : nsh_entry_by_key[l] # 0 =>
           nsh_entry_by_key[l] \in Live(p) /\ p.elts[nsh_entry_by_key[l]].nsp_nsi = l
  BY DEF EntryInv, EntryTypeOK, EntryIndexSound
<1>2. CASE UNCHANGED entryVars
  BY <1>2 DEF entryVars, EntryTable
<1>3. CASE AddEntry(a)
  <2> DEFINE n == NextIndex(nsh_entries)
  <2>1. /\ n # 0 /\ n \notin Live(p) /\ q.elts[n] = a
        /\ \A i \in DOMAIN p.elts : i # n => q.elts[i] = p.elts[i]
        /\ k \in Key /\ nsh_entry_by_key[k] = 0 /\ nsh_entry_by_key'[k] = n
        /\ \A l \in Key : l # k => nsh_entry_by_key'[l] = nsh_entry_by_key[l]
    BY <1>3, AddEffect DEF EntryInv
  <2>2. Shown(a) = asked
    BY DEF Tells
  <2> HIDE DEF n
  <2>3. ASSUME NEW l \in Key
        PROVE  EntryTable'[l] = [EntryTable EXCEPT ![k] = asked][l]
    <3>1. CASE l = k
      BY <2>1, <2>2, <3>1 DEF EntryTable
    <3>2. CASE l # k /\ nsh_entry_by_key[l] = 0
      BY <2>1, <3>2 DEF EntryTable
    <3>3. CASE l # k /\ nsh_entry_by_key[l] # 0
      <4>1. q.elts[nsh_entry_by_key[l]] = p.elts[nsh_entry_by_key[l]]
        BY <1>1, <2>1, <3>3 DEF Live
      <4> QED
        BY <2>1, <3>3, <4>1 DEF EntryTable
    <3> QED
      BY <3>1, <3>2, <3>3
  <2>4. EntryTable' = [EntryTable EXCEPT ![k] = asked]
    BY <2>3 DEF EntryTable
  <2>5. EntryTable[k] = NoValue
    BY <2>1 DEF EntryTable
  <2>6. EntryTbl!Add(k, asked)
    BY <2>4, <2>5 DEF EntryTbl!Add
  <2> QED
    BY <2>1, <2>6 DEF EntryTbl!Next
<1>4. CASE DelEntry(a)
  <2> DEFINE n == nsh_entry_by_key[k]
  <2>1. /\ n # 0 /\ n \in Live(p)
        /\ \A j \in DOMAIN p.elts : j # n => q.elts[j] = p.elts[j]
        /\ k \in Key /\ nsh_entry_by_key'[k] = 0
        /\ \A l \in Key : l # k => nsh_entry_by_key'[l] = nsh_entry_by_key[l]
    BY <1>4, DelEffect
  <2>2. ASSUME NEW l \in Key
        PROVE  EntryTable'[l] = [EntryTable EXCEPT ![k] = NoValue][l]
    <3>1. CASE l = k
      BY <2>1, <3>1 DEF EntryTable
    <3>2. CASE l # k /\ nsh_entry_by_key[l] = 0
      BY <2>1, <3>2 DEF EntryTable
    <3>3. CASE l # k /\ nsh_entry_by_key[l] # 0
      <4>1. nsh_entry_by_key[l] # n /\ nsh_entry_by_key[l] \in DOMAIN p.elts
        BY <1>1, <2>1, <3>3 DEF Live
      <4>2. q.elts[nsh_entry_by_key[l]] = p.elts[nsh_entry_by_key[l]]
        BY <2>1, <4>1
      <4> QED
        BY <2>1, <3>3, <4>2 DEF EntryTable
    <3> QED
      BY <3>1, <3>2, <3>3
  <2>3. EntryTable' = [EntryTable EXCEPT ![k] = NoValue]
    BY <2>2 DEF EntryTable
  <2>4. EntryTable[k] # NoValue
    <3>1. p.elts[n] \in EntryType
      BY <2>1 DEF Live, EntryInv, EntryTypeOK, PoolType
    <3>2. EntryTable[k] = Shown(p.elts[n])
      BY <2>1 DEF EntryTable
    <3> QED
      BY <3>1, <3>2, ShownType
  <2>5. EntryTbl!Del(k)
    BY <2>3, <2>4 DEF EntryTbl!Del
  <2> QED
    BY <2>1, <2>5 DEF EntryTbl!Next
<1> QED
  BY <1>2, <1>3, <1>4 DEF nsh_add_del_entry, CrashEntry, entryVars

\* The entry table implements a keyed table of what was asked for: whatever is
\* added and deleted, through the command line or the API, a key has the
\* flags, the ttl, the md type and the metadata of the request that bound it.
THEOREM EntriesImplementTable == Spec => EntriesRefineTable
<1>1. Init => EntryTbl!Init
  BY DEF Init, EntryTbl!Init, EntryTable
<1>2. ASSUME EntryInv, [Next]_vars
      PROVE  [EntryTbl!Next]_EntryTable
  <2>1. CASE UNCHANGED entryVars
    BY <2>1 DEF entryVars, EntryTable
  <2>2. ASSUME NEW is_add \in BOOLEAN, NEW asked \in Askable, NEW a \in EntryType,
               Tells(a, asked), nsh_add_del_entry(is_add, a)
        PROVE  [EntryTbl!Next]_EntryTable
    BY <1>2, <2>2, RequestRefines
  <2> QED
    BY <1>2, <2>1, <2>2, StepCases
<1> QED
  BY <1>1, <1>2, EntriesInvariant, PTL DEF Spec, EntriesRefineTable, EntryTbl!Spec

-----------------------------------------------------------------------------
\* Dumps

\* pool_foreach visits the live elements, each once.
LEMMA ForeachLemma ==
  ASSUME NEW S, NEW p \in PoolType(S), NEW s \in PoolForeach(p)
  PROVE  /\ \E n \in Nat : DOMAIN s = 1 .. n
         /\ \A j \in DOMAIN s : s[j] \in Live(p)
         /\ \A i \in Live(p) : \E j \in DOMAIN s : s[j] = i
         /\ \A j, k \in DOMAIN s : s[j] = s[k] => j = k
<1> DEFINE L == Live(p)
           n == Cardinality(L)
<1>1. L \subseteq 1 .. Len(p.elts) /\ Len(p.elts) \in Nat
  BY DEF Live, PoolType
<1>2. IsFiniteSet(L)
  <2>1. IsFiniteSet(1 .. Len(p.elts))
    BY <1>1, FS_Interval
  <2> HIDE DEF L
  <2> QED
    BY <1>1, <2>1, FS_Subset
<1>3. n \in Nat
  <2> HIDE DEF L
  <2> QED
    BY <1>2, FS_CardinalityType
<1>4. /\ s \in [1 .. n -> L] /\ ToSet(s) = L
      /\ \A j, k \in DOMAIN s : j < k => s[j] < s[k]
  BY DEF PoolForeach
<1>5. \A i \in L : i \in Nat
  BY <1>1
<1> HIDE DEF L, n
<1>6. DOMAIN s = 1 .. n /\ \A j \in DOMAIN s : s[j] \in L
  BY <1>4
<1>7. \A i \in L : \E j \in DOMAIN s : s[j] = i
  BY <1>4 DEF ToSet
<1>8. ASSUME NEW j \in DOMAIN s, NEW k \in DOMAIN s, s[j] = s[k]
      PROVE  j = k
  <2>1. j \in Nat /\ k \in Nat /\ s[j] \in Nat /\ s[k] \in Nat
    <3>1. s[j] \in L /\ s[k] \in L /\ j \in 1 .. n /\ k \in 1 .. n
      BY <1>6, <1>8
    <3>2. s[j] \in Nat /\ s[k] \in Nat
      BY <1>5, <3>1, Zenon
    <3>3. j \in Nat /\ k \in Nat
      BY <1>3, <3>1
    <3> QED
      BY <3>2, <3>3
  <2>2. ~(j < k) /\ ~(k < j)
    BY <1>4, <1>8, <2>1
  <2> QED
    BY <2>1, <2>2
<1> QED
  BY <1>3, <1>6, <1>7, <1>8 DEF L

\* The message of an entry.
LEMMA DetailsLemma ==
  ASSUME NEW e \in EntryType, NEW d, d = send_nsh_entry_details(e)
  PROVE  /\ d \in DetailsType
         /\ d.nsp_nsi = e.nsp_nsi
         /\ Shown(e) = Asked(d, d.md, High4(d.ver_o_c), d.ttl)
<1> DEFINE h == e.ver_o_c % 16
           l == e.length \div 64
<1>1. /\ e.ver_o_c \in 0 .. 255 /\ e.length \in 0 .. 255 /\ e.md_type \in Byte
      /\ e.md \in Metadata /\ e.nsp_nsi \in Key
  BY DEF EntryType, Byte
<1>2. h \in 0 .. 15 /\ l \in 0 .. 3 /\ e.length % 64 \in 0 .. 63
  BY <1>1
<1>3. Ttl(e) = (h * 4) + l
  BY Zenon DEF Ttl
<1> HIDE DEF h, l
<1>4. Ttl(e) \in 0 .. 63 /\ Ttl(e) % 64 = Ttl(e)
  BY <1>2, <1>3
<1>5. d = [entry_index |-> 0, nsp_nsi |-> e.nsp_nsi, ver_o_c |-> e.ver_o_c,
           ttl |-> Ttl(e), length |-> e.length % 64, md_type |-> e.md_type, md |-> e.md]
  BY Zenon DEF send_nsh_entry_details
<1>6. d \in DetailsType
  BY <1>1, <1>2, <1>4, <1>5 DEF DetailsType, Byte
<1>7. Shown(e) = Asked(d, d.md, High4(d.ver_o_c), d.ttl)
  BY <1>4, <1>5 DEF Shown, Asked
<1> QED
  BY <1>5, <1>6, <1>7

\* The bytes a ttl is spread over, put together again from the message.
LEMMA SameFlags ==
  ASSUME NEW v \in 0 .. 255, NEW l \in 0 .. 3
  PROVE  High4(v) + NSH_TTL_H4((v % 16) * 4 + l) = v
<1> DEFINE h == v % 16
           q == v \div 16
<1>1. h \in 0 .. 15 /\ q \in 0 .. 15 /\ v = 16 * q + h
  OBVIOUS
<1>2. High4(v) = 16 * q
  BY DEF High4
<1> HIDE DEF h, q
<1>3. (h * 4 + l) % 64 = h * 4 + l /\ (h * 4 + l) \div 4 = h
  BY <1>1
<1>4. NSH_TTL_H4(h * 4 + l) = h
  BY <1>3 DEF NSH_TTL_H4
<1>5. High4(v) + NSH_TTL_H4(h * 4 + l) = v
  BY <1>1, <1>2, <1>4
<1> QED
  BY <1>5 DEF h

LEMMA SameLength ==
  ASSUME NEW b \in 0 .. 255, NEW h \in 0 .. 15
  PROVE  ((b % 64) % 64) + NSH_TTL_L2(h * 4 + b \div 64) = b
<1> DEFINE l == b \div 64
           r == b % 64
<1>1. l \in 0 .. 3 /\ r \in 0 .. 63 /\ b = 64 * l + r
  OBVIOUS
<1> HIDE DEF l, r
<1>2. (h * 4 + l) % 4 = l /\ r % 64 = r
  BY <1>1
<1>3. (r % 64) + NSH_TTL_L2(h * 4 + l) = b
  BY <1>1, <1>2 DEF NSH_TTL_L2
<1> QED
  BY <1>3 DEF l, r

\* The message of an entry, as a request, makes the entry.
LEMMA SentBack ==
  ASSUME NEW e \in EntryType, e.tlvs_data = (e.md_type = 2 /\ TlvLen[e.md] > 0),
         NEW d, d = send_nsh_entry_details(e)
  PROVE  ApiArgs(d) = e
<1> DEFINE h == e.ver_o_c % 16
           l == e.length \div 64
           b == (e.md_type = 2 /\ TlvLen[e.md] > 0)
<1>1. /\ e.ver_o_c \in 0 .. 255 /\ e.length \in 0 .. 255
      /\ e = [nsp_nsi |-> e.nsp_nsi, ver_o_c |-> e.ver_o_c, length |-> e.length,
              md_type |-> e.md_type, md |-> e.md, tlvs_data |-> e.tlvs_data]
  BY DEF EntryType, Byte
<1>2. h \in 0 .. 15 /\ l \in 0 .. 3
  BY <1>1
<1>3. /\ d.nsp_nsi = e.nsp_nsi /\ d.ver_o_c = e.ver_o_c /\ d.md_type = e.md_type
      /\ d.md = e.md /\ d.length = e.length % 64 /\ d.ttl = Ttl(e)
  BY DEF send_nsh_entry_details
<1>4. d.ttl = h * 4 + l
  BY <1>3, Zenon DEF Ttl
<1>5. High4(d.ver_o_c) + NSH_TTL_H4(d.ttl) = e.ver_o_c
  <2>1. High4(e.ver_o_c) + NSH_TTL_H4(h * 4 + l) = e.ver_o_c
    <3> HIDE DEF l
    <3> QED
      BY <1>1, <1>2, SameFlags DEF h
  <2> HIDE DEF h, l
  <2> QED
    BY <1>3, <1>4, <2>1
<1>6. (d.length % 64) + NSH_TTL_L2(d.ttl) = e.length
  <2>1. ((e.length % 64) % 64) + NSH_TTL_L2(h * 4 + l) = e.length
    <3> HIDE DEF h
    <3> QED
      BY <1>1, <1>2, SameLength DEF l
  <2> HIDE DEF h, l
  <2> QED
    BY <1>3, <1>4, <2>1
<1>7. ApiArgs(d) = [nsp_nsi |-> e.nsp_nsi, ver_o_c |-> e.ver_o_c, length |-> e.length,
                    md_type |-> e.md_type, md |-> e.md, tlvs_data |-> b]
  BY <1>3, <1>5, <1>6 DEF ApiArgs, Args
<1> HIDE DEF h, l, b
<1> QED
  BY <1>1, <1>7 DEF b

\* What the messages of the last dump are, as long as nothing else was asked.
Dumped == reply.src = "dump_all" => details \in DumpAll

ReplyOK ==
  /\ reply \in [src : {"none", "cli", "api", "dump_all", "dump_one"},
                rv : {0, -1, -2}, entry_index : Nat]
  /\ details \in Seq(DetailsType)
  /\ crashed \in BOOLEAN

DumpInv == ReplyOK /\ Dumped

\* An index that is handed out is one, whether it is used or not.
LEMMA NextIndexType ==
  ASSUME EntryTypeOK
  PROVE  NextIndex(nsh_entries) \in Nat
<1>1. nsh_entries.elts \in Seq(EntryType) /\ nsh_entries.free \in Seq(Nat)
  BY DEF EntryTypeOK, PoolType
<1>2. CASE nsh_entries.free = << >>
  BY <1>1, <1>2 DEF NextIndex
<1>3. CASE nsh_entries.free # << >>
  BY <1>1, <1>3, LastFront DEF NextIndex
<1> QED
  BY <1>2, <1>3

\* A request is answered, and is no dump.
LEMMA RequestAnswered ==
  ASSUME EntryTypeOK, crashed \in BOOLEAN, NEW is_add \in BOOLEAN, NEW a,
         nsh_add_del_entry(is_add, a), NEW src \in {"cli", "api"}, details' = << >>,
         reply' = [src |-> src, rv |-> EntryRv(is_add, a),
                   entry_index |-> EntryIndexOut(is_add, a)]
  PROVE  DumpInv'
<1>1. EntryRv(is_add, a) \in {0, -1, -2}
  BY DEF EntryRv
<1>2. EntryIndexOut(is_add, a) \in Nat
  BY NextIndexType DEF EntryIndexOut
<1>3. crashed' \in BOOLEAN
  BY DEF nsh_add_del_entry, AddEntry, CrashEntry, DelEntry
<1>4. details' \in Seq(DetailsType)
  OBVIOUS
<1>5. reply'.src # "dump_all"
  OBVIOUS
<1>6. reply' \in [src : {"none", "cli", "api", "dump_all", "dump_one"},
                  rv : {0, -1, -2}, entry_index : Nat]
  BY <1>1, <1>2
<1> QED
  BY <1>3, <1>4, <1>5, <1>6 DEF DumpInv, ReplyOK, Dumped

\* Every step answers, and what a dump has told stays so as long as it is the
\* last thing that was asked for.
LEMMA StepAnswered ==
  ASSUME EntryInv, DumpInv, [Next]_vars
  PROVE  DumpInv'
<1>1. EntryTypeOK /\ crashed \in BOOLEAN
  BY DEF EntryInv, DumpInv, ReplyOK
<1>2. ASSUME NEW is_add \in BOOLEAN, NEW r \in CliRequests,
             nsh_add_del_entry_command_fn(is_add, r)
      PROVE  DumpInv'
  <2>1. CASE CliRefuses(r)
    BY <1>1, <1>2, <2>1 DEF nsh_add_del_entry_command_fn, DumpInv, ReplyOK, Dumped
  <2>2. CASE ~CliRefuses(r)
    BY <1>1, <1>2, <2>2, RequestAnswered DEF nsh_add_del_entry_command_fn
  <2> QED
    BY <2>1, <2>2
<1>3. ASSUME NEW is_add \in BOOLEAN, NEW r \in ApiRequests,
             vl_api_nsh_add_del_entry_t_handler(is_add, r)
      PROVE  DumpInv'
  BY <1>1, <1>3, RequestAnswered DEF vl_api_nsh_add_del_entry_t_handler
<1>4. CASE vl_api_nsh_entry_dump_t_handler
  <2>1. /\ details' \in DumpAll /\ UNCHANGED << nsh_entries, crashed >>
        /\ reply' = [src |-> "dump_all", rv |-> 0, entry_index |-> 0]
    BY <1>4 DEF vl_api_nsh_entry_dump_t_handler
  <2>2. PICK s \in PoolForeach(nsh_entries) :
          details' = [j \in DOMAIN s |-> send_nsh_entry_details(nsh_entries.elts[s[j]])]
    BY <2>1 DEF DumpAll
  <2>3. nsh_entries \in PoolType(EntryType)
    BY <1>1 DEF EntryTypeOK
  <2>4. /\ \E n \in Nat : DOMAIN s = 1 .. n
        /\ \A j \in DOMAIN s : s[j] \in Live(nsh_entries)
    BY <2>3, ForeachLemma
  <2>5. \A i \in Live(nsh_entries) : nsh_entries.elts[i] \in EntryType
    BY <2>3 DEF Live, PoolType
  <2>6. \A j \in DOMAIN s : send_nsh_entry_details(nsh_entries.elts[s[j]]) \in DetailsType
    BY <2>4, <2>5, DetailsLemma
  <2>7. details' \in Seq(DetailsType)
    BY <2>2, <2>4, <2>6
  <2>8. DumpAll' = DumpAll
    BY <2>1 DEF DumpAll
  <2> QED
    BY <1>1, <2>1, <2>7, <2>8 DEF DumpInv, ReplyOK, Dumped
<1>5. ASSUME NEW i \in DOMAIN nsh_entries.elts, DumpOne(i)
      PROVE  DumpInv'
  <2>1. nsh_entries.elts[i] \in EntryType /\ i \in Nat
    BY <1>1 DEF EntryTypeOK, PoolType
  <2>2. send_nsh_entry_details(nsh_entries.elts[i]) \in DetailsType
    BY <2>1, DetailsLemma
  <2>3. reply' = [src |-> "dump_one", rv |-> 0, entry_index |-> i] /\ crashed' \in BOOLEAN
    BY <1>1, <1>5 DEF DumpOne
  <2>4. \/ details' = << >>
        \/ details' = << send_nsh_entry_details(nsh_entries.elts[i]) >>
    BY <1>5 DEF DumpOne
  <2>5. details' \in Seq(DetailsType)
    <3> DEFINE d == send_nsh_entry_details(nsh_entries.elts[i])
    <3>1. d \in DetailsType /\ (details' = << >> \/ details' = << d >>)
      BY <2>2, <2>4
    <3> HIDE DEF d
    <3>2. << d >> \in Seq(DetailsType) /\ << >> \in Seq(DetailsType)
      BY <3>1
    <3> QED
      BY <3>1, <3>2
  <2> QED
    BY <2>1, <2>3, <2>5 DEF DumpInv, ReplyOK, Dumped
<1>6. CASE UNCHANGED vars
  BY <1>6 DEF vars, DumpInv, ReplyOK, Dumped, DumpAll
<1> QED
  BY <1>2, <1>3, <1>4, <1>5, <1>6 DEF Next

LEMMA DumpsInvariant == Spec => [](EntryInv /\ DumpInv)
<1>1. Init => DumpInv
  <2>1. SUFFICES ASSUME Init
                 PROVE  DumpInv
    OBVIOUS
  <2>2. reply = [src |-> "none", rv |-> 0, entry_index |-> 0] /\ details = << >>
        /\ crashed = FALSE
    BY <2>1 DEF Init
  <2>3. reply \in [src : {"none", "cli", "api", "dump_all", "dump_one"},
                   rv : {0, -1, -2}, entry_index : Nat]
    BY <2>2
  <2>4. details \in Seq(DetailsType)
    BY <2>2
  <2>5. reply.src # "dump_all"
    BY <2>2
  <2> QED
    BY <2>2, <2>3, <2>4, <2>5 DEF DumpInv, ReplyOK, Dumped
<1>2. EntryInv /\ DumpInv /\ [Next]_vars => DumpInv'
  BY StepAnswered
<1> QED
  BY <1>1, <1>2, EntriesInvariant, PTL DEF Spec

\* Every variable keeps its type, whatever is asked for, and the pool its shape:
\* no bits of a request leave the two bytes they are laid out in.
THEOREM TypeCorrect == Spec => []TypeOK
<1>1. EntryInv /\ DumpInv => TypeOK
  BY DEF EntryInv, EntryTypeOK, DumpInv, ReplyOK, TypeOK
<1> QED
  BY <1>1, DumpsInvariant, PTL

\* What the messages of a dump are made of.
LEMMA DumpedParts ==
  ASSUME EntryInv, DumpInv, reply.src = "dump_all"
  PROVE  \E s \in PoolForeach(nsh_entries) :
           /\ DOMAIN details = DOMAIN s
           /\ \A j \in DOMAIN details :
                /\ s[j] \in Live(nsh_entries) /\ nsh_entries.elts[s[j]] \in EntryType
                /\ details[j] = send_nsh_entry_details(nsh_entries.elts[s[j]])
<1>1. PICK s \in PoolForeach(nsh_entries) :
        details = [j \in DOMAIN s |-> send_nsh_entry_details(nsh_entries.elts[s[j]])]
  BY DEF DumpInv, Dumped, DumpAll
<1>2. nsh_entries \in PoolType(EntryType)
  BY DEF EntryInv, EntryTypeOK
<1>3. \A j \in DOMAIN s : s[j] \in Live(nsh_entries)
  BY <1>2, ForeachLemma
<1>4. \A i \in Live(nsh_entries) : nsh_entries.elts[i] \in EntryType
  BY <1>2 DEF Live, PoolType
<1> QED
  BY <1>1, <1>3, <1>4

\* A full dump tells the whole table and nothing else, each entry once, for every
\* set of keys and however often elements were freed and used again.
THEOREM DumpCorrect == Spec => []DumpTellsAll
<1>1. ASSUME EntryInv, DumpInv, reply.src = "dump_all"
      PROVE  DumpTellsAll
  <2>1. PICK s \in PoolForeach(nsh_entries) :
          /\ DOMAIN details = DOMAIN s
          /\ \A j \in DOMAIN details :
               /\ s[j] \in Live(nsh_entries) /\ nsh_entries.elts[s[j]] \in EntryType
               /\ details[j] = send_nsh_entry_details(nsh_entries.elts[s[j]])
    BY <1>1, DumpedParts
  <2>2. /\ \A i \in Live(nsh_entries) : \E j \in DOMAIN s : s[j] = i
        /\ \A j, k \in DOMAIN s : s[j] = s[k] => j = k
    BY <1>1, ForeachLemma DEF EntryInv, EntryTypeOK
  <2>3. \A j \in DOMAIN details :
          LET e == nsh_entries.elts[s[j]]
              d == details[j]
          IN  /\ d.nsp_nsi = e.nsp_nsi
              /\ Shown(e) = Asked(d, d.md, High4(d.ver_o_c), d.ttl)
    BY <2>1, DetailsLemma
  <2>4. \A i \in Live(nsh_entries) :
          nsh_entry_by_key[nsh_entries.elts[i].nsp_nsi] = i
    BY <1>1 DEF EntryInv, EntryIndexSound
  <2>5. \A i \in Live(nsh_entries) : i # 0
    BY <1>1 DEF EntryInv, EntryTypeOK, PoolType, Live
  <2>6. ASSUME NEW k \in Key, EntryTable[k] # NoValue
        PROVE  \E j \in DOMAIN details : details[j].nsp_nsi = k
    <3>1. nsh_entry_by_key[k] # 0
      BY <2>6 DEF EntryTable
    <3>2. /\ nsh_entry_by_key[k] \in Live(nsh_entries)
          /\ nsh_entries.elts[nsh_entry_by_key[k]].nsp_nsi = k
      BY <1>1, <3>1 DEF EntryInv, EntryIndexSound
    <3>3. PICK j \in DOMAIN s : s[j] = nsh_entry_by_key[k]
      BY <2>2, <3>2
    <3> QED
      BY <2>1, <2>3, <3>2, <3>3
  <2>7. ASSUME NEW j \in DOMAIN details
        PROVE  EntryTable[details[j].nsp_nsi] =
                 Asked(details[j], details[j].md, High4(details[j].ver_o_c), details[j].ttl)
    <3> DEFINE e == nsh_entries.elts[s[j]]
    <3>1. e.nsp_nsi \in Key /\ nsh_entry_by_key[e.nsp_nsi] = s[j] /\ s[j] # 0
      BY <2>1, <2>4, <2>5, <2>7 DEF EntryType
    <3>2. EntryTable[e.nsp_nsi] = Shown(e)
      BY <3>1 DEF EntryTable
    <3> HIDE DEF e
    <3> QED
      BY <2>3, <2>7, <3>2 DEF e
  <2>8. ASSUME NEW j \in DOMAIN details, NEW k \in DOMAIN details,
               details[j].nsp_nsi = details[k].nsp_nsi
        PROVE  j = k
    <3>1. s[j] = s[k]
      BY <2>1, <2>3, <2>4, <2>8
    <3> QED
      BY <2>1, <2>2, <2>8, <3>1
  <2> QED
    BY <2>6, <2>7, <2>8 DEF DumpTellsAll
<1>2. EntryInv /\ DumpInv => DumpTellsAll
  BY <1>1 DEF DumpTellsAll
<1> QED
  BY <1>2, DumpsInvariant, PTL

\* What a dump tells of an entry, sent back as a request, makes that entry, for
\* every byte its flags, ttl and length are spread over.
THEOREM DumpRestores == Spec => []DumpReinstalls
<1>1. ASSUME EntryInv, DumpInv, reply.src = "dump_all", NEW j \in DOMAIN details
      PROVE  \E i \in Live(nsh_entries) : nsh_entries.elts[i] = ApiArgs(details[j])
  <2>1. PICK s \in PoolForeach(nsh_entries) :
          /\ s[j] \in Live(nsh_entries) /\ nsh_entries.elts[s[j]] \in EntryType
          /\ details[j] = send_nsh_entry_details(nsh_entries.elts[s[j]])
    BY <1>1, DumpedParts
  <2> DEFINE e == nsh_entries.elts[s[j]]
  <2>2. e.tlvs_data = (e.md_type = 2 /\ TlvLen[e.md] > 0)
    BY <1>1, <2>1 DEF EntryInv, EntryIndexSound
  <2>3. ApiArgs(details[j]) = e
    <3>1. e \in EntryType /\ details[j] = send_nsh_entry_details(e)
      BY <2>1
    <3> HIDE DEF e
    <3> QED
      BY <2>2, <3>1, SentBack
  <2> QED
    BY <2>1, <2>3
<1>2. EntryInv /\ DumpInv => DumpReinstalls
  BY <1>1 DEF DumpReinstalls
<1> QED
  BY <1>2, DumpsInvariant, PTL
=============================================================================
