-------------------------- MODULE IoamTraceProofs --------------------------
(***************************************************************************)
(* Proofs about IoamTrace, for chains of any length, any roles of the hops *)
(* and any trace profiles the option has room for: what the trace of a     *)
(* packet says, whatever packets share the rewrites along the chain.       *)
(***************************************************************************)
EXTENDS IoamTrace, SequenceTheorems, TLAPS

-----------------------------------------------------------------------------
\* Arithmetic.  A record takes one to four words, so that the products below
\* are linear once the size is known.

LEMMA SizeCases == \A s \in 1 .. 4 : s = 1 \/ s = 2 \/ s = 3 \/ s = 4
OBVIOUS

LEMMA SmallNat == \A e \in 1 .. 255 : e \in Nat /\ e # 0
OBVIOUS

LEMMA ProductMonotone ==
  ASSUME NEW l \in Nat, NEW s \in 0 .. 4, NEW t \in 0 .. 4, s <= t
  PROVE  l * s <= l * t /\ l * s \in Nat
<1>1. (s = 0 \/ s \in 1 .. 4) /\ (t = 0 \/ t \in 1 .. 4)
  OBVIOUS
<1>2. (s = 0 \/ s = 1 \/ s = 2 \/ s = 3 \/ s = 4) /\ (t = 0 \/ t = 1 \/ t = 2 \/ t = 3 \/ t = 4)
  BY <1>1, SizeCases
<1> QED
  BY <1>2

LEMMA ProductLess ==
  ASSUME NEW l \in Nat \ {0}, NEW s \in 0 .. 4
  PROVE  (l - 1) * s <= l * s
<1>1. s = 0 \/ s = 1 \/ s = 2 \/ s = 3 \/ s = 4
  OBVIOUS
<1> QED
  BY <1>1

\* The words of the l-th record, counted from zero.
LEMMA RecordWords ==
  ASSUME NEW i \in Nat, NEW l \in Nat, NEW s \in 1 .. 4
  PROVE  i \in l * s .. (l + 1) * s - 1 <=> i \div s = l
<1>1. CASE s = 1
  BY <1>1
<1>2. CASE s = 2
  BY <1>2
<1>3. CASE s = 3
  BY <1>3
<1>4. CASE s = 4
  BY <1>4
<1> QED
  BY <1>1, <1>2, <1>3, <1>4

LEMMA QuotientOfProduct ==
  ASSUME NEW e \in Nat, NEW s \in 1 .. 4
  PROVE  (e * s) \div s = e /\ e * s \in Nat
<1>1. CASE s = 1
  BY <1>1
<1>2. CASE s = 2
  BY <1>2
<1>3. CASE s = 3
  BY <1>3
<1>4. CASE s = 4
  BY <1>4
<1> QED
  BY <1>1, <1>2, <1>3, <1>4

\* The number of the record a word belongs to.
LEMMA QuotientBound ==
  ASSUME NEW e \in Nat, NEW s \in 1 .. 4, NEW i \in Nat, i < e * s
  PROVE  i \div s \in Nat /\ i \div s < e
<1>1. CASE s = 1
  BY <1>1
<1>2. CASE s = 2
  BY <1>2
<1>3. CASE s = 3
  BY <1>3
<1>4. CASE s = 4
  BY <1>4
<1> QED
  BY <1>1, <1>2, <1>3, <1>4

LEMMA NumWordsType ==
  ASSUME NEW l \in 0 .. 255
  PROVE  NumWords(l) \in Nat
BY DEF NumWords

LEMMA NumWordsMonotone ==
  ASSUME NEW l \in 0 .. 255, NEW m \in 0 .. 255, l <= m
  PROVE  NumWords(l) <= NumWords(m)
BY DEF NumWords

\* An option made for a profile has room for exactly its records.
LEMMA OptionLengthLemma ==
  ASSUME NEW pr \in Profiles
  PROVE  /\ pr.elts \in 1 .. 255 /\ pr.size \in 1 .. 4
         /\ OptionLength(pr) \in 0 .. 255
         /\ OptionLength(pr) # 0
         /\ NumWords(OptionLength(pr)) = pr.elts * pr.size
         /\ pr.elts * pr.size <= RewriteWords
<1>1. /\ pr.elts \in 1 .. 255 /\ pr.size \in 1 .. 4
      /\ pr.elts * pr.size <= RewriteWords /\ RewriteWords \in 1 .. 62
  BY ProfileAssumption DEF ProfileType
<1> DEFINE e == pr.elts
           s == pr.size
           x == e * s
<1>2. x \in Nat /\ x >= 1 /\ 4 * e * s = 4 * x
  <2>1. e \in 1 .. 255 /\ (s = 1 \/ s = 2 \/ s = 3 \/ s = 4)
    BY <1>1, SizeCases
  <2> QED
    BY SMTT(30), <2>1
<1> HIDE DEF e, s, x
<1>3. x <= 62 /\ OptionLength(pr) = (4 * x + 4) % 256
  BY <1>1, <1>2 DEF OptionLength, e, s, x
<1>4. OptionLength(pr) = 4 * x + 4
  BY <1>2, <1>3
<1>5. NumWords(OptionLength(pr)) = x
  BY <1>2, <1>4 DEF NumWords
<1> QED
  BY <1>1, <1>2, <1>3, <1>4, <1>5 DEF x, e, s

-----------------------------------------------------------------------------
\* Types

PacketType ==
  [state : {"new", "chain", "popped", "dropped"}, ttl : 0 .. 3,
   opt : OptionType(Seq(WordType)), path : Seq(Hop), wide : BOOLEAN, agree : BOOLEAN,
   soiled : BOOLEAN, cut : BOOLEAN, scanned : BOOLEAN, hurt : BOOLEAN]

RewriteType == OptionType([1 .. RewriteWords -> WordType])

TraceType ==
  /\ profile \in [Hop -> Profiles]
  /\ rewrite \in [Hop -> RewriteType]
  /\ ttl \in [Hop -> 0 .. 3]
  /\ refilled \subseteq Hop
  /\ pkt \in [Packet -> PacketType]
  /\ changes \in 0 .. MaxChanges

LEMMA HopType == \A h \in Hop : h \in Nat \ {0}
BY RoleAssumption DEF Hop

LEMMA WordTypes ==
  /\ Zero \in WordType
  /\ \A p \in Packet, h \in Hop : /\ Record(p, h) \in WordType
                                /\ Record(p, h).pkt = p /\ Record(p, h).hop = h
                                /\ Record(p, h) # Zero
  /\ \A p \in Packet : Payload(p) \in WordType
<1>1. NumPackets \in Nat /\ \A p \in Packet : p \in 0 .. NumPackets
  BY ProfileAssumption DEF Packet
<1>2. 0 \in 0 .. NumPackets
  BY <1>1
<1> QED
  BY <1>1, <1>2, HopType DEF Zero, Record, Payload, WordType

\* The parts of an option.
LEMMA OptionParts ==
  ASSUME NEW W, NEW o \in OptionType(W)
  PROVE  /\ o.length \in 0 .. 255 /\ o.left \in 0 .. 255 /\ o.size \in 0 .. 4
         /\ o.words \in W
BY DEF OptionType

\* The words v are the words u, but for the record before the last left ones.
Written(v, u, n, left, size, word) ==
  /\ v = [i \in 1 .. n |-> v[i]]
  /\ \A i \in 1 .. n :
       v[i] = IF left # 0 /\ i - 1 \in (left - 1) * size .. left * size - 1
                THEN word ELSE u[i]

\* What a hop does to an option: the place it writes to, and nothing else.  The
\* words are a sequence in a packet and have their fixed room in a rewrite.
HoldsWords(W, n) == \A w \in [1 .. n -> WordType] : w \in W

LEMMA RecordedEffect ==
  ASSUME NEW W, NEW n \in Nat, HoldsWords(W, n),
         NEW o \in OptionType(W), o.words \in [1 .. n -> WordType],
         NEW size \in 1 .. 4, NEW p \in Packet, NEW h \in Hop,
         NEW r, r = Recorded(o, size, p, h)
  PROVE  /\ r \in OptionType(W)
         /\ r.length = o.length /\ r.size = o.size
         /\ r.left = IF o.left = 0 THEN 0 ELSE o.left - 1
         /\ r.words \in [1 .. n -> WordType]
         /\ Written(r.words, o.words, n, o.left, size, Record(p, h))
<1>0. /\ o.length \in 0 .. 255 /\ o.left \in 0 .. 255 /\ o.size \in 0 .. 4
      /\ o.words \in W
      /\ o = [length |-> o.length, left |-> o.left, size |-> o.size, words |-> o.words]
      /\ DOMAIN o.words = 1 .. n
  BY OptionParts DEF OptionType
<1>1. CASE o.left = 0
  <2>1. r = o
    BY <1>1 DEF Recorded
  <2>2. Written(o.words, o.words, n, o.left, size, Record(p, h))
    BY <1>1 DEF Written
  <2> QED
    BY <1>0, <1>1, <2>1, <2>2
<1>2. CASE o.left # 0
  <2> DEFINE w == [i \in 1 .. n |->
                    IF i - 1 \in (o.left - 1) * size .. o.left * size - 1
                      THEN Record(p, h) ELSE o.words[i]]
  <2>1. r = [o EXCEPT !.left = o.left - 1, !.words = w]
    BY <1>0, <1>2 DEF Recorded, ElementAt
  <2>2. w \in [1 .. n -> WordType]
    BY WordTypes
  <2>3. w \in W /\ o.left - 1 \in 0 .. 255
    <3>1. w \in W
      BY <2>2 DEF HoldsWords
    <3> QED
      BY <1>0, <1>2, <3>1
  <2>4. Written(w, o.words, n, o.left, size, Record(p, h))
    BY <1>2 DEF Written
  <2> HIDE DEF w
  <2>5. /\ r.length = o.length /\ r.size = o.size /\ r.left = o.left - 1 /\ r.words = w
        /\ r = [length |-> r.length, left |-> r.left, size |-> r.size, words |-> r.words]
    BY <1>0, <2>1
  <2>6. r \in OptionType(W)
    BY ZenonT(30), <1>0, <2>3, <2>5 DEF OptionType
  <2> QED
    BY <1>2, <2>2, <2>4, <2>5, <2>6
<1> QED
  BY <1>1, <1>2

\* A sequence of words is a function on its positions, and back.
LEMMA WordSequences ==
  ASSUME NEW s \in Seq(WordType), NEW n, n = Len(s)
  PROVE  /\ n \in Nat /\ DOMAIN s = 1 .. n
         /\ s \in [1 .. n -> WordType]
         /\ HoldsWords(Seq(WordType), n)
<1>1. n \in Nat /\ DOMAIN s = 1 .. n /\ s \in [1 .. n -> WordType]
  OBVIOUS
<1>2. ASSUME NEW w \in [1 .. n -> WordType]
      PROVE  w \in Seq(WordType)
  <2>1. w = [i \in 1 .. n |-> w[i]] /\ \A i \in 1 .. n : w[i] \in WordType
    OBVIOUS
  <2> QED
    BY <1>1, <2>1, IsASeq
<1> QED
  BY <1>1, <1>2 DEF HoldsWords

\* The option that is sent has as many words as its length says.
LEMMA SentEffect ==
  ASSUME NEW m \in RewriteType, NumWords(m.length) <= RewriteWords,
         NEW o, o = Sent(m)
  PROVE  /\ o \in OptionType(Seq(WordType))
         /\ o.length = m.length /\ o.left = m.left /\ o.size = m.size
         /\ Len(o.words) = NumWords(o.length)
         /\ \A i \in 1 .. Len(o.words) : o.words[i] = m.words[i]
<1> DEFINE n == NumWords(m.length)
           w == SubSeq(m.words, 1, n)
<1>0. /\ m.length \in 0 .. 255 /\ m.left \in 0 .. 255 /\ m.size \in 0 .. 4
      /\ m.words \in [1 .. RewriteWords -> WordType]
      /\ m = [length |-> m.length, left |-> m.left, size |-> m.size, words |-> m.words]
  BY OptionParts DEF RewriteType, OptionType
<1>1. n \in Nat /\ n <= RewriteWords /\ RewriteWords \in Nat
  <2>1. NumWords(m.length) \in Nat
    BY <1>0, NumWordsType
  <2>2. RewriteWords \in Nat
    BY ProfileAssumption
  <2> QED
    BY <2>1, <2>2
<1>2. /\ w \in Seq(WordType) /\ Len(w) = n
      /\ \A i \in 1 .. n : w[i] = m.words[i]
  <2>1. \A i \in 1 .. n : m.words[i] \in WordType
    BY <1>0, <1>1
  <2> HIDE DEF n
  <2>2. /\ w \in Seq(WordType)
        /\ Len(w) = IF 1 <= n THEN n - 1 + 1 ELSE 0
        /\ \A i \in 1 .. n - 1 + 1 : w[i] = m.words[1 + i - 1]
    BY <1>1, <2>1, SubSeqProperties
  <2> QED
    BY <1>1, <2>2
<1>3. o = [m EXCEPT !.words = w]
  BY DEF Sent
<1> HIDE DEF w
<1>4. /\ o.length = m.length /\ o.left = m.left /\ o.size = m.size /\ o.words = w
      /\ o = [length |-> o.length, left |-> o.left, size |-> o.size, words |-> o.words]
  BY <1>0, <1>3
<1> QED
  BY <1>0, <1>2, <1>4 DEF OptionType

-----------------------------------------------------------------------------
\* The inductive invariant.

\* The records that are still to be written fit in the option, and an option
\* that is not there has none to write.
OptionOK(o) ==
  /\ NumWords(o.length) <= RewriteWords
  /\ o.left * o.size <= NumWords(o.length)
  /\ o.length = 0 => o.left = 0 /\ o.size = 0

\* A rewrite that no packet was copied to is as it was made.
FreshRewrites(h) ==
  {nsh_md2_ioam_trace_rewrite_handler(pr) : pr \in Profiles} \cup
  IF "push" \in Roles[h] THEN {} ELSE {BareRewrite}

RewriteOK ==
  \A h \in Hop : /\ OptionOK(rewrite[h])
                 /\ h \notin refilled => rewrite[h] \in FreshRewrites(h)

OwnWord(p, w) == w = Zero \/ (w.pkt = p /\ w.hop # 0)

\* The option holds the list of the path, in records of the size and number it
\* was made for.
TellsPath(p, o, path) ==
  \E elts \in 1 .. 255 :
    /\ o.size \in 1 .. 4
    /\ NumWords(o.length) = elts * o.size
    /\ o.words = ListOf(p, path, elts, o.size)
    /\ o.left = IF Len(path) < elts THEN elts - Len(path) ELSE 0

\* Payload was overwritten by a record too wide, or by a scan that went on into it.
HurtExplained(p, x) == x.hurt => x.wide \/ (x.scanned /\ Behind[p] = "option")

\* What holds of a packet, whatever happened to it.
PacketOK(p, x) ==
  /\ OptionOK(x.opt)
  /\ Len(x.opt.words) = NumWords(x.opt.length)
  /\ x.state = "new" => x.path = << >>
  /\ HurtExplained(p, x)
  /\ ~x.soiled /\ ~x.cut => \A i \in DOMAIN x.opt.words : OwnWord(p, x.opt.words[i])
  /\ x.state # "new" /\ x.agree /\ ~x.soiled /\ ~x.cut => TellsPath(p, x.opt, x.path)

PacketsOK == \A p \in Packet : PacketOK(p, pkt[p])

TraceInv == TraceType /\ RewriteOK /\ PacketsOK

-----------------------------------------------------------------------------
\* The list of the path grows by the record of the hop.

RecordsLeft(path, elts) == IF Len(path) < elts THEN elts - Len(path) ELSE 0

LEMMA RecordsLeftType ==
  ASSUME NEW path \in Seq(Hop), NEW elts \in Nat, NEW left, left = RecordsLeft(path, elts)
  PROVE  /\ left \in Nat /\ Len(path) \in Nat
         /\ left = 0 <=> elts <= Len(path)
         /\ left # 0 => left = elts - Len(path)
BY DEF RecordsLeft

\* The record d, from the end, of a list of elts that has so many left.
LEMMA PlaceInList ==
  ASSUME NEW elts \in Nat, NEW len \in Nat, NEW left \in Nat, NEW d \in Nat,
         d < elts, left = 0 <=> elts <= len, left # 0 => left = elts - len
  PROVE  /\ elts - d \in Nat \ {0}
         /\ left # 0 => left - 1 \in Nat /\ (left - 1) + 1 = left
         /\ left = 0 => elts - d <= len
         /\ left # 0 => (d = left - 1 <=> elts - d = len + 1)
OBVIOUS

LEMMA ListGrows ==
  ASSUME NEW p, NEW h \in Hop, NEW path \in Seq(Hop),
         NEW elts \in 1 .. 255, NEW size \in 1 .. 4,
         NEW left, left = RecordsLeft(path, elts),
         NEW v, Written(v, ListOf(p, path, elts, size), elts * size, left, size, Record(p, h))
  PROVE  v = ListOf(p, Append(path, h), elts, size)
<1> DEFINE n == elts * size
           q == Append(path, h)
<1>0. elts \in Nat /\ elts # 0
  BY SmallNat
<1>w. /\ v = [i \in 1 .. elts * size |-> v[i]]
      /\ \A i \in 1 .. elts * size : v[i] =
           IF left # 0 /\ i - 1 \in (left - 1) * size .. left * size - 1
             THEN Record(p, h) ELSE ListOf(p, path, elts, size)[i]
  BY DEF Written
<1>1. n \in Nat
  BY <1>0, QuotientOfProduct
<1>2. /\ Len(path) \in Nat /\ Len(q) = Len(path) + 1 /\ DOMAIN path = 1 .. Len(path)
      /\ DOMAIN q = 1 .. Len(path) + 1
      /\ \A k \in 1 .. Len(path) : q[k] = path[k]
      /\ q[Len(path) + 1] = h
  OBVIOUS
<1> HIDE DEF q
<1>s. /\ left \in Nat
      /\ left = 0 <=> elts <= Len(path)
      /\ left # 0 => left = elts - Len(path)
  BY <1>0, RecordsLeftType
<1>3. ASSUME NEW i \in 1 .. n
      PROVE  v[i] = ListOf(p, q, elts, size)[i]
  <2> DEFINE d == (i - 1) \div size
             nth == elts - d
  <2>0. i - 1 \in Nat /\ i - 1 < elts * size
    <3>1. n \in Nat /\ i \in 1 .. n
      BY <1>1
    <3> HIDE DEF n
    <3>2. i - 1 \in Nat /\ i - 1 < n
      BY <3>1
    <3> QED
      BY <3>2 DEF n
  <2>1. d \in Nat /\ d < elts
    BY <1>0, <2>0, QuotientBound
  <2>p. /\ nth \in Nat \ {0}
        /\ left # 0 => left - 1 \in Nat /\ (left - 1) + 1 = left
        /\ left = 0 => nth <= Len(path)
        /\ left # 0 => (d = left - 1 <=> nth = Len(path) + 1)
    <3> HIDE DEF d
    <3> QED
      BY <1>0, <1>2, <1>s, <2>1, PlaceInList
  <2>2. ListOf(p, path, elts, size)[i] = IF nth \in DOMAIN path THEN Record(p, path[nth]) ELSE Zero
    BY DEF ListOf
  <2>3. ListOf(p, q, elts, size)[i] = IF nth \in DOMAIN q THEN Record(p, q[nth]) ELSE Zero
    BY DEF ListOf
  <2>4. left # 0 => (i - 1 \in (left - 1) * size .. left * size - 1 <=> d = left - 1)
    <3>1. SUFFICES ASSUME left # 0
                   PROVE  i - 1 \in (left - 1) * size .. left * size - 1 <=> d = left - 1
      OBVIOUS
    <3>2. left - 1 \in Nat /\ (left - 1) + 1 = left
      BY <2>p, <3>1
    <3> DEFINE j == i - 1
               l == left - 1
    <3>3. j \in l * size .. (l + 1) * size - 1 <=> j \div size = l
      <4>1. j \in Nat /\ l \in Nat
        BY <2>0, <3>2
      <4> HIDE DEF j, l
      <4> QED
        BY <4>1, RecordWords
    <3> QED
      BY <3>2, <3>3
  <2> HIDE DEF d, n
  <2> HIDE DEF nth
  <2>5. CASE left = 0
    <3>1. nth \in DOMAIN path /\ nth \in DOMAIN q /\ q[nth] = path[nth]
      BY <1>2, <2>p, <2>5
    <3>2. v[i] = ListOf(p, path, elts, size)[i]
      BY <1>w, <2>5 DEF n
    <3> QED
      BY <2>2, <2>3, <3>1, <3>2
  <2>6. CASE left # 0 /\ d = left - 1
    <3>1. nth = Len(path) + 1
      BY <2>p, <2>6
    <3>2. v[i] = Record(p, h)
      BY <1>w, <2>4, <2>6 DEF n
    <3>3. nth \in DOMAIN q /\ q[nth] = h
      BY <1>2, <3>1
    <3> QED
      BY <2>3, <3>2, <3>3
  <2>7. CASE left # 0 /\ d # left - 1
    <3>1. nth # Len(path) + 1 /\ nth \in Nat
      BY <2>p, <2>7
    <3>2. v[i] = ListOf(p, path, elts, size)[i]
      BY <1>w, <2>4, <2>7 DEF n
    <3>3. nth \in DOMAIN q <=> nth \in DOMAIN path
      BY <1>2, <3>1
    <3>4. nth \in DOMAIN path => q[nth] = path[nth]
      BY <1>2
    <3> QED
      BY <2>2, <2>3, <3>2, <3>3, <3>4
  <2> QED
    BY <2>5, <2>6, <2>7
<1>4. ListOf(p, q, elts, size) = [i \in 1 .. n |-> ListOf(p, q, elts, size)[i]]
  BY DEF ListOf
<1>5. v = [i \in 1 .. n |-> ListOf(p, q, elts, size)[i]]
  BY <1>w, <1>3
<1> QED
  BY <1>4, <1>5 DEF q

-----------------------------------------------------------------------------
\* What a record does to an option and to the packet that carries it.

LEMMA OptionOKRecorded ==
  ASSUME NEW W, NEW o \in OptionType(W), OptionOK(o), NEW r,
         r.length = o.length, r.size = o.size,
         r.left = IF o.left = 0 THEN 0 ELSE o.left - 1
  PROVE  OptionOK(r)
<1>0. o.length \in 0 .. 255 /\ o.left \in 0 .. 255 /\ o.size \in 0 .. 4
  BY OptionParts
<1>1. NumWords(o.length) \in Nat
  BY <1>0, NumWordsType
<1>2. r.left * r.size <= NumWords(o.length)
  <2>1. CASE o.left = 0
    <3>1. r.left = o.left
      BY <2>1
    <3> QED
      BY <3>1 DEF OptionOK
  <2>2. CASE o.left # 0
    <3>1. o.left \in Nat \ {0} /\ r.left = o.left - 1
      BY <1>0, <2>2
    <3>2. (o.left - 1) * o.size <= o.left * o.size
      BY <1>0, <3>1, ProductLess
    <3>3. (o.left - 1) * o.size \in Nat /\ o.left * o.size \in Nat
      <4>1. o.left - 1 \in Nat /\ o.left \in Nat
        BY <3>1
      <4>2. \A l \in Nat : l * o.size \in Nat
        BY <1>0, ProductMonotone
      <4> QED
        BY <4>1, <4>2
    <3>4. o.left * o.size <= NumWords(o.length)
      BY DEF OptionOK
    <3> DEFINE a == (o.left - 1) * o.size
               b == o.left * o.size
    <3>5. a <= b /\ b <= NumWords(o.length) /\ a \in Nat /\ b \in Nat
      BY <3>2, <3>3, <3>4
    <3>6. r.left * r.size = a
      BY <3>1
    <3> HIDE DEF a, b
    <3>7. a <= NumWords(o.length)
      BY <1>1, <3>5
    <3> QED
      BY <3>6, <3>7
  <2> QED
    BY <2>1, <2>2
<1>3. o.length = 0 => r.left = 0 /\ r.size = 0
  BY DEF OptionOK
<1> QED
  BY <1>2, <1>3 DEF OptionOK

LEMMA SpillsOnlyWide ==
  ASSUME NEW W, NEW o \in OptionType(W), OptionOK(o), NEW size \in 1 .. 4,
         Spills(o, size)
  PROVE  size > o.size
<1>0. o.length \in 0 .. 255 /\ o.left \in 0 .. 255 /\ o.size \in 0 .. 4
  BY OptionParts
<1>1. SUFFICES ASSUME size <= o.size
               PROVE  FALSE
  BY <1>0
<1>2. o.left \in Nat /\ size \in 0 .. 4
  BY <1>0
<1>3. o.left * size <= o.left * o.size /\ o.left * size \in Nat /\ o.left * o.size \in Nat
  <2>1. o.left * size <= o.left * o.size /\ o.left * size \in Nat
    BY <1>0, <1>1, <1>2, ProductMonotone
  <2>2. o.size <= o.size
    BY <1>0
  <2>3. o.left * o.size \in Nat
    BY <1>0, <1>2, <2>2, ProductMonotone
  <2> QED
    BY <2>1, <2>3
<1> DEFINE a == o.left * size
           b == o.left * o.size
           n == NumWords(o.length)
<1>4. a <= b /\ b <= n /\ a > n
  BY <1>3 DEF Spills, OptionOK
<1>5. a \in Nat /\ b \in Nat /\ n \in Nat
  BY <1>0, <1>3, NumWordsType
<1> HIDE DEF a, b, n
<1> QED
  BY <1>4, <1>5

LEMMA ProfileParts ==
  ASSUME TraceType, NEW h \in Hop
  PROVE  profile[h] \in Profiles /\ profile[h].size \in 1 .. 4
<1>1. profile[h] \in Profiles
  BY DEF TraceType
<1> QED
  BY <1>1, OptionLengthLemma

LEMMA TtlType ==
  ASSUME TraceType, NEW h \in Hop
  PROVE  ttl[h] \in 0 .. 3
BY DEF TraceType

LEMMA PacketParts ==
  ASSUME NEW x \in PacketType
  PROVE  /\ x.state \in {"new", "chain", "popped", "dropped"} /\ x.ttl \in 0 .. 3 /\ x.opt \in OptionType(Seq(WordType))
         /\ x.path \in Seq(Hop) /\ x.wide \in BOOLEAN /\ x.agree \in BOOLEAN
         /\ x.soiled \in BOOLEAN /\ x.cut \in BOOLEAN /\ x.scanned \in BOOLEAN
         /\ x.hurt \in BOOLEAN
BY DEF PacketType

\* A record that a hop writes in elements of the right size continues the list.
LEMMA ListContinues ==
  ASSUME NEW p, NEW h \in Hop, NEW path \in Seq(Hop), NEW o, TellsPath(p, o, path),
         NEW r, r.length = o.length, r.size = o.size,
         r.left = IF o.left = 0 THEN 0 ELSE o.left - 1,
         Written(r.words, o.words, NumWords(o.length), o.left, o.size, Record(p, h))
  PROVE  TellsPath(p, r, Append(path, h))
<1>1. PICK elts \in 1 .. 255 :
        /\ o.size \in 1 .. 4
        /\ NumWords(o.length) = elts * o.size
        /\ o.words = ListOf(p, path, elts, o.size)
        /\ o.left = IF Len(path) < elts THEN elts - Len(path) ELSE 0
  BY DEF TellsPath
<1>2. r.words = ListOf(p, Append(path, h), elts, o.size)
  <2>1. o.left = RecordsLeft(path, elts)
    BY <1>1 DEF RecordsLeft
  <2>2. Written(r.words, ListOf(p, path, elts, o.size), elts * o.size, o.left, o.size, Record(p, h))
    BY <1>1
  <2> QED
    BY <1>1, <2>1, <2>2, ListGrows
<1>3. r.left = IF Len(Append(path, h)) < elts THEN elts - Len(Append(path, h)) ELSE 0
  <2>1. Len(path) \in Nat /\ Len(Append(path, h)) = Len(path) + 1 /\ elts \in Nat
    BY SmallNat
  <2> QED
    BY <1>1, <2>1
<1> QED
  BY <1>1, <1>2, <1>3 DEF TellsPath

\* nsh_md2_ioam_trace_data_list_handler keeps what holds of a packet.
LEMMA DataListKeeps ==
  ASSUME TraceType, NEW p \in Packet, NEW h \in Hop,
         NEW x \in PacketType, PacketOK(p, x), x.state # "new",
         NEW d, d = DataList(p, h, x)
  PROVE  d \in PacketType /\ PacketOK(p, d) /\ d.state = x.state
<1> DEFINE o == x.opt
           size == profile[h].size
           r == Recorded(o, size, p, h)
           n == NumWords(o.length)
<1>1. size \in 1 .. 4
  BY ProfileParts
<1>2. /\ o \in OptionType(Seq(WordType)) /\ o.length \in 0 .. 255 /\ o.left \in 0 .. 255
      /\ o.size \in 0 .. 4 /\ o.words \in Seq(WordType)
  BY PacketParts, OptionParts
<1>3. OptionOK(o) /\ Len(o.words) = n /\ n \in Nat
  BY <1>2, NumWordsType DEF PacketOK
<1>4. /\ o.words \in [1 .. n -> WordType] /\ DOMAIN o.words = 1 .. n
      /\ HoldsWords(Seq(WordType), n)
  BY <1>2, <1>3, WordSequences
<1>6. d = [x EXCEPT !.opt = r, !.path = Append(x.path, h),
                    !.wide = x.wide \/ size > o.size,
                    !.agree = x.agree /\ size = o.size,
                    !.hurt = x.hurt \/ Spills(o, size)]
  BY DEF DataList
<1>5. r = Recorded(o, size, p, h)
  OBVIOUS
<1> HIDE DEF size, n, r, o
<1>7. /\ r \in OptionType(Seq(WordType))
      /\ r.length = o.length /\ r.size = o.size
      /\ r.left = IF o.left = 0 THEN 0 ELSE o.left - 1
      /\ r.words \in [1 .. n -> WordType]
      /\ Written(r.words, o.words, n, o.left, size, Record(p, h))
  BY SMTT(30), <1>1, <1>2, <1>3, <1>4, <1>5, RecordedEffect
<1>8. /\ d.opt = r /\ d.path = Append(x.path, h) /\ d.state = x.state
      /\ d.soiled = x.soiled /\ d.cut = x.cut /\ d.ttl = x.ttl /\ d.scanned = x.scanned
      /\ d.wide = (x.wide \/ size > o.size)
      /\ d.agree = (x.agree /\ size = o.size)
      /\ d.hurt = (x.hurt \/ Spills(o, size))
      /\ d = [state |-> d.state, ttl |-> d.ttl, opt |-> d.opt, path |-> d.path,
              wide |-> d.wide, agree |-> d.agree, soiled |-> d.soiled,
              cut |-> d.cut, scanned |-> d.scanned, hurt |-> d.hurt]
  BY <1>6 DEF PacketType
<1>9. d \in PacketType
  <2>1. Append(x.path, h) \in Seq(Hop)
    BY PacketParts
  <2>2. /\ d.wide \in BOOLEAN /\ d.agree \in BOOLEAN /\ d.hurt \in BOOLEAN
    BY <1>8 DEF Spills
  <2> QED
    BY <1>7, <1>8, <2>1, <2>2, PacketParts DEF PacketType
<1>10. OptionOK(r)
  BY <1>2, <1>3, <1>7, OptionOKRecorded
<1>11. Len(r.words) = n
  <2>1. r.words \in Seq(WordType)
    BY <1>7, OptionParts
  <2>2. Len(r.words) \in Nat /\ 1 .. Len(r.words) = 1 .. n
    <3>1. /\ Len(r.words) \in Nat /\ DOMAIN r.words = 1 .. Len(r.words)
      BY <2>1, WordSequences
    <3> QED
      BY <1>7, <3>1
  <2> QED
    BY <1>3, <2>2
<1>12. HurtExplained(p, d)
  <2>1. Spills(o, size) => size > o.size
    BY <1>1, <1>2, <1>3, SpillsOnlyWide
  <2>2. HurtExplained(p, x)
    BY DEF PacketOK
  <2> QED
    BY <1>8, <2>1, <2>2 DEF HurtExplained
<1>13. ASSUME ~d.soiled, ~d.cut, NEW i \in DOMAIN r.words
       PROVE  OwnWord(p, r.words[i])
  <2>1. i \in 1 .. n
    BY <1>7
  <2>2. OwnWord(p, o.words[i])
    BY <1>4, <1>8, <1>13, <2>1 DEF PacketOK, o
  <2>3. r.words[i] = Record(p, h) \/ r.words[i] = o.words[i]
    BY <1>7, <2>1 DEF Written
  <2>4. OwnWord(p, Record(p, h))
    BY WordTypes, HopType DEF OwnWord
  <2> QED
    BY <2>2, <2>3, <2>4
<1>14. ASSUME d.agree, ~d.soiled, ~d.cut
       PROVE  TellsPath(p, r, Append(x.path, h))
  <2>1. TellsPath(p, o, x.path) /\ size = o.size
    BY <1>8, <1>14 DEF PacketOK, o
  <2>4. Written(r.words, o.words, n, o.left, o.size, Record(p, h))
    BY <1>7, <2>1
  <2>5. x.path \in Seq(Hop)
    BY PacketParts
  <2> QED
    BY <1>7, <2>1, <2>4, <2>5, ListContinues DEF n
<1> QED
  BY <1>7, <1>8, <1>9, <1>10, <1>11, <1>12, <1>13, <1>14 DEF PacketOK, n

\* The copy of an option that a swap makes in a rewrite that is no shorter holds
\* the words of the packet alone.
LEMMA CopyEffect ==
  ASSUME NEW p \in Packet, NEW m \in RewriteType, OptionOK(m),
         NEW o \in OptionType(Seq(WordType)), OptionOK(o),
         Len(o.words) = NumWords(o.length),
         NEW c, c = CopyOption(m, o, p)
  PROVE  /\ c \in RewriteType /\ OptionOK(c)
         /\ c.length = o.length
         /\ m.length = 0 => c.size = 0
         /\ m.length # 0 => c.left = o.left /\ c.size = o.size
         /\ ~(m.length < o.length) =>
              \A i \in 1 .. NumWords(o.length) : c.words[i] = o.words[i]
<1> DEFINE n == NumWords(o.length)
           w == [i \in 1 .. RewriteWords |->
                   IF i > NumWords(m.length) THEN m.words[i]
                   ELSE IF i \in DOMAIN o.words THEN o.words[i] ELSE Payload(p)]
<1>1. /\ m.length \in 0 .. 255 /\ m.left \in 0 .. 255 /\ m.size \in 0 .. 4
      /\ m.words \in [1 .. RewriteWords -> WordType]
  BY OptionParts DEF RewriteType
<1>2. /\ o.length \in 0 .. 255 /\ o.left \in 0 .. 255 /\ o.size \in 0 .. 4
      /\ o.words \in Seq(WordType)
  BY OptionParts
<1>3. n \in Nat /\ DOMAIN o.words = 1 .. n /\ o.words \in [1 .. n -> WordType]
  BY <1>2, WordSequences
<1>4. w \in [1 .. RewriteWords -> WordType]
  BY <1>1, <1>3, WordTypes
<1>5. c = [length |-> o.length,
           left   |-> IF m.length = 0 THEN m.left ELSE o.left,
           size   |-> IF m.length = 0 THEN m.size ELSE o.size,
           words  |-> w]
  BY DEF CopyOption
<1>6. ASSUME ~(m.length < o.length), NEW i \in 1 .. n
      PROVE  w[i] = o.words[i]
  <2>1. n <= NumWords(m.length) /\ n <= RewriteWords /\ NumWords(m.length) \in Nat
    <3>1. o.length <= m.length
      <4>1. \A k \in 0 .. 255, l \in 0 .. 255 : ~(k < l) => l <= k
        OBVIOUS
      <4> QED
        BY <1>1, <1>2, <1>6, <4>1
    <3>2. n <= NumWords(m.length)
      BY <1>1, <1>2, <3>1, NumWordsMonotone
    <3>3. NumWords(m.length) \in Nat
      BY <1>1, NumWordsType
    <3>4. n <= RewriteWords
      BY DEF OptionOK
    <3> QED
      BY <3>2, <3>3, <3>4
  <2> HIDE DEF n
  <2>2. RewriteWords \in Nat
    BY ProfileAssumption
  <2>3. i \in 1 .. RewriteWords /\ ~(i > NumWords(m.length)) /\ i \in DOMAIN o.words
    BY <1>3, <2>1, <2>2
  <2> QED
    BY <2>3
<1> HIDE DEF w
<1>7. /\ c.length = o.length /\ c.words = w
      /\ c.left = IF m.length = 0 THEN m.left ELSE o.left
      /\ c.size = IF m.length = 0 THEN m.size ELSE o.size
  BY <1>5
<1>8. c \in RewriteType
  BY <1>1, <1>2, <1>4, <1>5 DEF RewriteType, OptionType
<1>9. OptionOK(c)
  <2>1. CASE m.length = 0
    <3>1. c.left = 0 /\ c.size = 0
      BY <1>7, <2>1 DEF OptionOK
    <3>2. c.left * c.size <= NumWords(c.length)
      <4>1. c.left * c.size = 0
        BY <3>1
      <4> QED
        BY <1>3, <1>7, <4>1
    <3>3. NumWords(c.length) <= RewriteWords
      BY <1>7 DEF OptionOK
    <3> QED
      BY <3>1, <3>2, <3>3 DEF OptionOK
  <2>2. CASE m.length # 0
    BY <1>7, <2>2 DEF OptionOK
  <2> QED
    BY <2>1, <2>2
<1>10. m.length = 0 => c.size = 0
  BY <1>7 DEF OptionOK
<1> QED
  BY <1>6, <1>7, <1>8, <1>9, <1>10

\* The packet after a swap with a rewrite m that became new by way of copy.
Swapped(x, h, m, copy, new) ==
  [x EXCEPT !.ttl = ttl[h],
            !.opt = Sent(new),
            !.path = Append(x.path, h),
            !.wide = x.wide \/ profile[h].size > copy.size,
            !.agree = x.agree /\ profile[h].size = copy.size,
            !.cut = x.cut \/ m.length < x.opt.length]

\* nsh_md2_swap keeps what holds of a packet and of the rewrite.
LEMMA SwapKeeps ==
  ASSUME TraceType, NEW p \in Packet, NEW h \in Hop,
         NEW m \in RewriteType, OptionOK(m),
         NEW x \in PacketType, PacketOK(p, x), x.state # "new",
         NEW c, c = CopyOption(m, x.opt, p),
         NEW new, new = Recorded(c, profile[h].size, p, h),
         NEW y, y = Swapped(x, h, m, c, new)
  PROVE  /\ new \in RewriteType /\ OptionOK(new)
         /\ y \in PacketType /\ PacketOK(p, y)
<1> DEFINE o == x.opt
           size == profile[h].size
           n == NumWords(o.length)
           s == Sent(new)
<1>1. size \in 1 .. 4
  BY ProfileParts
<1>2. /\ o \in OptionType(Seq(WordType)) /\ o.length \in 0 .. 255 /\ o.words \in Seq(WordType)
  <2>1. o \in OptionType(Seq(WordType))
    BY PacketParts
  <2> HIDE DEF o, n
  <2> QED
    BY <2>1, OptionParts
<1>3. OptionOK(o) /\ Len(o.words) = n /\ n \in Nat /\ n <= RewriteWords /\ RewriteWords \in Nat
  <2>1. n \in Nat
    BY <1>2, NumWordsType
  <2>2. RewriteWords \in Nat
    BY ProfileAssumption
  <2> QED
    BY <2>1, <2>2 DEF PacketOK, OptionOK
<1>4. /\ o.words \in [1 .. n -> WordType] /\ DOMAIN o.words = 1 .. n
  BY <1>2, <1>3, WordSequences
<1>5. /\ c \in RewriteType /\ OptionOK(c)
      /\ c.length = o.length
      /\ m.length = 0 => c.size = 0
      /\ m.length # 0 => c.left = o.left /\ c.size = o.size
      /\ ~(m.length < o.length) => \A i \in 1 .. n : c.words[i] = o.words[i]
  BY <1>2, <1>3, CopyEffect
<1> HIDE DEF size, n
<1>6. /\ new \in RewriteType
      /\ new.length = c.length /\ new.size = c.size
      /\ new.left = IF c.left = 0 THEN 0 ELSE c.left - 1
      /\ new.words \in [1 .. RewriteWords -> WordType]
      /\ Written(new.words, c.words, RewriteWords, c.left, size, Record(p, h))
  <2>1. HoldsWords([1 .. RewriteWords -> WordType], RewriteWords)
    BY DEF HoldsWords
  <2>2. /\ c \in OptionType([1 .. RewriteWords -> WordType])
        /\ c.words \in [1 .. RewriteWords -> WordType]
    BY <1>5, OptionParts DEF RewriteType
  <2>3. new = Recorded(c, size, p, h)
    BY DEF size
  <2> DEFINE W == [1 .. RewriteWords -> WordType]
  <2>4. RewriteType = OptionType(W)
    BY DEF RewriteType
  <2> HIDE DEF W
  <2>5. HoldsWords(W, RewriteWords) /\ c \in OptionType(W)
    BY <2>1, <2>2 DEF W
  <2>6. /\ new \in OptionType(W)
        /\ new.length = c.length /\ new.size = c.size
        /\ new.left = IF c.left = 0 THEN 0 ELSE c.left - 1
        /\ new.words \in [1 .. RewriteWords -> WordType]
        /\ Written(new.words, c.words, RewriteWords, c.left, size, Record(p, h))
    BY <1>1, <1>3, <2>2, <2>3, <2>5, RecordedEffect
  <2> QED
    BY <2>4, <2>6
<1>7. OptionOK(new)
  BY <1>5, <1>6, OptionOKRecorded DEF RewriteType
<1>8. /\ s \in OptionType(Seq(WordType))
      /\ s.length = o.length /\ s.left = new.left /\ s.size = c.size
      /\ Len(s.words) = n
      /\ \A i \in 1 .. n : s.words[i] = new.words[i]
  <2>1. NumWords(new.length) <= RewriteWords /\ NumWords(new.length) = n
    BY <1>3, <1>5, <1>6 DEF n
  <2> QED
    BY <1>5, <1>6, <2>1, SentEffect
<1>9. s.words \in [1 .. n -> WordType] /\ DOMAIN s.words = 1 .. n
  <2>1. s.words \in Seq(WordType)
    BY <1>8, OptionParts
  <2> QED
    BY <1>8, <2>1, WordSequences
<1>10. OptionOK(s)
  BY <1>5, <1>6, <1>7, <1>8 DEF OptionOK
<1>11. y = [x EXCEPT !.ttl = ttl[h], !.opt = s, !.path = Append(x.path, h),
                     !.wide = x.wide \/ size > c.size,
                     !.agree = x.agree /\ size = c.size,
                     !.cut = x.cut \/ m.length < o.length]
  BY DEF Swapped, size
<1> HIDE DEF s, o
<1>12. /\ y.opt = s /\ y.path = Append(x.path, h) /\ y.state = x.state
       /\ y.soiled = x.soiled /\ y.hurt = x.hurt
       /\ y.ttl = ttl[h] /\ y.scanned = x.scanned
       /\ y.wide = (x.wide \/ size > c.size)
       /\ y.agree = (x.agree /\ size = c.size)
       /\ y.cut = (x.cut \/ m.length < o.length)
       /\ y = [state |-> y.state, ttl |-> y.ttl, opt |-> y.opt, path |-> y.path,
               wide |-> y.wide, agree |-> y.agree, soiled |-> y.soiled,
               cut |-> y.cut, scanned |-> y.scanned, hurt |-> y.hurt]
  BY <1>11 DEF PacketType
<1>13. y \in PacketType
  <2>1. Append(x.path, h) \in Seq(Hop)
    BY PacketParts
  <2>2. y.wide \in BOOLEAN /\ y.agree \in BOOLEAN /\ y.cut \in BOOLEAN
    BY <1>12
  <2>3. /\ y.state \in {"new", "chain", "popped", "dropped"} /\ y.ttl \in 0 .. 3
        /\ y.opt \in OptionType(Seq(WordType)) /\ y.path \in Seq(Hop)
        /\ y.soiled \in BOOLEAN /\ y.scanned \in BOOLEAN /\ y.hurt \in BOOLEAN
    BY <1>8, <1>12, <2>1, TtlType, PacketParts
  <2>4. y = [state |-> y.state, ttl |-> y.ttl, opt |-> y.opt, path |-> y.path,
             wide |-> y.wide, agree |-> y.agree, soiled |-> y.soiled,
             cut |-> y.cut, scanned |-> y.scanned, hurt |-> y.hurt]
    BY <1>12
  <2> HIDE DEF s
  <2> QED
    BY <2>2, <2>3, <2>4 DEF PacketType
<1>14. ASSUME ~y.soiled, ~y.cut, NEW i \in DOMAIN s.words
       PROVE  OwnWord(p, s.words[i])
  <2>1. i \in 1 .. n /\ i \in 1 .. RewriteWords
    BY <1>3, <1>9
  <2>2. OwnWord(p, o.words[i])
    BY <1>4, <1>12, <1>14, <2>1 DEF PacketOK, o
  <2>3. c.words[i] = o.words[i]
    BY <1>5, <1>12, <1>14, <2>1
  <2>4. new.words[i] = Record(p, h) \/ new.words[i] = c.words[i]
    BY <1>6, <2>1 DEF Written
  <2>5. OwnWord(p, Record(p, h))
    BY WordTypes, HopType DEF OwnWord
  <2> QED
    BY <1>8, <2>1, <2>2, <2>3, <2>4, <2>5
<1>15. ASSUME y.agree, ~y.soiled, ~y.cut
       PROVE  TellsPath(p, s, Append(x.path, h))
  <2>1. TellsPath(p, o, x.path) /\ size = c.size
    BY <1>12, <1>15 DEF PacketOK, o
  <2>2. m.length # 0 /\ c.left = o.left /\ c.size = o.size
    BY <1>1, <1>5, <2>1
  <2>3. s.words = [i \in 1 .. n |-> s.words[i]]
    BY <1>9
  <2>4. ASSUME NEW i \in 1 .. n
        PROVE  s.words[i] = IF o.left # 0 /\ i - 1 \in (o.left - 1) * o.size .. o.left * o.size - 1
                              THEN Record(p, h) ELSE o.words[i]
    <3>1. i \in 1 .. RewriteWords
      BY <1>3
    <3>2. s.words[i] = IF c.left # 0 /\ i - 1 \in (c.left - 1) * size .. c.left * size - 1
                         THEN Record(p, h) ELSE c.words[i]
      BY <1>6, <1>8, <3>1 DEF Written
    <3>3. c.words[i] = o.words[i]
      BY <1>5, <1>12, <1>15
    <3> QED
      BY <2>1, <2>2, <3>2, <3>3
  <2>5. Written(s.words, o.words, n, o.left, o.size, Record(p, h))
    BY <2>3, <2>4 DEF Written
  <2>6. x.path \in Seq(Hop)
    BY PacketParts
  <2>7. s.size = o.size /\ s.left = IF o.left = 0 THEN 0 ELSE o.left - 1
    BY <1>6, <1>8, <2>2
  <2> QED
    BY <1>8, <2>1, <2>5, <2>6, <2>7, ListContinues DEF n
<1>16. HurtExplained(p, y)
  BY <1>12 DEF PacketOK, HurtExplained
<1>17. OptionOK(y.opt) /\ Len(y.opt.words) = NumWords(y.opt.length)
  BY <1>8, <1>10, <1>12 DEF n
<1>18. ~y.soiled /\ ~y.cut => \A i \in DOMAIN y.opt.words : OwnWord(p, y.opt.words[i])
  BY <1>12, <1>14
<1>19. y.agree /\ ~y.soiled /\ ~y.cut => TellsPath(p, y.opt, y.path)
  BY <1>12, <1>15
<1>20. y.state # "new"
  BY <1>12
<1>21. PacketOK(p, y)
  BY <1>16, <1>17, <1>18, <1>19, <1>20 DEF PacketOK
<1> QED
  BY <1>6, <1>7, <1>13, <1>21

-----------------------------------------------------------------------------
\* A rewrite as it was made, and a packet it is pushed in front of.

LEMMA MadeRewrite ==
  ASSUME NEW pr \in Profiles, NEW r, r = nsh_md2_ioam_trace_rewrite_handler(pr)
  PROVE  /\ r \in RewriteType /\ OptionOK(r)
         /\ r.length = OptionLength(pr) /\ r.left = pr.elts /\ r.size = pr.size
         /\ NumWords(r.length) = pr.elts * pr.size
         /\ \A i \in 1 .. RewriteWords : r.words[i] = Zero
<1>1. /\ pr.elts \in 1 .. 255 /\ pr.size \in 1 .. 4
      /\ OptionLength(pr) \in 0 .. 255
      /\ OptionLength(pr) # 0
      /\ NumWords(OptionLength(pr)) = pr.elts * pr.size
      /\ pr.elts * pr.size <= RewriteWords
  BY OptionLengthLemma
<1> DEFINE w == [i \in 1 .. RewriteWords |-> Zero]
<1>2. r = [length |-> OptionLength(pr), left |-> pr.elts, size |-> pr.size, words |-> w]
  BY DEF nsh_md2_ioam_trace_rewrite_handler
<1>3. w \in [1 .. RewriteWords -> WordType] /\ \A i \in 1 .. RewriteWords : w[i] = Zero
  BY WordTypes
<1> HIDE DEF w
<1>4. r.length = OptionLength(pr) /\ r.left = pr.elts /\ r.size = pr.size /\ r.words = w
  BY <1>2
<1>5. r \in RewriteType
  <2>1. pr.elts \in 0 .. 255 /\ pr.size \in 0 .. 4
    <3>1. (\A e \in 1 .. 255 : e \in 0 .. 255) /\ (\A e \in 1 .. 4 : e \in 0 .. 4)
      OBVIOUS
    <3> QED
      BY <1>1, <3>1
  <2> QED
    BY <1>1, <1>2, <1>3, <2>1 DEF RewriteType, OptionType
<1>6. OptionOK(r)
  <2>1. pr.elts \in Nat
    BY <1>1, SmallNat
  <2>2. pr.elts * pr.size \in Nat
    BY <1>1, <2>1, QuotientOfProduct
  <2> DEFINE n == pr.elts * pr.size
  <2>3. NumWords(r.length) = n /\ r.left * r.size = n /\ n <= RewriteWords
    BY <1>1, <1>4
  <2>4. n <= n
    <3>1. n \in Nat
      BY <2>2
    <3> HIDE DEF n
    <3> QED
      BY <3>1
  <2>5. r.length # 0
    BY <1>1, <1>4
  <2> HIDE DEF n
  <2> QED
    BY <2>3, <2>4, <2>5 DEF OptionOK
<1> QED
  BY <1>1, <1>3, <1>4, <1>5, <1>6

LEMMA BareRewriteOK == BareRewrite \in RewriteType /\ OptionOK(BareRewrite)
<1> DEFINE w == [i \in 1 .. RewriteWords |-> Zero]
<1>1. w \in [1 .. RewriteWords -> WordType]
  BY WordTypes
<1>2. BareRewrite = [length |-> 0, left |-> 0, size |-> 0, words |-> w]
  BY DEF BareRewrite
<1> HIDE DEF w
<1>3. BareRewrite.length = 0 /\ BareRewrite.left = 0 /\ BareRewrite.size = 0
  BY <1>2
<1>4. NumWords(0) = 0 /\ 0 <= RewriteWords
  BY ProfileAssumption DEF NumWords
<1> QED
  BY <1>1, <1>2, <1>3, <1>4 DEF RewriteType, OptionType, OptionOK

LEMMA FreshRewriteOK ==
  ASSUME NEW h \in Hop, NEW r \in FreshRewrites(h)
  PROVE  r \in RewriteType /\ OptionOK(r)
<1>1. r = BareRewrite \/ \E pr \in Profiles : r = nsh_md2_ioam_trace_rewrite_handler(pr)
  BY DEF FreshRewrites
<1> QED
  BY <1>1, MadeRewrite, BareRewriteOK

\* A packet x that got the header of entry m, before its handler runs.
Pushed(x, m, t, soiled) ==
  [x EXCEPT !.state = "chain", !.ttl = t, !.opt = Sent(m), !.soiled = soiled]

\* nsh_md2_encap copies the rewrite in front of the packet.
LEMMA PushKeeps ==
  ASSUME NEW p \in Packet, NEW h \in Hop, "push" \in Roles[h],
         NEW m \in RewriteType, OptionOK(m),
         NEW soiled \in BOOLEAN, ~soiled => m \in FreshRewrites(h),
         NEW x \in PacketType, PacketOK(p, x), x.state = "new",
         NEW t \in 0 .. 3,
         NEW y, y = Pushed(x, m, t, soiled)
  PROVE  y \in PacketType /\ PacketOK(p, y) /\ y.state = "chain"
<1> DEFINE s == Sent(m)
           n == NumWords(m.length)
<1>1. n <= RewriteWords
  BY DEF OptionOK
<1>2. /\ s \in OptionType(Seq(WordType))
      /\ s.length = m.length /\ s.left = m.left /\ s.size = m.size
      /\ Len(s.words) = n
      /\ \A i \in 1 .. n : s.words[i] = m.words[i]
  BY <1>1, SentEffect
<1> HIDE DEF s
<1>3. /\ y.state = "chain" /\ y.ttl = t /\ y.scanned = x.scanned /\ y.opt = s /\ y.soiled = soiled /\ y.path = x.path
      /\ y.wide = x.wide /\ y.agree = x.agree /\ y.cut = x.cut /\ y.hurt = x.hurt
      /\ y = [state |-> y.state, ttl |-> y.ttl, opt |-> y.opt, path |-> y.path,
              wide |-> y.wide, agree |-> y.agree, soiled |-> y.soiled,
              cut |-> y.cut, scanned |-> y.scanned, hurt |-> y.hurt]
  BY DEF PacketType, Pushed, s
<1>4. y \in PacketType
  <2>1. /\ y.state \in {"new", "chain", "popped", "dropped"} /\ y.ttl \in 0 .. 3
        /\ y.opt \in OptionType(Seq(WordType)) /\ y.path \in Seq(Hop)
        /\ y.wide \in BOOLEAN /\ y.agree \in BOOLEAN /\ y.soiled \in BOOLEAN
        /\ y.cut \in BOOLEAN /\ y.scanned \in BOOLEAN /\ y.hurt \in BOOLEAN
    BY <1>2, <1>3, PacketParts
  <2>2. y = [state |-> y.state, ttl |-> y.ttl, opt |-> y.opt, path |-> y.path,
             wide |-> y.wide, agree |-> y.agree, soiled |-> y.soiled,
             cut |-> y.cut, scanned |-> y.scanned, hurt |-> y.hurt]
    BY <1>3
  <2> QED
    BY <2>1, <2>2 DEF PacketType
<1>5. OptionOK(s)
  BY <1>2 DEF OptionOK
<1>6. x.path = << >> /\ HurtExplained(p, y)
  BY <1>3 DEF PacketOK, HurtExplained
<1>7. s.words \in [1 .. n -> WordType] /\ DOMAIN s.words = 1 .. n /\ n \in Nat
  BY <1>2, OptionParts, WordSequences
<1>8. ASSUME ~soiled
      PROVE  /\ \A i \in DOMAIN s.words : OwnWord(p, s.words[i])
             /\ TellsPath(p, s, << >>)
  <2>1. PICK pr \in Profiles : m = nsh_md2_ioam_trace_rewrite_handler(pr)
    BY <1>8 DEF FreshRewrites
  <2>2. /\ m.left = pr.elts /\ m.size = pr.size /\ n = pr.elts * pr.size
        /\ \A i \in 1 .. RewriteWords : m.words[i] = Zero
        /\ pr.elts \in 1 .. 255 /\ pr.size \in 1 .. 4
    BY <2>1, MadeRewrite, OptionLengthLemma
  <2>3. RewriteWords \in Nat
    BY ProfileAssumption
  <2> HIDE DEF n
  <2>4. \A i \in 1 .. n : s.words[i] = Zero
    <3>1. \A i \in 1 .. n : i \in 1 .. RewriteWords
      BY <1>1, <1>7, <2>3
    <3>2. \A i \in 1 .. RewriteWords : m.words[i] = Zero
      BY <2>2
    <3> QED
      BY <1>2, <3>1, <3>2
  <2>5. \A i \in DOMAIN s.words : OwnWord(p, s.words[i])
    BY <1>7, <2>4 DEF OwnWord
  <2>6. ListOf(p, << >>, pr.elts, pr.size) = [i \in 1 .. n |-> Zero]
    <3>1. \A k : k \notin DOMAIN << >>
      OBVIOUS
    <3> QED
      BY <2>2, <3>1 DEF ListOf
  <2>7. s.words = [i \in 1 .. n |-> Zero]
    BY <1>7, <2>4
  <2>8. Len(<< >>) = 0 /\ pr.elts \in Nat /\ pr.elts # 0
    BY <2>2, SmallNat
  <2>9. s.left = IF Len(<< >>) < pr.elts THEN pr.elts - Len(<< >>) ELSE 0
    BY <1>2, <2>2, <2>8
  <2>10. s.size \in 1 .. 4 /\ NumWords(s.length) = pr.elts * s.size
    BY <1>2, <2>2 DEF n
  <2>11. s.words = ListOf(p, << >>, pr.elts, s.size)
    BY <1>2, <2>2, <2>6, <2>7
  <2> QED
    BY <2>2, <2>5, <2>9, <2>10, <2>11 DEF TellsPath
<1> QED
  BY <1>2, <1>3, <1>4, <1>5, <1>6, <1>8 DEF PacketOK

\* A packet that is popped or dropped, or that was scanned, keeps what holds of it.
LEMMA EndKeeps ==
  ASSUME NEW p \in Packet, NEW x \in PacketType, PacketOK(p, x), x.state # "new",
         NEW end \in {"popped", "dropped"}, NEW y, y = [x EXCEPT !.state = end]
  PROVE  y \in PacketType /\ PacketOK(p, y)
<1>1. /\ y.state = end /\ y.opt = x.opt /\ y.soiled = x.soiled /\ y.path = x.path
      /\ y.wide = x.wide /\ y.agree = x.agree /\ y.cut = x.cut /\ y.hurt = x.hurt
      /\ y.scanned = x.scanned
  BY DEF PacketType
<1>2. y \in PacketType
  BY DEF PacketType
<1> QED
  BY <1>1, <1>2 DEF PacketOK, HurtExplained

LEMMA ScanKeeps ==
  ASSUME NEW p \in Packet, NEW x \in PacketType, PacketOK(p, x), NEW long \in BOOLEAN,
         NEW y, y = [x EXCEPT !.scanned = x.scanned \/ long,
                              !.hurt = x.hurt \/ (long /\ Behind[p] = "option")]
  PROVE  y \in PacketType /\ PacketOK(p, y)
<1>1. /\ y.state = x.state /\ y.opt = x.opt /\ y.soiled = x.soiled /\ y.path = x.path
      /\ y.wide = x.wide /\ y.agree = x.agree /\ y.cut = x.cut
      /\ y.scanned = (x.scanned \/ long)
      /\ y.hurt = (x.hurt \/ (long /\ Behind[p] = "option"))
  BY DEF PacketType
<1>2. y \in PacketType
  <2>1. (x.scanned \/ long) \in BOOLEAN
        /\ (x.hurt \/ (long /\ Behind[p] = "option")) \in BOOLEAN
    OBVIOUS
  <2> QED
    BY <2>1 DEF PacketType
<1>3. HurtExplained(p, y)
  BY <1>1 DEF PacketOK, HurtExplained
<1> QED
  BY <1>1, <1>2, <1>3 DEF PacketOK

-----------------------------------------------------------------------------
\* The inductive invariant holds at the start and in every step.

LEMMA InitInv == Init => TraceInv
<1> SUFFICES ASSUME Init
             PROVE  TraceInv
  OBVIOUS
<1>1. ASSUME NEW h \in Hop
      PROVE  /\ rewrite[h] \in FreshRewrites(h)
             /\ rewrite[h] \in RewriteType /\ OptionOK(rewrite[h])
  <2>1. profile[h] \in Profiles /\ rewrite[h] \in NewRewrites(h, profile[h])
    BY DEF Init
  <2>2. rewrite[h] \in FreshRewrites(h)
    BY <2>1 DEF NewRewrites, FreshRewrites
  <2> QED
    BY <2>2, FreshRewriteOK
<1>2. NewPacket \in PacketType
  <2>1. NoOption \in OptionType(Seq(WordType))
    BY DEF NoOption, OptionType
  <2>2. << >> \in Seq(Hop) /\ 0 \in 0 .. 3
    OBVIOUS
  <2> QED
    BY <2>1, <2>2 DEF NewPacket, PacketType
<1>3. ASSUME NEW p \in Packet
      PROVE  PacketOK(p, NewPacket)
  <2>1. /\ NewPacket.opt = NoOption /\ NewPacket.state = "new" /\ NewPacket.path = << >>
        /\ ~NewPacket.hurt
    BY DEF NewPacket
  <2>2. NoOption.length = 0 /\ NoOption.left = 0 /\ NoOption.size = 0 /\ NoOption.words = << >>
    BY DEF NoOption
  <2>3. NumWords(0) = 0 /\ 0 <= RewriteWords
    BY ProfileAssumption DEF NumWords
  <2>4. OptionOK(NoOption)
    BY <2>2, <2>3 DEF OptionOK
  <2>5. Len(<< >>) = 0 /\ \A i : i \notin DOMAIN << >>
    OBVIOUS
  <2> QED
    BY <2>1, <2>2, <2>3, <2>4, <2>5 DEF PacketOK, HurtExplained
<1>4. TraceType
  <2>1. rewrite \in [Hop -> {BareRewrite} \cup
                            {nsh_md2_ioam_trace_rewrite_handler(pr) : pr \in Profiles}]
    BY DEF Init
  <2>2. rewrite \in [Hop -> RewriteType]
    BY <1>1, <2>1
  <2>3. pkt \in [Packet -> PacketType]
    BY <1>2 DEF Init
  <2>4. changes \in 0 .. MaxChanges
    BY ProfileAssumption DEF Init
  <2> QED
    BY <2>2, <2>3, <2>4 DEF TraceType, Init
<1>5. RewriteOK
  BY <1>1 DEF RewriteOK
<1>6. PacketsOK
  BY <1>3 DEF PacketsOK, Init
<1> QED
  BY <1>4, <1>5, <1>6 DEF TraceInv

\* One packet is replaced by one that is as it must be.
LEMMA PacketReplaced ==
  ASSUME TraceInv, NEW p \in Packet, NEW y \in PacketType, PacketOK(p, y),
         pkt' = [pkt EXCEPT ![p] = y]
  PROVE  pkt' \in [Packet -> PacketType] /\ PacketsOK'
<1>1. pkt \in [Packet -> PacketType] /\ PacketsOK
  BY DEF TraceInv, TraceType
<1>2. \A q \in Packet : pkt'[q] = IF q = p THEN y ELSE pkt[q]
  BY <1>1
<1>3. \A q \in Packet : PacketOK(q, pkt'[q])
  BY <1>1, <1>2 DEF PacketsOK
<1> QED
  BY <1>1, <1>3 DEF PacketsOK

LEMMA PacketInv ==
  ASSUME TraceInv, NEW p \in Packet
  PROVE  pkt[p] \in PacketType /\ PacketOK(p, pkt[p])
BY DEF TraceInv, TraceType, PacketsOK

LEMMA RewriteInv ==
  ASSUME TraceInv, NEW h \in Hop
  PROVE  /\ rewrite[h] \in RewriteType /\ OptionOK(rewrite[h])
         /\ h \notin refilled => rewrite[h] \in FreshRewrites(h)
BY DEF TraceInv, TraceType, RewriteOK

\* Only packets were touched.
LEMMA HopsUntouched ==
  ASSUME TraceInv, UNCHANGED << hopVars, changes >>,
         pkt' \in [Packet -> PacketType], PacketsOK'
  PROVE  TraceInv'
<1>1. TraceType'
  BY DEF TraceInv, TraceType, hopVars
<1>2. RewriteOK'
  BY DEF TraceInv, RewriteOK, hopVars
<1> QED
  BY <1>1, <1>2 DEF TraceInv

LEMMA StepPush ==
  ASSUME TraceInv, NEW p \in Packet, NEW h \in Hop, Push(p, h)
  PROVE  TraceInv'
<1> DEFINE x == pkt[p]
           m == rewrite[h]
           soiled == h \in refilled
           t == ttl[h]
           y == Pushed(x, m, t, soiled)
           d == DataList(p, h, y)
<1>1. /\ "push" \in Roles[h] /\ x.state = "new"
      /\ pkt' = [pkt EXCEPT ![p] = d]
      /\ UNCHANGED << hopVars, changes >>
  BY DEF Push, Pushed
<1>2. x \in PacketType /\ PacketOK(p, x)
  BY PacketInv
<1>3. /\ m \in RewriteType /\ OptionOK(m)
      /\ soiled \in BOOLEAN /\ (~soiled => m \in FreshRewrites(h))
  BY RewriteInv
<1>t. t \in 0 .. 3
  BY TtlType DEF TraceInv
<1> HIDE DEF x, m, soiled, t
<1>4. y = Pushed(x, m, t, soiled)
  OBVIOUS
<1> HIDE DEF y
<1>5. y \in PacketType /\ PacketOK(p, y) /\ y.state = "chain"
  BY <1>1, <1>2, <1>3, <1>4, <1>t, PushKeeps
<1>6. d \in PacketType /\ PacketOK(p, d)
  BY <1>5, DataListKeeps DEF TraceInv
<1> HIDE DEF d
<1>7. pkt' \in [Packet -> PacketType] /\ PacketsOK'
  BY <1>1, <1>6, PacketReplaced
<1> QED
  BY <1>1, <1>7, HopsUntouched

LEMMA StepTransit ==
  ASSUME TraceInv, NEW p \in Packet, NEW h \in Hop, Transit(p, h)
  PROVE  TraceInv'
<1> DEFINE x == pkt[p]
           long == x.ttl # 0
           short == long /\ Behind[p] = "short"
           d == DataList(p, h, x)
           dropped == [x EXCEPT !.state = "dropped"]
           passed == [d EXCEPT !.scanned = d.scanned \/ long,
                               !.hurt = d.hurt \/ (long /\ Behind[p] = "option")]
<1>1. /\ x.state = "chain"
      /\ pkt' = [pkt EXCEPT ![p] = IF short THEN dropped ELSE passed]
      /\ UNCHANGED << hopVars, changes >>
  <2>1. x.state = "chain" /\ UNCHANGED << hopVars, changes >>
    BY DEF Transit, Arrives
  <2>2. pkt' = [pkt EXCEPT ![p] = IF short THEN dropped ELSE passed]
    BY DEF Transit
  <2> QED
    BY <2>1, <2>2
<1>2. x \in PacketType /\ PacketOK(p, x)
  BY PacketInv
<1>3. long \in BOOLEAN
  OBVIOUS
<1> HIDE DEF x, long
<1>4. dropped \in PacketType /\ PacketOK(p, dropped)
  BY <1>1, <1>2, EndKeeps
<1>5. d \in PacketType /\ PacketOK(p, d)
  BY <1>1, <1>2, DataListKeeps DEF TraceInv
<1> HIDE DEF d
<1>6. passed \in PacketType /\ PacketOK(p, passed)
  BY <1>3, <1>5, ScanKeeps
<1> HIDE DEF dropped, passed, short
<1>7. pkt' \in [Packet -> PacketType] /\ PacketsOK'
  <2>1. CASE short
    BY <1>1, <1>4, <2>1, PacketReplaced
  <2>2. CASE ~short
    BY <1>1, <1>6, <2>2, PacketReplaced
  <2> QED
    BY <2>1, <2>2
<1> QED
  BY <1>1, <1>7, HopsUntouched

LEMMA StepPop ==
  ASSUME TraceInv, NEW p \in Packet, NEW h \in Hop, Pop(p, h)
  PROVE  TraceInv'
<1> DEFINE x == pkt[p]
           d == DataList(p, h, x)
           y == [d EXCEPT !.state = "popped"]
<1>1. /\ x.state = "chain"
      /\ pkt' = [pkt EXCEPT ![p] = y]
      /\ UNCHANGED << hopVars, changes >>
  BY DEF Pop, Arrives
<1>2. x \in PacketType /\ PacketOK(p, x)
  BY PacketInv
<1> HIDE DEF x
<1>3. d \in PacketType /\ PacketOK(p, d) /\ d.state = "chain"
  BY <1>1, <1>2, DataListKeeps DEF TraceInv
<1> HIDE DEF d
<1>4. y \in PacketType /\ PacketOK(p, y)
  BY <1>3, EndKeeps
<1> HIDE DEF y
<1>5. pkt' \in [Packet -> PacketType] /\ PacketsOK'
  BY <1>1, <1>4, PacketReplaced
<1> QED
  BY <1>1, <1>5, HopsUntouched

LEMMA StepSwap ==
  ASSUME TraceInv, NEW p \in Packet, NEW h \in Hop, Swap(p, h)
  PROVE  TraceInv'
<1> DEFINE x == pkt[p]
           m == rewrite[h]
           c == CopyOption(m, x.opt, p)
           new == Recorded(c, profile[h].size, p, h)
           y == Swapped(x, h, m, c, new)
<1>1. /\ x.state = "chain"
      /\ rewrite' = [rewrite EXCEPT ![h] = new]
      /\ refilled' = refilled \cup {h}
      /\ UNCHANGED << profile, ttl, changes >>
  BY DEF Swap, Arrives
<1>p. pkt' = [pkt EXCEPT ![p] = y]
  BY DEF Swap, Swapped
<1>2. x \in PacketType /\ PacketOK(p, x)
  BY PacketInv
<1>3. m \in RewriteType /\ OptionOK(m)
  BY RewriteInv
<1> HIDE DEF x, m
<1>c. c = CopyOption(m, x.opt, p)
  OBVIOUS
<1> HIDE DEF c
<1>n. new = Recorded(c, profile[h].size, p, h)
  OBVIOUS
<1> HIDE DEF new
<1>y. y = Swapped(x, h, m, c, new)
  OBVIOUS
<1> HIDE DEF y
<1>s. x.state # "new" /\ TraceType
  BY <1>1 DEF TraceInv
<1>4. /\ new \in RewriteType /\ OptionOK(new)
      /\ y \in PacketType /\ PacketOK(p, y)
  BY <1>s, <1>2, <1>3, <1>c, <1>n, <1>y, SwapKeeps
<1>5. pkt' \in [Packet -> PacketType] /\ PacketsOK'
  BY <1>p, <1>4, PacketReplaced
<1>6. TraceType'
  BY <1>1, <1>4, <1>5 DEF TraceInv, TraceType
<1>7. RewriteOK'
  <2>1. \A g \in Hop : rewrite'[g] = IF g = h THEN new ELSE rewrite[g]
    BY <1>1 DEF TraceInv, TraceType
  <2>2. \A g \in Hop : g \notin refilled' => g # h /\ g \notin refilled
    BY <1>1
  <2>3. \A g \in Hop : /\ OptionOK(rewrite'[g])
                       /\ g \notin refilled' => rewrite'[g] \in FreshRewrites(g)
    BY <1>4, <2>1, <2>2 DEF TraceInv, RewriteOK
  <2> QED
    BY <2>3 DEF RewriteOK, FreshRewrites
<1> QED
  BY <1>5, <1>6, <1>7 DEF TraceInv

LEMMA StepSetProfile ==
  ASSUME TraceInv, NEW h \in Hop, NEW pr \in Profiles, SetProfile(h, pr)
  PROVE  TraceInv'
<1>1. changes' \in 0 .. MaxChanges
  BY ProfileAssumption DEF SetProfile, TraceInv, TraceType
<1>2. TraceType'
  BY <1>1 DEF SetProfile, TraceInv, TraceType
<1>3. RewriteOK'
  BY DEF SetProfile, TraceInv, RewriteOK
<1>4. PacketsOK'
  BY DEF SetProfile, TraceInv, PacketsOK
<1> QED
  BY <1>2, <1>3, <1>4 DEF TraceInv

LEMMA StepReplaceEntry ==
  ASSUME TraceInv, NEW h \in Hop, NEW r \in NewRewrites(h, profile[h]),
         NEW t \in Ttls[h], ReplaceEntry(h, r, t)
  PROVE  TraceInv'
<1>1. changes' \in 0 .. MaxChanges
  BY ProfileAssumption DEF ReplaceEntry, TraceInv, TraceType
<1>2. r \in FreshRewrites(h)
  <2>1. profile[h] \in Profiles
    BY DEF TraceInv, TraceType
  <2> QED
    BY <2>1 DEF NewRewrites, FreshRewrites
<1>3. r \in RewriteType /\ OptionOK(r)
  BY <1>2, FreshRewriteOK
<1>4. TraceType'
  <2>1. t \in 0 .. 3
    BY TtlAssumption
  <2> QED
    BY <1>1, <1>3, <2>1 DEF ReplaceEntry, TraceInv, TraceType
<1>5. RewriteOK'
  <2>1. \A g \in Hop : rewrite'[g] = IF g = h THEN r ELSE rewrite[g]
    BY DEF ReplaceEntry, TraceInv, TraceType
  <2>2. \A g \in Hop : g \notin refilled' => g = h \/ g \notin refilled
    BY DEF ReplaceEntry
  <2>3. \A g \in Hop : /\ OptionOK(rewrite'[g])
                       /\ g \notin refilled' => rewrite'[g] \in FreshRewrites(g)
    BY <1>2, <1>3, <2>1, <2>2 DEF TraceInv, RewriteOK
  <2> QED
    BY <2>3 DEF RewriteOK, FreshRewrites
<1>6. PacketsOK'
  BY DEF ReplaceEntry, TraceInv, PacketsOK
<1> QED
  BY <1>4, <1>5, <1>6 DEF TraceInv

LEMMA NextInv == TraceInv /\ [Next]_vars => TraceInv'
<1> SUFFICES ASSUME TraceInv, [Next]_vars
             PROVE  TraceInv'
  OBVIOUS
<1>1. ASSUME NEW p \in Packet, NEW h \in Hop,
             Push(p, h) \/ Transit(p, h) \/ Swap(p, h) \/ Pop(p, h)
      PROVE  TraceInv'
  BY <1>1, StepPush, StepTransit, StepSwap, StepPop
<1>2. ASSUME NEW h \in Hop, NEW pr \in Profiles, SetProfile(h, pr)
      PROVE  TraceInv'
  BY <1>2, StepSetProfile
<1>3. ASSUME NEW h \in Hop, NEW r \in NewRewrites(h, profile[h]), NEW t \in Ttls[h],
             ReplaceEntry(h, r, t)
      PROVE  TraceInv'
  BY <1>3, StepReplaceEntry
<1>4. CASE UNCHANGED vars
  <2>1. TraceType'
    BY <1>4 DEF TraceInv, TraceType, vars, hopVars
  <2>2. RewriteOK'
    BY <1>4 DEF TraceInv, RewriteOK, vars, hopVars
  <2>3. PacketsOK'
    BY <1>4 DEF TraceInv, PacketsOK, vars
  <2> QED
    BY <2>1, <2>2, <2>3 DEF TraceInv
<1> QED
  BY <1>1, <1>2, <1>3, <1>4 DEF Next

LEMMA TraceInvHolds == Spec => []TraceInv
  BY InitInv, NextInv, PTL DEF Spec

-----------------------------------------------------------------------------
\* What follows.

\* Every variable keeps its type, and an option has as many words as it says.
THEOREM TraceTypeCorrect == Spec => []TypeOK
<1>1. TraceInv => TypeOK
  <2> SUFFICES ASSUME TraceInv
               PROVE  TypeOK
    OBVIOUS
  <2>1. \A h \in Hop : rewrite[h] \in OptionType([1 .. RewriteWords -> WordType])
    BY DEF TraceInv, TraceType, RewriteType
  <2>2. \A p \in Packet : /\ pkt[p].opt \in OptionType(Seq(WordType))
                          /\ Len(pkt[p].opt.words) = NumWords(pkt[p].opt.length)
                          /\ pkt[p].path \in Seq(Hop)
                          /\ pkt[p].ttl \in 0 .. 3
    BY PacketInv, PacketParts DEF PacketOK
  <2> QED
    BY <2>1, <2>2 DEF TypeOK, TraceInv, TraceType
<1> QED
  BY <1>1, TraceInvHolds, PTL

\* No hop writes over the payload behind the option, whatever packets its entry
\* was used for and whatever the ttls, unless it records more than the option was
\* made for, or its scan goes on into payload that reads as an option.
THEOREM PayloadKeptCorrect == Spec => []PayloadKept
<1>1. TraceInv => PayloadKept
  BY DEF TraceInv, PacketsOK, PacketOK, PayloadKept, HurtExplained
<1> QED
  BY <1>1, TraceInvHolds, PTL

\* A packet never carries records or payload of another one, unless it was cut
\* short or pushed with a rewrite other packets had been copied to.
THEOREM OwnRecordsCorrect == Spec => []OwnRecordsOnly
<1>1. TraceInv => OwnRecordsOnly
  BY DEF TraceInv, PacketsOK, PacketOK, OwnRecordsOnly, OwnWord
<1> QED
  BY <1>1, TraceInvHolds, PTL

\* The trace of a packet tells its own path, from the end of the list, as many
\* hops as there is room for, however many packets share the entries on its way.
THEOREM TraceCorrect == Spec => []TraceTellsPath
<1>1. TraceInv => TraceTellsPath
  <2> SUFFICES ASSUME TraceInv, NEW p \in Packet,
                      pkt[p].state # "new", pkt[p].agree, ~pkt[p].soiled, ~pkt[p].cut
               PROVE  LET o == pkt[p].opt
                          elts == NumWords(o.length) \div o.size
                      IN  /\ o.words = ListOf(p, pkt[p].path, elts, o.size)
                          /\ o.left = IF Len(pkt[p].path) < elts
                                        THEN elts - Len(pkt[p].path) ELSE 0
    BY DEF TraceTellsPath
  <2> DEFINE o == pkt[p].opt
             path == pkt[p].path
  <2>1. TellsPath(p, o, path)
    BY DEF TraceInv, PacketsOK, PacketOK
  <2> HIDE DEF o, path
  <2>2. PICK elts \in 1 .. 255 :
          /\ o.size \in 1 .. 4
          /\ NumWords(o.length) = elts * o.size
          /\ o.words = ListOf(p, path, elts, o.size)
          /\ o.left = IF Len(path) < elts THEN elts - Len(path) ELSE 0
    BY <2>1 DEF TellsPath
  <2>3. elts \in Nat
    BY SmallNat
  <2>4. NumWords(o.length) \div o.size = elts
    <3>1. (elts * o.size) \div o.size = elts
      BY <2>2, <2>3, QuotientOfProduct
    <3> QED
      BY <2>2, <3>1
  <2> QED
    BY <2>2, <2>4 DEF o, path
<1> QED
  BY <1>1, TraceInvHolds, PTL
=============================================================================
