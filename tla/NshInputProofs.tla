--------------------------- MODULE NshInputProofs ---------------------------
(***************************************************************************)
(* Proofs about NshInput, for every table of maps and entries, any packets *)
(* and frames of any length: what the nodes do to the headers of a packet, *)
(* and which invariants of the entries and of the frames that rests on.    *)
(***************************************************************************)
EXTENDS NshInput, SharedLemmas, FiniteSetTheorems

-----------------------------------------------------------------------------
\* TLVs

\* An option takes some bytes.
LEMMA OptionNat ==
  ASSUME NEW o \in Option
  PROVE  /\ OptionBytes[o] \in Nat
         /\ \E k \in 1 .. 63 : OptionBytes[o] = 4 * k
<1>1. OptionBytes[o] \in {4 * n : n \in 1 .. 63}
  BY OptionAssumption
<1> QED
  BY <1>1

\* What FirstBytes computes.
LEMMA FirstBytesSteps ==
  ASSUME NEW t \in Seq(Option)
  PROVE  /\ FirstBytes(t)[0] = 0
         /\ \A i \in 1 .. Len(t) :
              FirstBytes(t)[i] = FirstBytes(t)[i - 1] + OptionBytes[t[i]]
<1> DEFINE n == Len(t)
           Is(f) == f = [i \in 0 .. n |-> IF i = 0 THEN 0 ELSE f[i - 1] + OptionBytes[t[i]]]
           step == [i \in 1 .. n |-> [v \in Nat |-> v + OptionBytes[t[i]]]]
<1>1. n \in Nat /\ \A i \in 1 .. n : t[i] \in Option /\ OptionBytes[t[i]] \in Nat
  BY OptionNat
<1>2. step \in [1 .. n -> [Nat -> Nat]]
  BY <1>1
<1>3. PICK f \in [0 .. n -> Nat] :
        \A i \in 0 .. n : f[i] = IF i = 0 THEN 0 ELSE step[i][f[i - 1]]
  <2>1. n \in Nat /\ 0 \in Nat
    BY <1>1
  <2> HIDE DEF step, n
  <2>2. \E f \in [0 .. n -> Nat] : BySteps(f, n, 0, step)
    BY <1>2, <2>1, StepsExist
  <2> QED
    BY <2>2 DEF BySteps
<1>4. Is(f)
  <2>1. ASSUME NEW i \in 0 .. n
        PROVE  f[i] = IF i = 0 THEN 0 ELSE f[i - 1] + OptionBytes[t[i]]
    <3>1. CASE i = 0
      BY <1>3, <3>1
    <3>2. CASE i # 0
      <4>1. i \in 1 .. n /\ i - 1 \in 0 .. n
        BY <3>2, <1>1
      <4>2. f[i - 1] \in Nat
        BY <4>1
      <4> QED
        BY <1>3, <3>2, <4>1, <4>2
    <3> QED
      BY <3>1, <3>2
  <2> QED
    BY <2>1
<1>5. FirstBytes(t) = CHOOSE g : Is(g)
  BY DEF FirstBytes
<1>6. Is(FirstBytes(t))
  BY <1>4, <1>5
<1> QED
  BY <1>1, <1>6

\* The bytes of the first TLVs are a number of words.
LEMMA FirstBytesType ==
  ASSUME NEW t \in Seq(Option)
  PROVE  \A i \in 0 .. Len(t) :
           FirstBytes(t)[i] \in Nat /\ \E k \in Nat : FirstBytes(t)[i] = 4 * k
<1> DEFINE n == Len(t)
           b == FirstBytes(t)
           G == {i \in 0 .. n : b[i] \in Nat /\ \E k \in Nat : b[i] = 4 * k}
<1>1. n \in Nat /\ b[0] = 0 /\ \A i \in 1 .. n : b[i] = b[i - 1] + OptionBytes[t[i]]
  BY FirstBytesSteps
<1> HIDE DEF b
<1>2. 0 \in G
  BY <1>1
<1>3. ASSUME NEW i \in 1 .. n, i - 1 \in G
      PROVE  i \in G
  <2>1. PICK k \in Nat : b[i - 1] = 4 * k
    BY <1>3
  <2>2. t[i] \in Option
    OBVIOUS
  <2>3. PICK l \in 1 .. 63 : OptionBytes[t[i]] = 4 * l
    BY <2>2, OptionNat
  <2>4. b[i] = 4 * (k + l) /\ k + l \in Nat /\ b[i] \in Nat
    BY <1>1, <2>1, <2>3
  <2>5. \E j \in Nat : b[i] = 4 * j
    BY <2>4
  <2>6. i \in 0 .. n
    BY <1>1
  <2> QED
    BY <2>4, <2>5, <2>6
<1> HIDE DEF G
<1>4. \A i \in 0 .. n : i \in G
  BY <1>1, <1>2, <1>3, UpTo, Zenon
<1> QED
  BY <1>4 DEF G, b

\* TLVs take a number of bytes.
LEMMA TlvBytesType ==
  ASSUME NEW t \in Seq(Option)
  PROVE  /\ TlvBytes(t) \in Nat
         /\ \E k \in Nat : TlvBytes(t) = 4 * k
<1>1. Len(t) \in 0 .. Len(t)
  BY LenProperties
<1> QED
  BY <1>1, FirstBytesType DEF TlvBytes

\* What the first m TLVs are, the bytes are.
LEMMA SameFirstBytes ==
  ASSUME NEW s \in Seq(Option), NEW t \in Seq(Option), NEW m \in Nat,
         m <= Len(s), m <= Len(t), \A i \in 1 .. m : s[i] = t[i]
  PROVE  FirstBytes(s)[m] = FirstBytes(t)[m]
<1> DEFINE bs == FirstBytes(s)
           bt == FirstBytes(t)
           G == {i \in 0 .. m : bs[i] = bt[i]}
<1>1. /\ bs[0] = 0 /\ \A i \in 1 .. m : bs[i] = bs[i - 1] + OptionBytes[s[i]]
      /\ bt[0] = 0 /\ \A i \in 1 .. m : bt[i] = bt[i - 1] + OptionBytes[t[i]]
  BY FirstBytesSteps, LenProperties
<1> HIDE DEF bs, bt
<1>2. 0 \in G
  BY <1>1
<1>3. \A i \in 1 .. m : i - 1 \in G => i \in G
  BY <1>1
<1> HIDE DEF G
<1>4. \A i \in 0 .. m : i \in G
  BY <1>2, <1>3, UpTo, Zenon
<1>5. m \in G
  BY <1>4
<1> QED
  BY <1>5 DEF G, bs, bt

\* The bytes of one more TLV.
LEMMA TlvBytesAppend ==
  ASSUME NEW s \in Seq(Option), NEW o \in Option
  PROVE  TlvBytes(Append(s, o)) = TlvBytes(s) + OptionBytes[o]
<1> DEFINE t == Append(s, o)
           n == Len(s)
<1>1. /\ t \in Seq(Option) /\ n \in Nat /\ Len(t) = n + 1 /\ t[n + 1] = o
      /\ \A i \in 1 .. n : t[i] = s[i]
  OBVIOUS
<1> HIDE DEF t
<1>2. FirstBytes(t)[n + 1] = FirstBytes(t)[(n + 1) - 1] + OptionBytes[t[n + 1]]
  BY <1>1, FirstBytesSteps
<1>3. FirstBytes(t)[n] = FirstBytes(s)[n]
  BY <1>1, SameFirstBytes
<1>4. (n + 1) - 1 = n
  BY <1>1
<1>5. TlvBytes(t) = FirstBytes(s)[n] + OptionBytes[o]
  BY <1>1, <1>2, <1>3, <1>4 DEF TlvBytes
<1> QED
  BY <1>5 DEF t, TlvBytes

\* No TLVs take no bytes.
LEMMA TlvBytesEmpty == << >> \in Seq(Option) /\ TlvBytes(<< >>) = 0
<1>1. << >> \in Seq(Option) /\ Len(<< >>) = 0
  BY EmptySeq
<1> QED
  BY <1>1, FirstBytesSteps DEF TlvBytes

\* Taking fewer TLVs takes no more bytes.
LEMMA TlvBytesFirst ==
  ASSUME NEW t \in Seq(Option), NEW m \in 0 .. Len(t)
  PROVE  /\ SubSeq(t, 1, m) \in Seq(Option) /\ Len(SubSeq(t, 1, m)) = m
         /\ TlvBytes(SubSeq(t, 1, m)) <= TlvBytes(t)
<1> DEFINE n == Len(t)
           b == FirstBytes(t)
           s == SubSeq(t, 1, m)
           G == {i \in 0 .. n : i >= m => b[m] <= b[i]}
<1>1. n \in Nat /\ m \in Nat /\ \A i \in 0 .. n : b[i] \in Nat
  BY FirstBytesType, LenProperties
<1>2. \A i \in 1 .. n : OptionBytes[t[i]] \in Nat /\ b[i] = b[i - 1] + OptionBytes[t[i]]
  <2>1. \A i \in 1 .. n : t[i] \in Option
    OBVIOUS
  <2> QED
    BY <2>1, OptionNat, FirstBytesSteps
<1> HIDE DEF b
<1>3. 0 \in G
  BY <1>1
<1>4. ASSUME NEW i \in 1 .. n, i - 1 \in G
      PROVE  i \in G
  <2>1. b[i - 1] \in Nat /\ b[i] \in Nat /\ b[m] \in Nat /\ i \in 0 .. n
    BY <1>1
  <2>2. b[i - 1] <= b[i]
    <3>1. OptionBytes[t[i]] \in Nat /\ b[i] = b[i - 1] + OptionBytes[t[i]]
      BY <1>2
    <3> QED
      BY <2>1, <3>1
  <2>3. CASE i = m
    BY <2>1, <2>3
  <2>4. CASE i # m
    <3>1. i >= m => i - 1 >= m
      BY <1>1, <2>4
    <3> QED
      BY <1>4, <2>1, <2>2, <3>1
  <2> QED
    BY <2>3, <2>4
<1> HIDE DEF G
<1>5. \A i \in 0 .. n : i \in G
  BY <1>1, <1>3, <1>4, UpTo, Zenon
<1>6. b[m] <= b[n]
  <2>1. n \in G /\ n >= m
    BY <1>1, <1>5
  <2> QED
    BY <2>1 DEF G
<1>7. s \in Seq(Option) /\ Len(s) = m /\ \A i \in 1 .. m : s[i] = t[i]
  BY SubSeqProperties, LenProperties
<1> HIDE DEF s
<1>8. FirstBytes(s)[m] = b[m]
  BY <1>1, <1>7, SameFirstBytes DEF b
<1> QED
  BY <1>6, <1>7, <1>8 DEF TlvBytes, b, s

\* What FirstKept computes.
LEMMA FirstKeptSteps ==
  ASSUME NEW t \in Seq(Option)
  PROVE  /\ FirstKept(t)[0] = << >>
         /\ \A i \in 1 .. Len(t) :
              FirstKept(t)[i] = IF t[i] \in Registered THEN Append(FirstKept(t)[i - 1], t[i])
                                ELSE FirstKept(t)[i - 1]
<1> DEFINE n == Len(t)
           S == Seq(Option)
           Is(f) == f = [i \in 0 .. n |->
                           IF i = 0 THEN << >>
                           ELSE IF t[i] \in Registered THEN Append(f[i - 1], t[i])
                           ELSE f[i - 1]]
           step == [i \in 1 .. n |->
                      [v \in S |-> IF t[i] \in Registered THEN Append(v, t[i]) ELSE v]]
<1>1. n \in Nat /\ << >> \in S /\ \A i \in 1 .. n : \A v \in S : Append(v, t[i]) \in S
  BY EmptySeq
<1>2. step \in [1 .. n -> [S -> S]]
  BY <1>1
<1>3. PICK f \in [0 .. n -> S] :
        \A i \in 0 .. n : f[i] = IF i = 0 THEN << >> ELSE step[i][f[i - 1]]
  <2>1. n \in Nat /\ << >> \in S
    BY <1>1
  <2> HIDE DEF step, n, S
  <2>2. \E f \in [0 .. n -> S] : BySteps(f, n, << >>, step)
    BY <1>2, <2>1, StepsExist
  <2> QED
    BY <2>2 DEF BySteps
<1>4. Is(f)
  <2>1. ASSUME NEW i \in 0 .. n
        PROVE  f[i] = IF i = 0 THEN << >>
                      ELSE IF t[i] \in Registered THEN Append(f[i - 1], t[i])
                      ELSE f[i - 1]
    <3>1. CASE i = 0
      BY <1>3, <3>1
    <3>2. CASE i # 0
      <4>1. i \in 1 .. n /\ i - 1 \in 0 .. n
        BY <3>2, <1>1
      <4>2. f[i - 1] \in S
        BY <4>1
      <4> HIDE DEF S
      <4> QED
        BY <1>3, <3>2, <4>1, <4>2
    <3> QED
      BY <3>1, <3>2
  <2> QED
    BY <2>1
<1>5. FirstKept(t) = CHOOSE g : Is(g)
  BY DEF FirstKept
<1>6. Is(FirstKept(t))
  BY <1>4, <1>5
<1> DEFINE k == FirstKept(t)
<1>7. \A i \in 0 .. n : k[i] = IF i = 0 THEN << >>
                               ELSE IF t[i] \in Registered THEN Append(k[i - 1], t[i])
                               ELSE k[i - 1]
  <2> HIDE DEF k
  <2>1. Is(k)
    BY <1>6 DEF k
  <2> QED
    BY <2>1
<1> HIDE DEF k, n
<1>8. k[0] = << >>
  <2>1. 0 \in 0 .. n
    BY <1>1
  <2> QED
    BY <1>7, <2>1, Zenon
<1>9. ASSUME NEW i \in 1 .. n
      PROVE  k[i] = IF t[i] \in Registered THEN Append(k[i - 1], t[i]) ELSE k[i - 1]
  <2>1. i \in 0 .. n /\ i # 0
    BY <1>1
  <2> QED
    BY <1>7, <2>1
<1> QED
  BY <1>8, <1>9 DEF k, n

\* The options of a sequence that is one longer.
LEMMA ToSetAppend ==
  ASSUME NEW s \in Seq(Option), NEW o \in Option
  PROVE  /\ Append(s, o) \in Seq(Option)
         /\ ToSet(Append(s, o)) = ToSet(s) \cup {o}
<1> DEFINE t == Append(s, o)
           n == Len(s)
<1>1. /\ t \in Seq(Option) /\ n \in Nat /\ Len(t) = n + 1 /\ t[n + 1] = o
      /\ \A i \in 1 .. n : t[i] = s[i]
      /\ DOMAIN t = 1 .. n + 1 /\ DOMAIN s = 1 .. n
  OBVIOUS
<1> HIDE DEF t, n
<1>2. \A x : (\E i \in DOMAIN t : t[i] = x) <=> (\E i \in DOMAIN s : s[i] = x) \/ o = x
  BY <1>1
<1> QED
  BY <1>1, <1>2 DEF ToSet, t

\* What is understood of a list: the registered options of it, in no more bytes.
LEMMA UnderstoodLemma ==
  ASSUME NEW t \in Seq(Option), NEW profile \in BOOLEAN
  PROVE  /\ Understood(t, profile) \in Seq(Option)
         /\ ToSet(Understood(t, profile)) = IF profile THEN ToSet(t) \cap Registered ELSE {}
         /\ TlvBytes(Understood(t, profile)) <= TlvBytes(t)
<1> DEFINE n == Len(t)
           k == FirstKept(t)
           b == FirstBytes(t)
           Kept(i) == /\ k[i] \in Seq(Option)
                      /\ \A o : o \in ToSet(k[i]) <=> o \in Registered /\ \E j \in 1 .. i : t[j] = o
                      /\ TlvBytes(k[i]) <= b[i]
           G == {i \in 0 .. n : Kept(i)}
<1>1. /\ n \in Nat /\ k[0] = << >>
      /\ \A i \in 1 .. n : k[i] = IF t[i] \in Registered THEN Append(k[i - 1], t[i]) ELSE k[i - 1]
      /\ \A i \in 1 .. n : t[i] \in Option
  BY FirstKeptSteps, LenProperties
<1>2. /\ b[0] = 0 /\ \A i \in 0 .. n : b[i] \in Nat
      /\ \A i \in 1 .. n : OptionBytes[t[i]] \in Nat /\ b[i] = b[i - 1] + OptionBytes[t[i]]
  BY <1>1, FirstBytesSteps, FirstBytesType, OptionNat
<1> HIDE DEF n, k, b
<1>3. 0 \in G
  <2>1. ToSet(<< >>) = {}
    BY DEF ToSet
  <2>2. k[0] \in Seq(Option) /\ TlvBytes(k[0]) <= b[0]
    BY <1>1, <1>2, TlvBytesEmpty
  <2>3. \A o : ~(o \in ToSet(k[0])) /\ ~(\E j \in 1 .. 0 : t[j] = o)
    BY <1>1, <2>1
  <2>4. Kept(0)
    BY <2>2, <2>3
  <2>5. 0 \in 0 .. n
    BY <1>1
  <2> QED
    BY <2>4, <2>5
<1>4. ASSUME NEW i \in 1 .. n, i - 1 \in G
      PROVE  i \in G
  <2>1. Kept(i - 1) /\ i - 1 \in 0 .. n /\ i \in 0 .. n
    BY <1>4
  <2>2. \A o : (\E j \in 1 .. i : t[j] = o) <=> (\E j \in 1 .. i - 1 : t[j] = o) \/ t[i] = o
    BY <1>1
  <2>3. TlvBytes(k[i - 1]) \in Nat
    BY <2>1, TlvBytesType
  <2>4. CASE t[i] \in Registered
    <3>1. k[i] = Append(k[i - 1], t[i]) /\ t[i] \in Option
      BY <1>1, <2>4
    <3>2. /\ k[i] \in Seq(Option)
          /\ ToSet(k[i]) = ToSet(k[i - 1]) \cup {t[i]}
      BY <2>1, <3>1, ToSetAppend
    <3>3. TlvBytes(k[i]) = TlvBytes(k[i - 1]) + OptionBytes[t[i]]
      BY <2>1, <3>1, TlvBytesAppend
    <3>4. TlvBytes(k[i]) <= b[i]
      BY <1>2, <2>1, <2>3, <3>3
    <3>5. \A o : o \in ToSet(k[i]) <=> o \in Registered /\ \E j \in 1 .. i : t[j] = o
      BY <2>1, <2>2, <2>4, <3>2
    <3> QED
      BY <2>1, <3>2, <3>4, <3>5
  <2>5. CASE t[i] \notin Registered
    <3>1. k[i] = k[i - 1]
      BY <1>1, <2>5
    <3>2. TlvBytes(k[i]) <= b[i]
      BY <1>2, <2>1, <2>3, <3>1
    <3>3. \A o : o \in ToSet(k[i]) <=> o \in Registered /\ \E j \in 1 .. i : t[j] = o
      BY <2>1, <2>2, <2>5, <3>1
    <3> QED
      BY <2>1, <3>1, <3>2, <3>3
  <2> QED
    BY <2>4, <2>5
<1> HIDE DEF G
<1>5. \A i \in 0 .. n : i \in G
  BY <1>1, <1>3, <1>4, UpTo, Zenon
<1>6. Kept(n)
  <2>1. n \in G
    BY <1>1, <1>5
  <2> QED
    BY <2>1 DEF G
<1>7. CASE profile
  <2>1. Understood(t, profile) = k[n]
    BY <1>7 DEF Understood, k, n
  <2>2. TlvBytes(t) = b[n]
    BY DEF TlvBytes, b, n
  <2>3. \A o : o \in ToSet(t) <=> \E j \in 1 .. n : t[j] = o
    BY DEF ToSet, n
  <2>4. ToSet(k[n]) = ToSet(t) \cap Registered
    BY <1>6, <2>3
  <2> QED
    BY <1>6, <1>7, <2>1, <2>2, <2>4
<1>8. CASE ~profile
  <2>1. Understood(t, profile) = << >> /\ ToSet(<< >>) = {}
    BY <1>8 DEF Understood, ToSet
  <2>2. TlvBytes(t) \in Nat
    BY TlvBytesType
  <2> QED
    BY <1>8, <2>1, <2>2, TlvBytesEmpty
<1> QED
  BY <1>7, <1>8

-----------------------------------------------------------------------------
\* Headers in front of a packet

\* Sequences that are not empty have a first element and a rest.
LEMMA NotEmpty ==
  ASSUME NEW Kind, NEW s \in Seq(Kind)
  PROVE  Len(s) \in Nat /\ (s # << >> <=> Len(s) >= 1)
BY EmptySeq

\* A sequence with an element put in front.
LEMMA PutInFront ==
  ASSUME NEW Kind, NEW s \in Seq(Kind), NEW h \in Kind, NEW t, t = << h >> \o s
  PROVE  /\ t \in Seq(Kind) /\ Len(t) = Len(s) + 1
         /\ t[1] = h /\ \A i \in 1 .. Len(s) : t[i + 1] = s[i]
         /\ Head(t) = h /\ Tail(t) = s
         /\ s # << >> => Last(t) = Last(s)
<1>1. /\ t \in Seq(Kind) /\ Len(t) = Len(s) + 1 /\ t[1] = h /\ Len(s) \in Nat
      /\ \A i \in 1 .. Len(s) : t[i + 1] = s[i]
  BY ConcatProperties
<1>2. Head(t) = h /\ Tail(t) = s
  BY ConcatSimplifications
<1>3. s # << >> => Last(t) = Last(s)
  <2>1. s # << >> => Len(s) \in 1 .. Len(s)
    BY <1>1, EmptySeq
  <2> QED
    BY <1>1, <2>1 DEF Last
<1> QED
  BY <1>1, <1>2, <1>3

\* A sequence with its first element taken off.
LEMMA TakeOff ==
  ASSUME NEW Kind, NEW s \in Seq(Kind), s # << >>, NEW t, t = Tail(s)
  PROVE  /\ t \in Seq(Kind) /\ Len(s) \in Nat \ {0} /\ Len(t) = Len(s) - 1
         /\ s[1] \in Kind /\ Head(s) = s[1]
         /\ \A i \in 1 .. Len(t) : t[i] = s[i + 1]
         /\ Len(s) >= 2 => Last(t) = Last(s)
<1>1. /\ t \in Seq(Kind) /\ Len(s) \in Nat \ {0} /\ Len(t) = Len(s) - 1
      /\ s[1] \in Kind /\ Head(s) = s[1]
      /\ \A i \in 1 .. Len(t) : t[i] = s[i + 1]
  BY EmptySeq
<1>2. Len(s) >= 2 => Last(t) = Last(s)
  <2>1. Len(s) >= 2 => Len(t) \in 1 .. Len(t) /\ Len(t) + 1 = Len(s)
    BY <1>1
  <2> QED
    BY <1>1, <2>1 DEF Last
<1> QED
  BY <1>1, <1>2

\* A packet has headers and interfaces.
LEMMA PacketParts ==
  ASSUME NEW p \in PacketType
  PROVE  /\ p.hdrs \in Seq(HeaderType) /\ Len(p.hdrs) \in Nat
         /\ p.class \in Path \cup {NoPath} /\ p.rx \in Interface /\ p.tx \in Interface
         /\ p.adj \in AdjIndex
         /\ p.hdrs # << >> <=> Len(p.hdrs) >= 1
         /\ p = [hdrs |-> p.hdrs, class |-> p.class, rx |-> p.rx, tx |-> p.tx, adj |-> p.adj]
BY EmptySeq DEF PacketType

\* The parts of a header.
LEMMA HeaderParts ==
  ASSUME NEW h \in HeaderType
  PROVE  /\ h.nsh \in BOOLEAN /\ h.md_type \in 0 .. 255 /\ h.ttl \in 0 .. 63
         /\ h.path \in Path \cup {NoPath} /\ h.bytes \in Int /\ h.length \in Nat
         /\ h.tlvs \in Seq(Option)
         /\ h = [nsh |-> h.nsh, md_type |-> h.md_type, ttl |-> h.ttl, path |-> h.path,
                 bytes |-> h.bytes, length |-> h.length, tlvs |-> h.tlvs]
BY DEF HeaderType

\* The headers change, the rest of the packet stays.
WithHeaders(p, hdrs) == [p EXCEPT !.hdrs = hdrs]

\* A packet with other headers has the rest unchanged.
LEMMA OtherHeaders ==
  ASSUME NEW p \in PacketType, NEW hdrs \in Seq(HeaderType), NEW q, q = WithHeaders(p, hdrs)
  PROVE  /\ q \in PacketType /\ q.hdrs = hdrs
         /\ q.class = p.class /\ q.rx = p.rx /\ q.tx = p.tx /\ q.adj = p.adj
BY DEF PacketType, WithHeaders

\* What PushHeader does to the headers.
LEMMA PushHeaderEffect ==
  ASSUME NEW p \in PacketType, NEW h \in HeaderType, NEW q, q = PushHeader(p, h)
  PROVE  /\ q \in PacketType /\ q.hdrs = << h >> \o p.hdrs
         /\ q.class = p.class /\ q.rx = p.rx /\ q.tx = p.tx /\ q.adj = p.adj
<1>1. p.hdrs \in Seq(HeaderType)
  BY PacketParts
<1> DEFINE hdrs == << h >> \o p.hdrs
<1>2. hdrs \in Seq(HeaderType)
  BY <1>1, PutInFront
<1>3. q = WithHeaders(p, hdrs)
  BY DEF PushHeader, WithHeaders
<1> HIDE DEF hdrs
<1>4. /\ q \in PacketType /\ q.hdrs = hdrs
      /\ q.class = p.class /\ q.rx = p.rx /\ q.tx = p.tx /\ q.adj = p.adj
  BY <1>2, <1>3, OtherHeaders
<1> QED
  BY <1>4 DEF hdrs

Advanced(hdrs, n) == IF n = 0 THEN hdrs ELSE Tail(hdrs)

\* What Advance does to the headers.
LEMMA AdvanceEffect ==
  ASSUME NEW p \in PacketType, p.hdrs # << >>, NEW n, NEW q, q = Advance(p, n)
  PROVE  /\ q \in PacketType /\ q.hdrs = Advanced(p.hdrs, n)
         /\ Advanced(p.hdrs, n) \in Seq(HeaderType)
         /\ q.class = p.class /\ q.rx = p.rx /\ q.tx = p.tx /\ q.adj = p.adj
<1>1. p.hdrs \in Seq(HeaderType)
  BY PacketParts
<1>2. Tail(p.hdrs) \in Seq(HeaderType)
  BY <1>1, TakeOff
<1>3. CASE n = 0
  BY <1>1, <1>3 DEF Advance, Advanced
<1>4. CASE n # 0
  <2> DEFINE hdrs == Tail(p.hdrs)
  <2>1. q = WithHeaders(p, hdrs)
    BY <1>4 DEF Advance, WithHeaders
  <2>2. Advanced(p.hdrs, n) = hdrs /\ hdrs \in Seq(HeaderType)
    BY <1>2, <1>4 DEF Advanced
  <2> HIDE DEF hdrs
  <2> QED
    BY <2>1, <2>2, OtherHeaders
<1> QED
  BY <1>3, <1>4

\* The buffer is advanced by n bytes, which the first header need not have.
LEMMA AdvanceBytesEffect ==
  ASSUME NEW p \in PacketType, Len(p.hdrs) >= 2, NEW n \in Nat, NEW q, q = AdvanceBytes(p, n)
  PROVE  /\ q \in PacketType /\ Len(q.hdrs) = Len(p.hdrs) - 1
         /\ q.class = p.class /\ q.rx = p.rx /\ q.tx = p.tx /\ q.adj = p.adj
         /\ n = Head(p.hdrs).bytes => q.hdrs = Tail(p.hdrs)
         /\ q.hdrs[1].nsh = p.hdrs[2].nsh
<1> DEFINE hdrs == p.hdrs
           over == n - Head(hdrs).bytes
           second == [Head(Tail(hdrs)) EXCEPT !.bytes = Head(Tail(hdrs)).bytes - over]
           rest == Tail(Tail(hdrs))
<1>1. hdrs \in Seq(HeaderType) /\ hdrs # << >> /\ Len(hdrs) \in Nat /\ Len(hdrs) >= 2
  BY PacketParts
<1> HIDE DEF hdrs
<1>2. /\ Tail(hdrs) \in Seq(HeaderType) /\ Len(Tail(hdrs)) = Len(hdrs) - 1
      /\ \A i \in 1 .. Len(Tail(hdrs)) : Tail(hdrs)[i] = hdrs[i + 1]
      /\ Head(hdrs) \in HeaderType
  BY <1>1, TakeOff
<1>3. Tail(hdrs) # << >> /\ Tail(hdrs)[1] = hdrs[2]
  <2>1. Len(Tail(hdrs)) >= 1
    BY <1>1, <1>2
  <2>2. 1 \in 1 .. Len(Tail(hdrs))
    BY <1>1, <1>2, <2>1
  <2>3. Tail(hdrs) # << >>
    BY <1>2, <2>1, NotEmpty
  <2> QED
    BY <1>2, <2>2, <2>3
<1>4. /\ rest \in Seq(HeaderType) /\ Len(rest) = Len(hdrs) - 2
      /\ hdrs[2] \in HeaderType /\ Head(Tail(hdrs)) = hdrs[2]
  BY <1>1, <1>2, <1>3, TakeOff
<1>5. /\ over \in Int /\ hdrs[2].bytes - over \in Int
      /\ n = Head(hdrs).bytes => hdrs[2].bytes - over = hdrs[2].bytes
  <2>1. Head(hdrs).bytes \in Int /\ hdrs[2].bytes \in Int
    BY <1>2, <1>4, HeaderParts
  <2> QED
    BY <2>1
<1>6. /\ second \in HeaderType /\ second.nsh = hdrs[2].nsh
      /\ n = Head(hdrs).bytes => second = hdrs[2]
  <2> DEFINE b == hdrs[2].bytes - over
             h == hdrs[2]
  <2>1. b \in Int /\ (n = Head(hdrs).bytes => b = h.bytes)
    BY <1>5
  <2>2. second = [h EXCEPT !.bytes = b] /\ h \in HeaderType
    BY <1>4, Zenon
  <2> HIDE DEF b, h, second
  <2>3. second = [nsh |-> h.nsh, md_type |-> h.md_type, ttl |-> h.ttl, path |-> h.path,
                  bytes |-> b, length |-> h.length, tlvs |-> h.tlvs]
    BY <2>2, HeaderParts
  <2>4. second \in HeaderType
    <3>1. /\ h.nsh \in BOOLEAN /\ h.md_type \in 0 .. 255 /\ h.ttl \in 0 .. 63
          /\ h.path \in Path \cup {NoPath} /\ h.length \in Nat /\ h.tlvs \in Seq(Option)
      BY <2>2, HeaderParts
    <3> QED
      BY <2>1, <2>3, <3>1 DEF HeaderType
  <2>5. b = h.bytes => second = h
    BY <2>2, <2>3, HeaderParts
  <2>6. second.nsh = h.nsh
    BY <2>3
  <2> QED
    BY <2>1, <2>4, <2>5, <2>6 DEF h
<1> HIDE DEF second, over
<1> DEFINE new == << second >> \o rest
<1>7. q = WithHeaders(p, new)
  BY Zenon DEF AdvanceBytes, WithHeaders, second, over, hdrs
<1>8. new \in Seq(HeaderType) /\ Len(new) = Len(rest) + 1 /\ new[1] = second
  BY <1>4, <1>6, PutInFront
<1>9. Tail(hdrs) = << hdrs[2] >> \o rest
  BY <1>2, <1>3, <1>4, HeadTailProperties
<1>10. n = Head(hdrs).bytes => new = Tail(hdrs)
  BY <1>6, <1>9
<1> HIDE DEF rest, new
<1>11. /\ q \in PacketType /\ q.hdrs = new
       /\ q.class = p.class /\ q.rx = p.rx /\ q.tx = p.tx /\ q.adj = p.adj
  BY <1>7, <1>8, OtherHeaders
<1>12. Len(q.hdrs) = Len(hdrs) - 1
  BY <1>1, <1>4, <1>8, <1>11
<1>13. q.hdrs[1].nsh = hdrs[2].nsh
  BY <1>6, <1>8, <1>11
<1> QED
  BY <1>10, <1>11, <1>12, <1>13 DEF hdrs

-----------------------------------------------------------------------------
\* Entries and maps

EntriesOK(ents) ==
  /\ DOMAIN ents \subseteq DOMAIN EntryArgs
  /\ ents \in [DOMAIN ents -> RewriteType]

ConfigType == [profile : BOOLEAN, export : BOOLEAN]

\* What Rewrite makes of TLVs and a size is a rewrite.
LEMMA RewriteTyped ==
  ASSUME NEW t \in Seq(Option), NEW bytes \in Nat, NEW w, w = Rewrite(t, bytes)
  PROVE  /\ w \in RewriteType
         /\ w.tlvs = t /\ w.rewrite_size = bytes % 256
         /\ w.length = 4 * ((bytes % 256) \div 4)
<1> DEFINE b == bytes % 256
           l == 4 * (b \div 4)
<1>1. b \in 0 .. 255 /\ l \in 0 .. 252
  OBVIOUS
<1>2. w = [tlvs |-> t, rewrite_size |-> b, length |-> l]
  BY DEF Rewrite
<1> HIDE DEF b, l
<1> QED
  BY <1>1, <1>2 DEF RewriteType, b, l

\* The parts of an entry that is there.
LEMMA RewriteParts ==
  ASSUME NEW w \in RewriteType
  PROVE  /\ w.tlvs \in Seq(Option) /\ w.rewrite_size \in 0 .. 255 /\ w.length \in 0 .. 252
BY DEF RewriteType

\* What an entry is added with.
LEMMA EntryArgsParts ==
  ASSUME NEW e \in DOMAIN EntryArgs
  PROVE  /\ e \in Path /\ EntryArgs[e].md_type \in {1, 2} /\ EntryArgs[e].ttl \in 0 .. 63
         /\ EntryArgs[e].tlvs \in Seq(Option)
BY TableAssumption DEF EntryRecord

\* The header a rewrite is copied to is a header.
LEMMA NshHeaderType ==
  ASSUME NEW ents, EntriesOK(ents), NEW e \in DOMAIN ents, NEW h, h = NshHeader(ents, e)
  PROVE  /\ h \in HeaderType
         /\ h.nsh = TRUE /\ h.md_type = EntryArgs[e].md_type
         /\ h.bytes = ents[e].rewrite_size /\ h.length = ents[e].length
         /\ h.tlvs = ents[e].tlvs
<1>1. e \in DOMAIN EntryArgs /\ ents[e] \in RewriteType
  BY DEF EntriesOK
<1>2. /\ e \in Path /\ EntryArgs[e].md_type \in 0 .. 255 /\ EntryArgs[e].ttl \in 0 .. 63
  BY <1>1, EntryArgsParts
<1>3. ents[e].tlvs \in Seq(Option)
  BY <1>1, RewriteParts
<1>4. ents[e].rewrite_size \in 0 .. 255 /\ ents[e].length \in 0 .. 252
  BY <1>1, RewriteParts
<1> DEFINE b == ents[e].rewrite_size
           l == ents[e].length
<1>5. b \in Int /\ l \in Nat
  BY <1>4
<1>6. h = [nsh |-> TRUE, md_type |-> EntryArgs[e].md_type, ttl |-> EntryArgs[e].ttl,
           path |-> e, bytes |-> b, length |-> l, tlvs |-> ents[e].tlvs]
  BY DEF NshHeader
<1> HIDE DEF b, l
<1> QED
  BY <1>2, <1>3, <1>5, <1>6 DEF HeaderType, b, l

\* What a map says.
LEMMA MapParts ==
  ASSUME NEW k \in DOMAIN Maps
  PROVE  /\ k \in Path /\ Maps[k].nsh_action \in {"swap", "push", "pop"}
         /\ Maps[k].mapped \in Path /\ Maps[k].next_node \in MapNextNodes
         /\ Maps[k].sw_if_index \in Interface /\ Maps[k].rx_sw_if_index \in Interface
         /\ Maps[k].nsh_sw_if \in Interface /\ Maps[k].adj_index \in AdjIndex
         /\ RxInterface(k) \in Interface /\ RxInterface(k) # NoInterface
<1>1. Maps[k] \in MapRecord /\ k \in Path
  BY TableAssumption
<1>2. Maps[k].rx_sw_if_index \in Interface
  BY <1>1 DEF MapRecord
<1> QED
  BY <1>1, <1>2, InterfaceAssumption DEF MapRecord, RxInterface

-----------------------------------------------------------------------------
\* What becomes of one packet: Forward, said by what happens to the headers.

\* What Parse may make of a packet.
ParsedOK(x) ==
  /\ x.pkt \in PacketType /\ Len(x.pkt.hdrs) >= 1
  /\ x.header_len \in Nat /\ (x.header_len # 0 => Len(x.pkt.hdrs) >= 2)

\* The TLVs a node finds are options.
LEMMA TlvsType ==
  ASSUME NEW x, ParsedOK(x)
  PROVE  /\ x.pkt.hdrs \in Seq(HeaderType) /\ x.pkt.hdrs # << >>
         /\ Head(x.pkt.hdrs) \in HeaderType
         /\ Tlvs(x.pkt, x.header_len) \in Seq(Option)
<1>1. x.pkt.hdrs \in Seq(HeaderType) /\ x.pkt.hdrs # << >>
  BY PacketParts DEF ParsedOK
<1>2. Head(x.pkt.hdrs) \in HeaderType
  BY <1>1, TakeOff
<1>3. Head(x.pkt.hdrs).tlvs \in Seq(Option)
  BY <1>2, HeaderParts
<1> QED
  BY <1>1, <1>2, <1>3, TlvBytesEmpty DEF Tlvs

\* The packet with what the map says of its interfaces.
Marked(x, set_rx) ==
  [x.pkt EXCEPT !.tx = Maps[x.key].sw_if_index,
                !.adj = Maps[x.key].adj_index,
                !.rx = IF set_rx THEN Maps[x.key].nsh_sw_if ELSE @]

\* The receiving interface changes nothing else.
LEMMA MarkedEffect ==
  ASSUME NEW x, ParsedOK(x), x.key \in DOMAIN Maps, NEW set_rx \in BOOLEAN,
         NEW p, p = Marked(x, set_rx)
  PROVE  /\ p \in PacketType /\ p.hdrs = x.pkt.hdrs /\ p.class = x.pkt.class
         /\ p.tx = Maps[x.key].sw_if_index /\ p.adj = Maps[x.key].adj_index
<1>1. /\ Maps[x.key].sw_if_index \in Interface /\ Maps[x.key].adj_index \in AdjIndex
      /\ Maps[x.key].nsh_sw_if \in Interface
  BY MapParts
<1> QED
  BY <1>1 DEF ParsedOK, Marked, PacketType

\* What a fate is in any case: a type for each of its members.
Nexts == MapNextNodes \cup {"error-drop", "ioam-export", "ip4-arp", "ip6-discover-neighbor"}

FateOK(r) ==
  /\ r.pkt \in PacketType /\ Len(r.pkt.hdrs) >= 1
  /\ r.next \in Nexts
  /\ r.error \in {"none", "unset", "NO_MAPPING", "NO_ENTRY", "NO_PROXY",
                   "INVALID_OPTIONS", "INVALID_TTL", "MTU_EXCEEDED"}
  /\ EntriesOK(r.entries)
  /\ r.fault \in {"none", "overrun", "null_map", "null_header", "no_adjacency", "no_next"}

\* md2 packets are looked at more closely.
IsMd2(x) == Head(x.pkt.hdrs).md_type = 2

TlvsOf(x) == Tlvs(x.pkt, x.header_len)

NextOf(x) == Maps[x.key].next_node

\* The five ways of a pop: without TLVs, with TLVs that are not understood,
\* without a map for the interface, on to iOAM export, and on to the next node.
Popped(x, rx_key, cfg, r) ==
  \/ /\ ~IsMd2(x)
     /\ r.pkt.hdrs = Advanced(x.pkt.hdrs, x.header_len)
     /\ r.next = NextOf(x) /\ r.error = "none" /\ r.fault = "none"
  \/ /\ IsMd2(x) /\ Understood(TlvsOf(x), cfg.profile) # TlvsOf(x)
     /\ r.pkt.hdrs = x.pkt.hdrs
     /\ r.next = "error-drop" /\ r.error = "INVALID_OPTIONS" /\ r.fault = "none"
  \/ /\ IsMd2(x) /\ Understood(TlvsOf(x), cfg.profile) = TlvsOf(x)
     /\ RxInterface(rx_key) = NoInterface
     /\ r.pkt.hdrs = x.pkt.hdrs /\ r.next \in {NextOf(x), "ioam-export"}
     /\ r.error = "none" /\ r.fault = "null_map"
  \/ /\ IsMd2(x) /\ Understood(TlvsOf(x), cfg.profile) = TlvsOf(x)
     /\ TlvsOf(x) # << >> /\ cfg.export /\ RxInterface(rx_key) # NoInterface
     /\ r.pkt.hdrs = x.pkt.hdrs
     /\ r.next = "ioam-export" /\ r.error = "none" /\ r.fault = "none"
  \/ /\ IsMd2(x) /\ Understood(TlvsOf(x), cfg.profile) = TlvsOf(x)
     /\ (TlvsOf(x) = << >> \/ ~cfg.export) /\ RxInterface(rx_key) # NoInterface
     /\ r.pkt.hdrs = Advanced(x.pkt.hdrs, x.header_len)
     /\ r.next = NextOf(x) /\ r.error = "none" /\ r.fault = "none"

\* What a pop makes of a packet.
LEMMA PopEffect ==
  ASSUME NEW x, ParsedOK(x), x.key \in DOMAIN Maps, NEW set_rx \in BOOLEAN,
         NEW rx_key, RxInterface(rx_key) \in Interface \cup {NoInterface},
         NEW ents, NEW cfg \in ConfigType,
         NEW r, r = Pop(Marked(x, set_rx), Maps[x.key], x.header_len, RxInterface(rx_key), ents, cfg)
  PROVE  /\ r.pkt \in PacketType /\ r.pkt.class = x.pkt.class
         /\ r.pkt.tx = Maps[x.key].sw_if_index /\ r.pkt.adj = Maps[x.key].adj_index
         /\ r.entries = ents
         /\ Popped(x, rx_key, cfg, r)
<1> DEFINE p == Marked(x, set_rx)
           m == Maps[x.key]
           n == x.header_len
           rx == RxInterface(rx_key)
           tlvs == TlvsOf(x)
           next == NextOf(x)
           d == nsh_md2_decap(Tlvs(p, n), n, m.next_node, cfg)
           q == [p EXCEPT !.rx = rx]
<1>1. /\ p \in PacketType /\ p.hdrs = x.pkt.hdrs /\ p.class = x.pkt.class
      /\ p.tx = m.sw_if_index /\ p.adj = Maps[x.key].adj_index
  BY MarkedEffect
<1>2. p.hdrs # << >> /\ Tlvs(p, n) = tlvs /\ next = m.next_node
  BY <1>1, TlvsType DEF Tlvs, TlvsOf, NextOf
<1>3. rx # NoInterface => /\ q \in PacketType /\ q.hdrs = p.hdrs /\ q.class = p.class
                          /\ q.tx = p.tx /\ q.adj = p.adj
  <2> HIDE DEF p, rx
  <2> QED
    BY <1>1 DEF PacketType, rx
<1>4. r = IF Head(p.hdrs).md_type # 2
            THEN Fate(Advance(p, n), m.next_node, "none", ents, "none")
          ELSE IF d.next = "error-drop"
            THEN Fate(p, "error-drop", "INVALID_OPTIONS", ents, "none")
          ELSE IF rx = NoInterface
            THEN Fate(p, d.next, "none", ents, "null_map")
            ELSE Fate(Advance(q, d.header_len), d.next, "none", ents, "none")
  BY DEF Pop
<1>5. IsMd2(x) <=> Head(p.hdrs).md_type = 2
  BY <1>1 DEF IsMd2
<1>6. next # "error-drop"
  BY MapParts DEF MapNextNodes, NextOf
<1>7. \/ /\ Understood(tlvs, cfg.profile) # tlvs
         /\ d.next = "error-drop"
      \/ /\ Understood(tlvs, cfg.profile) = tlvs /\ tlvs # << >> /\ cfg.export
         /\ d.next = "ioam-export" /\ d.header_len = 0
      \/ /\ Understood(tlvs, cfg.profile) = tlvs /\ (tlvs = << >> \/ ~cfg.export)
         /\ d.next = next /\ d.header_len = n
  BY <1>2 DEF nsh_md2_decap
<1> HIDE DEF p, q, d, tlvs, rx, m, next
<1>8. CASE ~IsMd2(x)
  <2>1. r = Fate(Advance(p, n), next, "none", ents, "none")
    BY <1>2, <1>4, <1>5, <1>8
  <2>2. /\ r.pkt = Advance(p, n) /\ r.next = next /\ r.error = "none"
        /\ r.entries = ents /\ r.fault = "none"
    BY <2>1 DEF Fate
  <2>3. /\ r.pkt \in PacketType /\ r.pkt.hdrs = Advanced(p.hdrs, n)
        /\ r.pkt.class = p.class /\ r.pkt.tx = p.tx /\ r.pkt.adj = p.adj
    BY <1>1, <1>2, <2>2, AdvanceEffect
  <2>4. Popped(x, rx_key, cfg, r)
    BY <1>1, <1>8, <2>2, <2>3 DEF Popped, next
  <2> QED
    BY <1>1, <2>2, <2>3, <2>4 DEF m
<1>9. CASE IsMd2(x) /\ d.next = "error-drop"
  <2>1. r = Fate(p, "error-drop", "INVALID_OPTIONS", ents, "none")
    BY <1>4, <1>5, <1>9
  <2>2. Understood(tlvs, cfg.profile) # tlvs
    BY <1>6, <1>7, <1>9
  <2>3. /\ r.pkt = p /\ r.next = "error-drop" /\ r.error = "INVALID_OPTIONS"
        /\ r.entries = ents /\ r.fault = "none"
    BY <2>1 DEF Fate
  <2>4. Popped(x, rx_key, cfg, r)
    BY <1>1, <1>9, <2>2, <2>3 DEF Popped, tlvs
  <2> QED
    BY <1>1, <2>3, <2>4 DEF m
<1>10. CASE IsMd2(x) /\ d.next # "error-drop" /\ rx = NoInterface
  <2>1. r = Fate(p, d.next, "none", ents, "null_map")
    BY <1>4, <1>5, <1>10
  <2>2. d.next \in {next, "ioam-export"} /\ Understood(tlvs, cfg.profile) = tlvs
    BY <1>7, <1>10
  <2>3. /\ r.pkt = p /\ r.next = d.next /\ r.error = "none"
        /\ r.entries = ents /\ r.fault = "null_map"
    BY <2>1 DEF Fate
  <2>4. Popped(x, rx_key, cfg, r)
    BY <1>1, <1>10, <2>2, <2>3 DEF Popped, next, rx, tlvs
  <2> QED
    BY <1>1, <2>3, <2>4 DEF m
<1>11. CASE IsMd2(x) /\ d.next # "error-drop" /\ rx # NoInterface
  <2>1. r = Fate(Advance(q, d.header_len), d.next, "none", ents, "none")
    BY <1>4, <1>5, <1>11
  <2>2. /\ r.pkt = Advance(q, d.header_len) /\ r.next = d.next /\ r.error = "none"
        /\ r.entries = ents /\ r.fault = "none"
    BY <2>1 DEF Fate
  <2>3. /\ r.pkt \in PacketType /\ r.pkt.hdrs = Advanced(p.hdrs, d.header_len)
        /\ r.pkt.class = p.class /\ r.pkt.tx = p.tx /\ r.pkt.adj = p.adj
    BY <1>2, <1>3, <1>11, <2>2, AdvanceEffect
  <2>4. CASE tlvs # << >> /\ cfg.export
    <3>1. d.next = "ioam-export" /\ d.header_len = 0
      BY <1>7, <1>11, <2>4
    <3>2. r.pkt.hdrs = x.pkt.hdrs
      BY <1>1, <2>3, <3>1 DEF Advanced
    <3>3. Popped(x, rx_key, cfg, r)
      BY <1>7, <1>11, <2>2, <2>4, <3>1, <3>2 DEF Popped, tlvs, rx
    <3> QED
      BY <1>1, <2>2, <2>3, <3>3 DEF m
  <2>5. CASE tlvs = << >> \/ ~cfg.export
    <3>1. d.next = next /\ d.header_len = n
      BY <1>7, <1>11, <2>5
    <3>2. r.pkt.hdrs = Advanced(x.pkt.hdrs, n)
      BY <1>1, <2>3, <3>1
    <3>3. Popped(x, rx_key, cfg, r)
      BY <1>7, <1>11, <2>2, <2>5, <3>1, <3>2 DEF Popped, tlvs, next, rx
    <3> QED
      BY <1>1, <2>2, <2>3, <3>3 DEF m
  <2> QED
    BY <2>4, <2>5
<1> QED
  BY <1>8, <1>9, <1>10, <1>11

\* The rewrite of an entry with other TLVs.
Refill(ents, e, t) == [ents EXCEPT ![e] = Rewrite(t, BASE_HEADER_LEN + TlvBytes(t))]

\* An entry that is filled again with the TLVs of a packet is an entry.
LEMMA RefillEffect ==
  ASSUME NEW ents, EntriesOK(ents), NEW e \in DOMAIN ents, NEW t \in Seq(Option),
         NEW new, new = Refill(ents, e, t)
  PROVE  /\ EntriesOK(new) /\ DOMAIN new = DOMAIN ents
         /\ new[e] = Rewrite(t, BASE_HEADER_LEN + TlvBytes(t))
         /\ \A f \in DOMAIN ents : f # e => new[f] = ents[f]
<1> DEFINE bytes == BASE_HEADER_LEN + TlvBytes(t)
           w == Rewrite(t, bytes)
<1>1. bytes \in Nat
  BY TlvBytesType DEF BASE_HEADER_LEN
<1> HIDE DEF bytes
<1>2. w \in RewriteType
  BY <1>1, RewriteTyped
<1>3. new = [ents EXCEPT ![e] = w]
  BY DEF Refill, bytes
<1> HIDE DEF w
<1>4. /\ EntriesOK(new) /\ DOMAIN new = DOMAIN ents
      /\ new[e] = w /\ \A f \in DOMAIN ents : f # e => new[f] = ents[f]
  BY <1>2, <1>3 DEF EntriesOK
<1> QED
  BY <1>4 DEF w, bytes

MappedOf(x) == Maps[x.key].mapped

\* The TLVs of the packet go to the rewrite, the rewrite to the packet.
SwapEntries(x, ents, cfg) ==
  IF IsMd2(x) THEN Refill(ents, MappedOf(x), Understood(TlvsOf(x), cfg.profile)) ELSE ents

\* The old header makes room for the new one.
Swapped(x, ents, cfg, r) ==
  /\ r.entries = SwapEntries(x, ents, cfg)
  /\ r.pkt.hdrs = << NshHeader(r.entries, MappedOf(x)) >>
                    \o Advanced(x.pkt.hdrs, x.header_len)
  /\ r.next = NextOf(x) /\ r.error = "none"
  /\ r.fault = IF IsMd2(x) /\ Overrun(MappedOf(x), Understood(TlvsOf(x), cfg.profile))
                 THEN "overrun" ELSE "none"

\* What a swap makes of a packet and of its entry.
LEMMA SwapEffect ==
  ASSUME NEW x, ParsedOK(x), x.key \in DOMAIN Maps, NEW set_rx \in BOOLEAN,
         NEW ents, EntriesOK(ents), MappedOf(x) \in DOMAIN ents, NEW cfg \in ConfigType,
         NEW r, r = Swap(Marked(x, set_rx), Maps[x.key], x.header_len, ents, cfg)
  PROVE  /\ r.pkt \in PacketType /\ r.pkt.class = x.pkt.class
         /\ r.pkt.tx = Maps[x.key].sw_if_index /\ r.pkt.adj = Maps[x.key].adj_index
         /\ EntriesOK(r.entries) /\ DOMAIN r.entries = DOMAIN ents
         /\ Swapped(x, ents, cfg, r)
<1> DEFINE p == Marked(x, set_rx)
           e == MappedOf(x)
           n == x.header_len
           tlvs == TlvsOf(x)
           kept == Understood(tlvs, cfg.profile)
           new == SwapEntries(x, ents, cfg)
           h == NshHeader(new, e)
           q == Advance(p, n)
           flt == IF IsMd2(x) /\ Overrun(e, kept) THEN "overrun" ELSE "none"
<1>1. /\ p \in PacketType /\ p.hdrs = x.pkt.hdrs /\ p.class = x.pkt.class
      /\ p.tx = Maps[x.key].sw_if_index /\ p.adj = Maps[x.key].adj_index
  BY MarkedEffect
<1>2. p.hdrs # << >> /\ Tlvs(p, n) = tlvs /\ tlvs \in Seq(Option)
  BY <1>1, TlvsType DEF Tlvs, TlvsOf
<1>3. Head(p.hdrs).md_type = 2 <=> IsMd2(x)
  BY <1>1 DEF IsMd2
<1>4. kept \in Seq(Option)
  BY <1>2, UnderstoodLemma DEF ConfigType
<1>5. EntriesOK(new) /\ DOMAIN new = DOMAIN ents
  <2> HIDE DEF kept, e
  <2>1. e \in DOMAIN ents
    BY DEF e
  <2>2. EntriesOK(Refill(ents, e, kept)) /\ DOMAIN Refill(ents, e, kept) = DOMAIN ents
    BY <1>4, <2>1, RefillEffect
  <2> QED
    BY <2>2 DEF SwapEntries, e, kept
<1>6. h \in HeaderType
  BY <1>5, NshHeaderType
<1>7. new = IF IsMd2(x) THEN nsh_md2_swap(ents, e, Tlvs(p, n), cfg) ELSE ents
  BY <1>2 DEF nsh_md2_swap, Refill, SwapEntries
<1>8. r = Fate(PushHeader(q, h), NextOf(x), "none", new, flt)
  BY <1>2, <1>3, <1>7 DEF Swap, NextOf, MappedOf
<1>9. /\ q \in PacketType /\ q.hdrs = Advanced(p.hdrs, n)
      /\ q.class = p.class /\ q.tx = p.tx /\ q.adj = p.adj
  <2> HIDE DEF p, n
  <2> QED
    BY <1>1, <1>2, AdvanceEffect
<1> HIDE DEF p, q, h, new, flt
<1>10. /\ r.pkt = PushHeader(q, h) /\ r.next = NextOf(x) /\ r.error = "none"
       /\ r.entries = new /\ r.fault = flt
  BY <1>8 DEF Fate
<1>11. /\ r.pkt \in PacketType /\ r.pkt.hdrs = << h >> \o q.hdrs
       /\ r.pkt.class = q.class /\ r.pkt.tx = q.tx /\ r.pkt.adj = q.adj
  BY <1>6, <1>9, <1>10, PushHeaderEffect
<1>12. r.pkt.hdrs = << NshHeader(r.entries, e) >> \o Advanced(x.pkt.hdrs, n)
  BY <1>1, <1>9, <1>10, <1>11 DEF h
<1>13. Swapped(x, ents, cfg, r)
  BY <1>10, <1>12 DEF Swapped, new, flt
<1> QED
  BY <1>1, <1>5, <1>9, <1>10, <1>11, <1>13

\* The handlers run on the header that was pushed, and resize the rewrite.
PushEntries(x, ents, cfg) ==
  IF EntryArgs[MappedOf(x)].md_type = 2
    THEN Refill(ents, MappedOf(x), FirstOf(ents[MappedOf(x)].tlvs, Handled(MappedOf(x), cfg)))
    ELSE ents

\* The first TLVs of a sequence are TLVs and take no more bytes than all.
LEMMA FirstOfType ==
  ASSUME NEW t \in Seq(Option), NEW n \in Nat
  PROVE  /\ FirstOf(t, n) \in Seq(Option)
         /\ Len(FirstOf(t, n)) = IF n < Len(t) THEN n ELSE Len(t)
         /\ TlvBytes(FirstOf(t, n)) <= TlvBytes(t)
<1> DEFINE m == IF n < Len(t) THEN n ELSE Len(t)
<1>1. m \in 0 .. Len(t)
  BY LenProperties
<1>2. FirstOf(t, n) = SubSeq(t, 1, m)
  BY DEF FirstOf
<1> HIDE DEF m
<1>3. /\ FirstOf(t, n) \in Seq(Option) /\ Len(FirstOf(t, n)) = m
      /\ TlvBytes(FirstOf(t, n)) <= TlvBytes(t)
  BY <1>1, <1>2, TlvBytesFirst
<1> QED
  BY <1>3 DEF m

\* How many TLVs of an entry are understood is a number.
LEMMA HandledType ==
  ASSUME NEW e \in DOMAIN EntryArgs, NEW cfg \in ConfigType
  PROVE  Handled(e, cfg) \in Nat
<1>1. Understood(EntryArgs[e].tlvs, cfg.profile) \in Seq(Option)
  BY EntryArgsParts, UnderstoodLemma DEF ConfigType
<1> QED
  BY <1>1, LenProperties DEF Handled

\* A header is put in front.
Pushed(x, ents, cfg, r) ==
  /\ r.entries = PushEntries(x, ents, cfg)
  /\ r.pkt.hdrs = << NshHeader(ents, MappedOf(x)) >> \o x.pkt.hdrs
  /\ r.next = NextOf(x) /\ r.error = "none"
  /\ r.fault = IF /\ EntryArgs[MappedOf(x)].md_type = 2
                  /\ Handled(MappedOf(x), cfg) > Len(ents[MappedOf(x)].tlvs)
                 THEN "overrun" ELSE "none"

\* What a push makes of a packet, and of no entry.
LEMMA PushEffect ==
  ASSUME NEW x, ParsedOK(x), x.key \in DOMAIN Maps, NEW set_rx \in BOOLEAN,
         NEW ents, EntriesOK(ents), MappedOf(x) \in DOMAIN ents, NEW cfg \in ConfigType,
         NEW r, r = Push(Marked(x, set_rx), Maps[x.key], ents, cfg)
  PROVE  /\ r.pkt \in PacketType /\ r.pkt.class = x.pkt.class
         /\ r.pkt.tx = Maps[x.key].sw_if_index /\ r.pkt.adj = Maps[x.key].adj_index
         /\ EntriesOK(r.entries) /\ DOMAIN r.entries = DOMAIN ents
         /\ Pushed(x, ents, cfg, r)
<1> DEFINE p == Marked(x, set_rx)
           e == MappedOf(x)
           new == PushEntries(x, ents, cfg)
           h == NshHeader(ents, e)
           flt == IF EntryArgs[e].md_type = 2 /\ Handled(e, cfg) > Len(ents[e].tlvs)
                    THEN "overrun" ELSE "none"
<1>1. /\ p \in PacketType /\ p.hdrs = x.pkt.hdrs /\ p.class = x.pkt.class
      /\ p.tx = Maps[x.key].sw_if_index /\ p.adj = Maps[x.key].adj_index
  BY MarkedEffect
<1>2. e \in DOMAIN EntryArgs /\ ents[e] \in RewriteType
  BY DEF EntriesOK
<1>3. ents[e].tlvs \in Seq(Option) /\ Handled(e, cfg) \in Nat
  BY <1>2, RewriteParts, HandledType
<1>4. h \in HeaderType /\ h.tlvs = ents[e].tlvs
  BY NshHeaderType
<1>5. EntriesOK(new) /\ DOMAIN new = DOMAIN ents
  <2> DEFINE t == FirstOf(ents[e].tlvs, Handled(e, cfg))
  <2>1. t \in Seq(Option)
    BY <1>3, FirstOfType
  <2> HIDE DEF t, e
  <2>2. e \in DOMAIN ents
    BY DEF e
  <2>3. EntriesOK(Refill(ents, e, t)) /\ DOMAIN Refill(ents, e, t) = DOMAIN ents
    BY <2>1, <2>2, RefillEffect
  <2> QED
    BY <2>3 DEF PushEntries, e, t
<1>6. new = IF EntryArgs[e].md_type = 2 THEN nsh_md2_encap(ents, e, cfg) ELSE ents
  BY DEF nsh_md2_encap, Refill, PushEntries
<1>7. r = Fate(PushHeader(p, h), NextOf(x), "none", new, flt)
  BY <1>4, <1>6 DEF Push, NextOf, MappedOf
<1> HIDE DEF p, h, new, flt
<1>8. /\ r.pkt = PushHeader(p, h) /\ r.next = NextOf(x) /\ r.error = "none"
      /\ r.entries = new /\ r.fault = flt
  BY <1>7 DEF Fate
<1>9. /\ r.pkt \in PacketType /\ r.pkt.hdrs = << h >> \o p.hdrs
      /\ r.pkt.class = p.class /\ r.pkt.tx = p.tx /\ r.pkt.adj = p.adj
  <2>1. p \in PacketType /\ h \in HeaderType /\ r.pkt = PushHeader(p, h)
    BY <1>1, <1>4, <1>8
  <2>2. /\ r.pkt \in PacketType /\ r.pkt.hdrs = << h >> \o p.hdrs
        /\ r.pkt.class = p.class /\ r.pkt.tx = p.tx /\ r.pkt.adj = p.adj
    BY <2>1, PushHeaderEffect
  <2> QED
    BY <2>2
<1>10. Pushed(x, ents, cfg, r)
  BY <1>1, <1>8, <1>9 DEF Pushed, new, flt, h
<1> QED
  BY <1>1, <1>5, <1>8, <1>9, <1>10

-----------------------------------------------------------------------------
\* A map applied to a packet

\* What the second packet of a round may take its receiving interface from.
KeyOK(rx_key) == RxInterface(rx_key) \in Interface \cup {NoInterface}

Unmapped(x, r) ==
  /\ r.pkt = x.pkt /\ r.next = "error-drop" /\ r.error = "NO_MAPPING" /\ r.fault = "none"

Unchanged(x, r) ==
  /\ r.pkt.hdrs = x.pkt.hdrs /\ r.next = NextOf(x) /\ r.error = "NO_ENTRY"
  /\ r.fault = "none"

\* All Forward may do to a packet whose path has a map.
Mapped(x, rx_key, ents, cfg, r) ==
  \/ /\ Maps[x.key].nsh_action = "pop"
     /\ r.entries = ents /\ Popped(x, rx_key, cfg, r)
  \/ /\ Maps[x.key].nsh_action # "pop" /\ MappedOf(x) \notin DOMAIN ents
     /\ r.entries = ents /\ Unchanged(x, r)
  \/ /\ Maps[x.key].nsh_action = "swap" /\ MappedOf(x) \in DOMAIN ents
     /\ Swapped(x, ents, cfg, r)
  \/ /\ Maps[x.key].nsh_action = "push" /\ MappedOf(x) \in DOMAIN ents
     /\ Pushed(x, ents, cfg, r)

\* The receiving interface of a key is an interface or none.
LEMMA RxOK ==
  ASSUME NEW k
  PROVE  KeyOK(k)
BY MapParts DEF KeyOK, RxInterface

\* What becomes of a packet without a map.
LEMMA ForwardUnmapped ==
  ASSUME NEW x, x.key \notin DOMAIN Maps, NEW set_rx, NEW rx_key, NEW ents, NEW cfg,
         NEW r, r = Forward(x, set_rx, rx_key, ents, cfg)
  PROVE  r.entries = ents /\ Unmapped(x, r)
<1>1. r = Fate(x.pkt, "error-drop", "NO_MAPPING", ents, "none")
  BY DEF Forward
<1> QED
  BY <1>1 DEF Fate, Unmapped

\* What becomes of a packet with a map, by the action of the map.
LEMMA ForwardMapped ==
  ASSUME NEW x, ParsedOK(x), x.key \in DOMAIN Maps, NEW set_rx \in BOOLEAN, NEW rx_key,
         NEW ents, EntriesOK(ents), NEW cfg \in ConfigType,
         NEW r, r = Forward(x, set_rx, rx_key, ents, cfg)
  PROVE  /\ r.pkt \in PacketType /\ r.pkt.class = x.pkt.class
         /\ r.pkt.tx = Maps[x.key].sw_if_index /\ r.pkt.adj = Maps[x.key].adj_index
         /\ EntriesOK(r.entries) /\ DOMAIN r.entries = DOMAIN ents
         /\ Mapped(x, rx_key, ents, cfg, r)
<1> DEFINE p == Marked(x, set_rx)
           m == Maps[x.key]
           rx == RxInterface(rx_key)
<1>1. p = [x.pkt EXCEPT !.tx = m.sw_if_index, !.adj = Maps[x.key].adj_index,
                        !.rx = IF set_rx THEN m.nsh_sw_if ELSE @]
  BY DEF Marked
<1>2. r = IF m.nsh_action = "pop" THEN Pop(p, m, x.header_len, rx, ents, cfg)
          ELSE IF m.mapped \notin DOMAIN ents THEN Fate(p, m.next_node, "NO_ENTRY", ents, "none")
          ELSE IF m.nsh_action = "swap" THEN Swap(p, m, x.header_len, ents, cfg)
          ELSE Push(p, m, ents, cfg)
  BY <1>1 DEF Forward
<1>3. m.nsh_action \in {"swap", "push", "pop"} /\ MappedOf(x) = m.mapped
  BY MapParts DEF MappedOf
<1>4. CASE m.nsh_action = "pop"
  <2>1. r = Pop(p, m, x.header_len, rx, ents, cfg)
    BY <1>2, <1>4
  <2>2. RxInterface(rx_key) \in Interface \cup {NoInterface}
    BY RxOK DEF KeyOK
  <2>3. /\ r.pkt \in PacketType /\ r.pkt.class = x.pkt.class
        /\ r.pkt.tx = m.sw_if_index /\ r.pkt.adj = Maps[x.key].adj_index
        /\ r.entries = ents /\ Popped(x, rx_key, cfg, r)
    BY <2>1, <2>2, PopEffect
  <2> QED
    BY <1>4, <2>3 DEF Mapped
<1>5. CASE m.nsh_action # "pop" /\ m.mapped \notin DOMAIN ents
  <2>1. r = Fate(p, m.next_node, "NO_ENTRY", ents, "none")
    BY <1>2, <1>5
  <2>2. /\ r.pkt = p /\ r.next = m.next_node /\ r.error = "NO_ENTRY"
        /\ r.entries = ents /\ r.fault = "none"
    BY <2>1 DEF Fate
  <2>3. /\ p \in PacketType /\ p.hdrs = x.pkt.hdrs /\ p.class = x.pkt.class
        /\ p.tx = m.sw_if_index /\ p.adj = Maps[x.key].adj_index
    BY MarkedEffect
  <2>4. Mapped(x, rx_key, ents, cfg, r)
    BY <1>3, <1>5, <2>2, <2>3 DEF Mapped, Unchanged, NextOf
  <2> QED
    BY <2>2, <2>3, <2>4
<1>6. CASE m.nsh_action = "swap" /\ m.mapped \in DOMAIN ents
  <2>1. r = Swap(p, m, x.header_len, ents, cfg)
    BY <1>2, <1>6
  <2>2. MappedOf(x) \in DOMAIN ents
    BY <1>3, <1>6
  <2>3. /\ r.pkt \in PacketType /\ r.pkt.class = x.pkt.class
        /\ r.pkt.tx = m.sw_if_index /\ r.pkt.adj = Maps[x.key].adj_index
        /\ EntriesOK(r.entries) /\ DOMAIN r.entries = DOMAIN ents
        /\ Swapped(x, ents, cfg, r)
    BY <2>1, <2>2, SwapEffect
  <2> QED
    BY <1>6, <2>2, <2>3 DEF Mapped
<1>7. CASE m.nsh_action = "push" /\ m.mapped \in DOMAIN ents
  <2>1. r = Push(p, m, ents, cfg)
    BY <1>2, <1>7
  <2>2. MappedOf(x) \in DOMAIN ents
    BY <1>3, <1>7
  <2>3. /\ r.pkt \in PacketType /\ r.pkt.class = x.pkt.class
        /\ r.pkt.tx = m.sw_if_index /\ r.pkt.adj = Maps[x.key].adj_index
        /\ EntriesOK(r.entries) /\ DOMAIN r.entries = DOMAIN ents
        /\ Pushed(x, ents, cfg, r)
    BY <2>1, <2>2, PushEffect
  <2> QED
    BY <1>7, <2>2, <2>3 DEF Mapped
<1> QED
  BY <1>3, <1>4, <1>5, <1>6, <1>7

\* Whatever is done with the headers, one is left.
LEMMA MappedKeepsOne ==
  ASSUME NEW x, ParsedOK(x), x.key \in DOMAIN Maps, NEW rx_key,
         NEW ents, EntriesOK(ents), NEW cfg \in ConfigType,
         NEW r, EntriesOK(r.entries), DOMAIN r.entries = DOMAIN ents,
         r.pkt \in PacketType, Mapped(x, rx_key, ents, cfg, r)
  PROVE  FateOK(r)
<1> DEFINE old == x.pkt.hdrs
           n == x.header_len
           rest == Advanced(old, n)
<1>1. old \in Seq(HeaderType) /\ old # << >> /\ Len(old) >= 1
  BY TlvsType DEF ParsedOK
<1>2. rest \in Seq(HeaderType) /\ Len(rest) \in Nat /\ Len(rest) >= 1
  <2>1. CASE n = 0
    BY <1>1, <2>1 DEF Advanced
  <2>2. CASE n # 0
    <3>1. Len(old) >= 2
      BY <2>2 DEF ParsedOK
    <3>2. rest = Tail(old)
      BY <2>2 DEF Advanced
    <3>3. Tail(old) \in Seq(HeaderType) /\ Len(old) \in Nat /\ Len(Tail(old)) = Len(old) - 1
      BY <1>1, TakeOff
    <3> QED
      BY <3>1, <3>2, <3>3
  <2> QED
    BY <2>1, <2>2
<1>3. NextOf(x) \in Nexts
  BY MapParts DEF NextOf, Nexts
<1> HIDE DEF old, n, rest
<1>4. ASSUME NEW f, EntriesOK(f), MappedOf(x) \in DOMAIN f, NEW behind \in Seq(HeaderType)
      PROVE  Len(<< NshHeader(f, MappedOf(x)) >> \o behind) >= 1
  <2> DEFINE h == NshHeader(f, MappedOf(x))
  <2>1. h \in HeaderType
    BY <1>4, NshHeaderType
  <2> HIDE DEF h
  <2> DEFINE t == << h >> \o behind
  <2>2. Len(t) = Len(behind) + 1 /\ Len(behind) \in Nat
    BY <2>1, PutInFront, NotEmpty
  <2> QED
    BY <2>2 DEF h
<1>5. CASE Popped(x, rx_key, cfg, r)
  BY <1>1, <1>2, <1>3, <1>5 DEF Popped, FateOK, Nexts, old, n, rest
<1>6. CASE Unchanged(x, r)
  BY <1>1, <1>3, <1>6 DEF Unchanged, FateOK, old
<1>7. CASE Swapped(x, ents, cfg, r) /\ MappedOf(x) \in DOMAIN ents
  <2>1. Len(r.pkt.hdrs) >= 1
    BY <1>2, <1>4, <1>7 DEF Swapped, old, n, rest
  <2> QED
    BY <1>3, <1>7, <2>1 DEF Swapped, FateOK
<1>8. CASE Pushed(x, ents, cfg, r) /\ MappedOf(x) \in DOMAIN ents
  <2>1. Len(r.pkt.hdrs) >= 1
    BY <1>1, <1>4, <1>8 DEF Pushed, old
  <2> QED
    BY <1>3, <1>8, <2>1 DEF Pushed, FateOK
<1> QED
  BY <1>5, <1>6, <1>7, <1>8 DEF Mapped

-----------------------------------------------------------------------------
\* The other nodes

\* A packet a node may get.
Roomy(type, p) ==
  /\ p \in PacketType /\ Len(p.hdrs) >= 1
  /\ type \in {"nsh-input", "nsh-pop"} => Len(p.hdrs) >= 2

\* The Ethernet header nsh-classifier puts in front is a header.
LEMMA DummyEthType == DummyEth \in HeaderType
BY TlvBytesEmpty DEF DummyEth, HeaderType, ETH_HEADER_LEN

\* What a node makes of a packet before it looks up the map.
LEMMA ParseEffect ==
  ASSUME NEW type \in NodeTypes, NEW p, Roomy(type, p), NEW x, x = Parse(type, p)
  PROVE  /\ ParsedOK(x) /\ x.error \in {"none", "INVALID_TTL", "NO_PROXY"}
         /\ x.pkt = IF type = "nsh-aware-vnf-proxy" THEN PushHeader(p, DummyEth) ELSE p
         /\ x.pkt.class = p.class /\ x.pkt.tx = p.tx /\ x.pkt.adj = p.adj
         /\ type = "nsh-input" => /\ x.key = Head(p.hdrs).path
                                  /\ x.header_len = Head(p.hdrs).length
         /\ type = "nsh-pop" => /\ x.key = Head(p.hdrs).path
                                /\ x.header_len = Head(p.hdrs).length + 256 * (Head(p.hdrs).ttl % 4)
         /\ type \notin {"nsh-input", "nsh-pop"} => x.header_len = 0
         /\ type \notin {"nsh-input", "nsh-proxy"} => x.error = "none"
         /\ type = "nsh-classifier" => x.key = p.class
<1> DEFINE h == Head(p.hdrs)
<1>1. p \in PacketType /\ p.hdrs \in Seq(HeaderType) /\ p.hdrs # << >> /\ Len(p.hdrs) >= 1
  BY PacketParts DEF Roomy
<1>2. h \in HeaderType
  BY <1>1, TakeOff
<1>3. h.length \in Nat /\ h.ttl \in 0 .. 63
  BY <1>2, HeaderParts
<1> HIDE DEF h
<1>4. CASE type = "nsh-input"
  <2>1. x = Parsed(p, IF h.ttl = 1 THEN "INVALID_TTL" ELSE "none", h.path, h.length)
    BY <1>4 DEF Parse, ParseInput, h
  <2>2. /\ x.pkt = p /\ x.key = h.path /\ x.header_len = h.length
        /\ x.error \in {"none", "INVALID_TTL"}
    BY <2>1 DEF Parsed
  <2>3. Len(p.hdrs) >= 2
    BY <1>4 DEF Roomy
  <2> QED
    BY <1>1, <1>3, <1>4, <2>2, <2>3 DEF ParsedOK, h
<1>5. CASE type = "nsh-pop"
  <2>1. x = Parsed(p, "none", h.path, h.length + 256 * (h.ttl % 4))
    BY <1>5 DEF Parse, ParsePop, h
  <2>2. /\ x.pkt = p /\ x.key = h.path /\ x.header_len = h.length + 256 * (h.ttl % 4)
        /\ x.error = "none"
    BY <2>1 DEF Parsed
  <2>3. Len(p.hdrs) >= 2
    BY <1>5 DEF Roomy
  <2>4. h.length + 256 * (h.ttl % 4) \in Nat
    BY <1>3
  <2> QED
    BY <1>1, <1>5, <2>2, <2>3, <2>4 DEF ParsedOK, h
<1>6. CASE type = "nsh-proxy"
  <2>1. x.pkt = p /\ x.header_len = 0 /\ x.error \in {"none", "NO_PROXY"}
    BY <1>6 DEF Parse, ParseProxy, Parsed
  <2> QED
    BY <1>1, <1>6, <2>1 DEF ParsedOK
<1>7. CASE type = "nsh-aware-vnf-proxy"
  <2> DEFINE q == PushHeader(p, DummyEth)
  <2>1. x.pkt = q /\ x.header_len = 0 /\ x.error = "none"
    BY <1>7 DEF Parse, Parsed
  <2>2. /\ q \in PacketType /\ q.hdrs = << DummyEth >> \o p.hdrs
        /\ q.class = p.class /\ q.tx = p.tx /\ q.adj = p.adj
    BY <1>1, DummyEthType, PushHeaderEffect
  <2>3. Len(q.hdrs) >= 1
    <3> DEFINE t == << DummyEth >> \o p.hdrs
    <3>1. Len(t) = Len(p.hdrs) + 1 /\ Len(p.hdrs) \in Nat
      BY <1>1, DummyEthType, PutInFront, NotEmpty
    <3> QED
      BY <2>2, <3>1
  <2> HIDE DEF q
  <2>4. ParsedOK(x) /\ x.error = "none"
    BY <2>1, <2>2, <2>3 DEF ParsedOK
  <2> QED
    BY <1>7, <2>1, <2>2, <2>4 DEF q
<1>8. CASE type = "nsh-classifier"
  <2>1. x.pkt = p /\ x.key = p.class /\ x.header_len = 0 /\ x.error = "none"
    BY <1>8 DEF Parse, Parsed
  <2> QED
    BY <1>1, <1>8, <2>1 DEF ParsedOK
<1>9. CASE type \notin {"nsh-input", "nsh-pop", "nsh-proxy", "nsh-aware-vnf-proxy",
                        "nsh-classifier"}
  <2>1. x = Parsed(p, "none", NoPath, 0)
    BY <1>9 DEF Parse
  <2>2. x.pkt = p /\ x.header_len = 0 /\ x.error = "none"
    BY <2>1 DEF Parsed
  <2> QED
    BY <1>1, <1>9, <2>2 DEF ParsedOK
<1> QED
  BY <1>4, <1>5, <1>6, <1>7, <1>8, <1>9

\* nsh-pop advances a packet its map pops, and leaves the others as they are.
PopOnly(x, ents, r) ==
  \/ x.key \notin DOMAIN Maps /\ Unmapped(x, r)
  \/ /\ x.key \in DOMAIN Maps /\ Maps[x.key].nsh_action = "pop"
     /\ r.pkt = AdvanceBytes(x.pkt, x.header_len)
     /\ r.next = NextOf(x) /\ r.error = "none" /\ r.fault = "none"
  \/ /\ x.key \in DOMAIN Maps /\ Maps[x.key].nsh_action # "pop"
     /\ r.pkt = x.pkt /\ r.next = NextOf(x) /\ r.fault = "none"
     /\ r.error = IF MappedOf(x) \in DOMAIN ents THEN "none" ELSE "NO_ENTRY"

\* What nsh-pop makes of a packet.
LEMMA PopOnlyEffect ==
  ASSUME NEW x, ParsedOK(x), Len(x.pkt.hdrs) >= 2, NEW ents, EntriesOK(ents),
         NEW r, r = nsh_pop_inline(x, ents)
  PROVE  /\ FateOK(r) /\ r.entries = ents /\ PopOnly(x, ents, r)
         /\ r.pkt.class = x.pkt.class /\ r.pkt.tx = x.pkt.tx /\ r.pkt.adj = x.pkt.adj
<1>1. CASE x.key \notin DOMAIN Maps
  <2>1. r = Fate(x.pkt, "error-drop", "NO_MAPPING", ents, "none")
    BY <1>1 DEF nsh_pop_inline
  <2>2. Unmapped(x, r) /\ r.entries = ents
    BY <2>1 DEF Fate, Unmapped
  <2> QED
    BY <1>1, <2>2 DEF PopOnly, Unmapped, FateOK, ParsedOK, Nexts
<1>2. CASE x.key \in DOMAIN Maps /\ Maps[x.key].nsh_action = "pop"
  <2> DEFINE q == AdvanceBytes(x.pkt, x.header_len)
  <2>1. r = Fate(q, NextOf(x), "none", ents, "none")
    BY <1>2 DEF nsh_pop_inline, NextOf
  <2>2. /\ q \in PacketType /\ Len(q.hdrs) = Len(x.pkt.hdrs) - 1
        /\ q.class = x.pkt.class /\ q.tx = x.pkt.tx /\ q.adj = x.pkt.adj
    <3>1. x.pkt \in PacketType /\ x.header_len \in Nat
      BY DEF ParsedOK
    <3> QED
      BY <3>1, AdvanceBytesEffect
  <2>3. Len(q.hdrs) >= 1
    BY <2>2, PacketParts DEF ParsedOK
  <2>4. NextOf(x) \in Nexts
    BY <1>2, MapParts DEF NextOf, Nexts
  <2> HIDE DEF q
  <2>5. /\ r.pkt = q /\ r.next = NextOf(x) /\ r.error = "none" /\ r.entries = ents
        /\ r.fault = "none"
    BY <2>1 DEF Fate
  <2>6. FateOK(r)
    BY <2>2, <2>3, <2>4, <2>5 DEF FateOK
  <2> QED
    BY <1>2, <2>2, <2>5, <2>6 DEF PopOnly, q
<1>3. CASE x.key \in DOMAIN Maps /\ Maps[x.key].nsh_action # "pop"
  <2>1. r = Fate(x.pkt, NextOf(x), IF MappedOf(x) \in DOMAIN ents THEN "none" ELSE "NO_ENTRY",
                 ents, "none")
    BY <1>3 DEF nsh_pop_inline, NextOf, MappedOf
  <2>2. NextOf(x) \in Nexts
    BY <1>3, MapParts DEF NextOf, Nexts
  <2>3. /\ r.pkt = x.pkt /\ r.next = NextOf(x) /\ r.entries = ents /\ r.fault = "none"
        /\ r.error = IF MappedOf(x) \in DOMAIN ents THEN "none" ELSE "NO_ENTRY"
    BY <2>1 DEF Fate
  <2> QED
    BY <1>3, <2>2, <2>3 DEF PopOnly, FateOK, ParsedOK
<1> QED
  BY <1>1, <1>2, <1>3

\* The nodes of nsh_output.c know nothing but the adjacency of the packet.
Output(type, p, r) ==
  \/ /\ p.adj \notin DOMAIN Adjacency
     /\ r.pkt = p /\ r.next = "error-drop" /\ r.error = "none" /\ r.fault = "no_adjacency"
  \/ /\ p.adj \in DOMAIN Adjacency
     /\ r.pkt = p /\ r.next = "error-drop" /\ r.error = "MTU_EXCEEDED" /\ r.fault = "none"
  \/ /\ p.adj \in DOMAIN Adjacency
     /\ r.pkt.hdrs = << EthHeader(Adjacency[p.adj]) >> \o p.hdrs
     /\ r.pkt.tx = Adjacency[p.adj].sw_if_index
     /\ r.next = "interface-output" /\ r.error = "none"
     /\ r.fault = IF type = "nsh-midchain" THEN "no_next" ELSE "none"

\* What an adjacency says.
LEMMA AdjacencyParts ==
  ASSUME NEW ai \in DOMAIN Adjacency
  PROVE  /\ Adjacency[ai].sw_if_index \in Interface /\ Adjacency[ai].data_bytes \in Nat
         /\ EthHeader(Adjacency[ai]) \in HeaderType
         /\ EthHeader(Adjacency[ai]).nsh = FALSE
<1>1. Adjacency[ai].sw_if_index \in Interface /\ Adjacency[ai].data_bytes \in Nat
  BY InterfaceAssumption DEF AdjacencyRecord
<1> DEFINE b == Adjacency[ai].data_bytes
           d == DummyEth
           h == EthHeader(Adjacency[ai])
<1>2. h = [d EXCEPT !.md_type = 0, !.bytes = b]
  BY DEF EthHeader
<1>3. b \in Int /\ d \in HeaderType /\ d.nsh = FALSE
  <2>1. DummyEth.nsh = FALSE
    BY DEF DummyEth
  <2> QED
    BY <1>1, <2>1, DummyEthType
<1> HIDE DEF b, d, h
<1>4. h \in HeaderType /\ h.nsh = FALSE
  <2>1. h = [nsh |-> d.nsh, md_type |-> 0, ttl |-> d.ttl, path |-> d.path,
             bytes |-> b, length |-> d.length, tlvs |-> d.tlvs]
    <3>1. d = [nsh |-> d.nsh, md_type |-> d.md_type, ttl |-> d.ttl, path |-> d.path,
               bytes |-> d.bytes, length |-> d.length, tlvs |-> d.tlvs]
      BY <1>3, HeaderParts
    <3> QED
      BY <1>2, <3>1
  <2>2. /\ d.nsh \in BOOLEAN /\ d.ttl \in 0 .. 63 /\ d.path \in Path \cup {NoPath}
        /\ d.length \in Nat /\ d.tlvs \in Seq(Option)
    BY <1>3, HeaderParts
  <2>3. h \in HeaderType
    BY <1>3, <2>1, <2>2 DEF HeaderType
  <2> QED
    BY <1>3, <2>1, <2>3
<1> QED
  BY <1>1, <1>4 DEF h

\* What the nodes of an adjacency make of a packet.
LEMMA OutputEffect ==
  ASSUME NEW type, NEW p \in PacketType, Len(p.hdrs) >= 1, NEW ents, EntriesOK(ents),
         NEW r, r = nsh_output_inline(type, p, ents)
  PROVE  /\ FateOK(r) /\ r.entries = ents /\ Output(type, p, r)
         /\ r.pkt.class = p.class /\ r.pkt.adj = p.adj
<1>1. CASE p.adj \notin DOMAIN Adjacency
  <2>1. r = Fate(p, "error-drop", "none", ents, "no_adjacency")
    BY <1>1 DEF nsh_output_inline
  <2>2. /\ r.pkt = p /\ r.next = "error-drop" /\ r.error = "none" /\ r.entries = ents
        /\ r.fault = "no_adjacency"
    BY <2>1 DEF Fate
  <2> QED
    BY <1>1, <2>2 DEF Output, FateOK, Nexts
<1> DEFINE adj == Adjacency[p.adj]
<1>2. CASE p.adj \in DOMAIN Adjacency /\ LengthInChain(p) > adj.max_l3_packet_bytes
  <2>1. r = Fate(p, "error-drop", "MTU_EXCEEDED", ents, "none")
    BY <1>2 DEF nsh_output_inline
  <2>2. /\ r.pkt = p /\ r.next = "error-drop" /\ r.error = "MTU_EXCEEDED" /\ r.entries = ents
        /\ r.fault = "none"
    BY <2>1 DEF Fate
  <2> QED
    BY <1>2, <2>2 DEF Output, FateOK, Nexts
<1>3. CASE p.adj \in DOMAIN Adjacency /\ ~(LengthInChain(p) > adj.max_l3_packet_bytes)
  <2> DEFINE h == EthHeader(adj)
             q == [p EXCEPT !.tx = adj.sw_if_index]
             flt == IF type = "nsh-midchain" THEN "no_next" ELSE "none"
  <2>1. r = Fate(PushHeader(q, h), "interface-output", "none", ents, flt)
    BY <1>3 DEF nsh_output_inline, SendOut
  <2>2. h \in HeaderType /\ adj.sw_if_index \in Interface
    BY <1>3, AdjacencyParts
  <2> HIDE DEF h, adj
  <2>3. /\ q \in PacketType /\ q.hdrs = p.hdrs /\ q.class = p.class /\ q.adj = p.adj
        /\ q.tx = adj.sw_if_index
    BY <2>2 DEF PacketType
  <2> HIDE DEF q, flt
  <2>4. /\ r.pkt = PushHeader(q, h) /\ r.next = "interface-output" /\ r.error = "none"
        /\ r.entries = ents /\ r.fault = flt
    BY <2>1 DEF Fate
  <2>5. /\ r.pkt \in PacketType /\ r.pkt.hdrs = << h >> \o q.hdrs /\ r.pkt.class = q.class
        /\ r.pkt.tx = q.tx /\ r.pkt.adj = q.adj
    BY <2>2, <2>3, <2>4, PushHeaderEffect
  <2>6. Len(r.pkt.hdrs) >= 1
    <3> DEFINE t == << h >> \o p.hdrs
    <3>1. p.hdrs \in Seq(HeaderType)
      BY PacketParts
    <3>2. Len(t) = Len(p.hdrs) + 1 /\ Len(p.hdrs) \in Nat
      BY <2>2, <3>1, PutInFront, NotEmpty
    <3> QED
      BY <2>3, <2>5, <3>2
  <2>7. FateOK(r)
    BY <2>4, <2>5, <2>6 DEF FateOK, Nexts, MapNextNodes, flt
  <2>8. Output(type, p, r)
    BY <1>3, <2>3, <2>4, <2>5 DEF Output, h, adj, flt
  <2> QED
    BY <2>3, <2>4, <2>5, <2>7, <2>8
<1> QED
  BY <1>1, <1>2, <1>3

\* What any node does with a packet that has a key.
Processed(type, x, rx_key, ents, cfg, r) ==
  \/ /\ type = "nsh-pop"
     /\ r.entries = ents /\ r.pkt.tx = x.pkt.tx /\ r.pkt.adj = x.pkt.adj
     /\ PopOnly(x, ents, r)
  \/ type \in OutputNodes /\ r.entries = ents /\ Output(type, x.pkt, r)
  \/ /\ type = "nsh-adj-incomplete" /\ r.entries = ents
     /\ r.pkt = x.pkt /\ r.next \in {"ip4-arp", "ip6-discover-neighbor"}
     /\ r.error = "none" /\ r.fault = "none"
  \/ /\ type \notin OutputNodes \cup {"nsh-pop", "nsh-adj-incomplete"}
     /\ x.key \notin DOMAIN Maps /\ r.entries = ents /\ Unmapped(x, r)
  \/ /\ type \notin OutputNodes \cup {"nsh-pop", "nsh-adj-incomplete"}
     /\ x.key \in DOMAIN Maps /\ DOMAIN r.entries = DOMAIN ents
     /\ r.pkt.tx = Maps[x.key].sw_if_index /\ r.pkt.adj = Maps[x.key].adj_index
     /\ Mapped(x, rx_key, ents, cfg, r)

\* What any node makes of a packet it has parsed.
LEMMA ProcessEffect ==
  ASSUME NEW type \in NodeTypes, NEW p, Roomy(type, p), NEW x, x = Parse(type, p),
         NEW set_rx \in BOOLEAN, NEW rx_key, NEW ents, EntriesOK(ents),
         NEW cfg \in ConfigType, NEW r, r = Process(type, x, set_rx, rx_key, ents, cfg)
  PROVE  FateOK(r) /\ Processed(type, x, rx_key, ents, cfg, r)
<1>1. /\ ParsedOK(x) /\ x.pkt \in PacketType /\ Len(x.pkt.hdrs) >= 1
      /\ type = "nsh-pop" => x.pkt = p
  <2>1. ParsedOK(x) /\ (type = "nsh-pop" => x.pkt = p)
    BY ParseEffect
  <2> QED
    BY <2>1 DEF ParsedOK
<1>2. CASE type = "nsh-pop"
  <2>1. r = nsh_pop_inline(x, ents)
    BY <1>2 DEF Process, OutputNodes
  <2>2. Len(x.pkt.hdrs) >= 2
    BY <1>1, <1>2 DEF Roomy
  <2>3. /\ FateOK(r) /\ r.entries = ents /\ PopOnly(x, ents, r)
        /\ r.pkt.class = x.pkt.class /\ r.pkt.tx = x.pkt.tx /\ r.pkt.adj = x.pkt.adj
    BY <1>1, <2>1, <2>2, PopOnlyEffect
  <2> QED
    BY <1>2, <2>3 DEF Processed
<1>3. CASE type \in OutputNodes
  <2>1. r = nsh_output_inline(type, x.pkt, ents)
    BY <1>3 DEF Process, OutputNodes
  <2> DEFINE q == x.pkt
  <2>2. q \in PacketType /\ Len(q.hdrs) >= 1 /\ r = nsh_output_inline(type, q, ents)
    BY <1>1, <2>1
  <2> HIDE DEF q
  <2>3. FateOK(r) /\ r.entries = ents /\ Output(type, q, r)
    BY <2>2, OutputEffect
  <2> QED
    BY <1>3, <2>3 DEF Processed, q
<1>4. CASE type = "nsh-adj-incomplete"
  <2> DEFINE n == IF Adjacency[x.pkt.adj].ip4 THEN "ip4-arp" ELSE "ip6-discover-neighbor"
  <2>1. r = Fate(x.pkt, n, "none", ents, "none")
    BY <1>4 DEF Process, OutputNodes, nsh_adj_incomplete
  <2>2. n \in {"ip4-arp", "ip6-discover-neighbor"}
    OBVIOUS
  <2> HIDE DEF n
  <2>3. /\ r.pkt = x.pkt /\ r.next = n /\ r.error = "none" /\ r.entries = ents
        /\ r.fault = "none"
    BY <2>1 DEF Fate
  <2>4. FateOK(r)
    BY <1>1, <2>2, <2>3 DEF FateOK, Nexts
  <2> QED
    BY <1>4, <2>2, <2>3, <2>4 DEF Processed
<1>5. CASE type \notin OutputNodes \cup {"nsh-pop", "nsh-adj-incomplete"}
  <2>1. r = Forward(x, set_rx, rx_key, ents, cfg)
    BY <1>5 DEF Process, OutputNodes
  <2>2. CASE x.key \notin DOMAIN Maps
    <3>1. r.entries = ents /\ Unmapped(x, r)
      BY <2>1, <2>2, ForwardUnmapped
    <3>2. FateOK(r)
      BY <1>1, <3>1 DEF Unmapped, FateOK, Nexts
    <3> QED
      BY <1>5, <2>2, <3>1, <3>2 DEF Processed
  <2>3. CASE x.key \in DOMAIN Maps
    <3>1. /\ r.pkt \in PacketType /\ r.pkt.class = x.pkt.class
          /\ r.pkt.tx = Maps[x.key].sw_if_index /\ r.pkt.adj = Maps[x.key].adj_index
          /\ EntriesOK(r.entries) /\ DOMAIN r.entries = DOMAIN ents
          /\ Mapped(x, rx_key, ents, cfg, r)
      BY <1>1, <2>1, <2>3, ForwardMapped
    <3>2. FateOK(r)
      BY <1>1, <2>3, <3>1, MappedKeepsOne
    <3> QED
      BY <1>5, <2>3, <3>1, <3>2 DEF Processed
  <2> QED
    BY <2>2, <2>3
<1> QED
  BY <1>2, <1>3, <1>4, <1>5

\* The fields of a fate.
LEMMA FateParts ==
  ASSUME NEW p, NEW next, NEW err, NEW ents, NEW flt, NEW r, r = Fate(p, next, err, ents, flt)
  PROVE  r.pkt = p /\ r.next = next /\ r.error = err /\ r.entries = ents /\ r.fault = flt
BY DEF Fate

\* A packet that has no key is dropped as it came.
LEMMA DropEffect ==
  ASSUME NEW type \in NodeTypes, NEW p, Roomy(type, p), NEW x, x = Parse(type, p),
         NEW ents, EntriesOK(ents),
         NEW err \in {"unset", x.error}, x.error # "none" \/ err = "unset",
         NEW r, r = Fate(x.pkt, "error-drop", err, ents, "none")
  PROVE  /\ FateOK(r) /\ r.pkt = x.pkt /\ r.next = "error-drop" /\ r.error = err
         /\ r.entries = ents /\ r.fault = "none"
<1>1. ParsedOK(x) /\ x.error \in {"none", "INVALID_TTL", "NO_PROXY"}
  BY ParseEffect
<1>2. /\ r.pkt = x.pkt /\ r.next = "error-drop" /\ r.error = err
      /\ r.entries = ents /\ r.fault = "none"
  BY FateParts
<1> QED
  BY <1>1, <1>2 DEF FateOK, ParsedOK, Nexts

\* One packet in a round of the single loop.
LEMMA SingleEffect ==
  ASSUME NEW type \in NodeTypes, NEW p, Roomy(type, p), NEW x, x = Parse(type, p),
         NEW ents, EntriesOK(ents), NEW cfg \in ConfigType,
         NEW r, r = SinglePacket(type, p, ents, cfg)
  PROVE  /\ FateOK(r)
         /\ x.error = "none" => /\ r = Process(type, x, TRUE, x.key, ents, cfg)
                                /\ Processed(type, x, x.key, ents, cfg, r)
         /\ x.error # "none" => /\ r.pkt = x.pkt /\ r.next = "error-drop" /\ r.error = x.error
                                /\ r.entries = ents /\ r.fault = "none"
<1>1. CASE x.error = "none"
  <2>1. r = Process(type, x, TRUE, x.key, ents, cfg)
    BY <1>1 DEF SinglePacket
  <2> DEFINE key == x.key
  <2> HIDE DEF key
  <2>2. r = Process(type, x, TRUE, key, ents, cfg)
    BY <2>1 DEF key
  <2>3. FateOK(r) /\ Processed(type, x, key, ents, cfg, r)
    BY <2>2, ProcessEffect
  <2> QED
    BY <1>1, <2>1, <2>3 DEF key
<1>2. CASE x.error # "none"
  <2>1. r = Fate(x.pkt, "error-drop", x.error, ents, "none")
    BY <1>2 DEF SinglePacket
  <2> DEFINE err == x.error
  <2>2. err \in {"unset", x.error} /\ r = Fate(x.pkt, "error-drop", err, ents, "none")
    BY <2>1
  <2>3. /\ FateOK(r) /\ r.pkt = x.pkt /\ r.next = "error-drop" /\ r.error = err
        /\ r.entries = ents /\ r.fault = "none"
    <3> HIDE DEF err
    <3> QED
      BY <1>2, <2>2, DropEffect
  <2> QED
    BY <1>2, <2>3
<1> QED
  BY <1>1, <1>2

-----------------------------------------------------------------------------
\* Type correctness

\* The packets left of a frame are such as the node may get, and a packet that
\* was handled has a header.
FramesOK ==
  /\ \A i \in DOMAIN from : Roomy(node, from[i])
  /\ \A i \in DOMAIN done : Roomy(node, done[i].was) /\ Len(done[i].pkt.hdrs) >= 1

TypeInv == TypeOK /\ FramesOK

\* What a round records is typed.
LEMMA RoundOK ==
  ASSUME NEW was \in PacketType, NEW loop \in {"single", "first", "second"},
         NEW r, FateOK(r), NEW d, d = Round(was, loop, r)
  PROVE  /\ d \in RoundType
         /\ d.was = was /\ d.loop = loop /\ d.pkt = r.pkt /\ d.next = r.next /\ d.error = r.error
         /\ Len(d.pkt.hdrs) >= 1
BY DEF FateOK, Round, RoundType, Nexts

\* The fields of a round.
LEMMA RoundParts ==
  ASSUME NEW d \in RoundType
  PROVE  d.was \in PacketType /\ d.pkt \in PacketType
BY DEF RoundType

\* The packets of the last round, before and after.
LEMMA DoneParts ==
  ASSUME TypeInv, NEW i \in DOMAIN done
  PROVE  /\ done[i] \in RoundType
         /\ done[i].was \in PacketType /\ done[i].pkt \in PacketType
         /\ Roomy(node, done[i].was) /\ Len(done[i].pkt.hdrs) >= 1
<1>1. done[i] \in RoundType
  BY DEF TypeInv, TypeOK
<1> QED
  BY <1>1, RoundParts DEF TypeInv, FramesOK

\* The rewrite an entry is added with is a rewrite.
LEMMA EntryRewrite ==
  ASSUME NEW e \in DOMAIN EntryArgs, NEW profile \in BOOLEAN,
         NEW w, w = nsh_header_rewrite(e, profile)
  PROVE  w \in RewriteType
<1> DEFINE t == Understood(EntryArgs[e].tlvs, profile)
           bytes == BASE_HEADER_LEN + TlvBytes(t)
<1>1. t \in Seq(Option)
  BY EntryArgsParts, UnderstoodLemma
<1>2. bytes \in Nat
  BY <1>1, TlvBytesType DEF BASE_HEADER_LEN
<1>3. w = IF EntryArgs[e].md_type = 1 THEN Rewrite(<< >>, MD1_HEADER_LEN) ELSE Rewrite(t, bytes)
  BY DEF nsh_header_rewrite
<1> HIDE DEF t, bytes
<1>4. Rewrite(t, bytes) \in RewriteType
  BY <1>1, <1>2, RewriteTyped
<1>5. Rewrite(<< >>, MD1_HEADER_LEN) \in RewriteType
  <2> DEFINE no == << >>
             b  == MD1_HEADER_LEN
  <2>1. no \in Seq(Option) /\ b \in Nat
    BY TlvBytesEmpty DEF MD1_HEADER_LEN
  <2> HIDE DEF no, b
  <2>2. Rewrite(no, b) \in RewriteType
    BY <2>1, RewriteTyped
  <2> QED
    BY <2>2 DEF no, b
<1> QED
  BY <1>3, <1>4, <1>5

\* The initial states are typed.
LEMMA InitType == Init => TypeInv
<1> SUFFICES ASSUME Init PROVE TypeInv
  OBVIOUS
<1>1. ioam \in [profile : BOOLEAN, export : BOOLEAN]
  BY FrameAssumption DEF Init
<1>2. \A e \in DOMAIN EntryArgs : nsh_header_rewrite(e, ioam.profile) \in RewriteType
  BY <1>1, EntryRewrite
<1>3. /\ DOMAIN nsh_entries \subseteq DOMAIN EntryArgs
      /\ nsh_entries \in [DOMAIN nsh_entries -> RewriteType]
  BY <1>2 DEF Init
<1>4. node \in NodeTypes /\ from = << >> /\ done = << >> /\ fault = "none"
      /\ n_left_to_next \in 0 .. MaxSpace
  BY ArrivalAssumption, FrameAssumption DEF Init
<1>5. TypeOK
  BY <1>1, <1>3, <1>4 DEF TypeOK
<1>6. FramesOK
  BY <1>4 DEF FramesOK
<1> QED
  BY <1>5, <1>6 DEF TypeInv

\* A node may get what arrives at it.
LEMMA ArrivalRoomy ==
  ASSUME NEW n \in DOMAIN Arrivals, NEW p \in Arrivals[n]
  PROVE  n \in NodeTypes /\ Roomy(n, p)
<1>1. /\ p \in PacketType /\ p.hdrs # << >>
      /\ n \in {"nsh-input", "nsh-pop"} => Len(p.hdrs) >= 2
  BY ArrivalAssumption
<1>2. Len(p.hdrs) >= 1
  BY <1>1, PacketParts
<1> QED
  BY <1>1, <1>2, ArrivalAssumption DEF Roomy

\* Every action keeps the types, one lemma for each.
LEMMA DispatchType ==
  ASSUME TypeInv, Dispatch
  PROVE  TypeInv'
<1>0. PICK n \in DOMAIN Arrivals, k \in 1 .. MaxFrame :
        node' = n /\ \E f \in [1 .. k -> Arrivals[n]] : from' = f
  BY DEF Dispatch
<1>1. PICK f \in [1 .. k -> Arrivals[n]] : node' = n /\ from' = f
  BY <1>0
<1>2. \A i \in 1 .. k : Roomy(n, f[i]) /\ f[i] \in PacketType
  BY ArrivalRoomy DEF Roomy
<1>3. k \in Nat /\ f \in Seq(PacketType) /\ DOMAIN f = 1 .. k
  <2>1. k \in Nat
    BY FrameAssumption
  <2>2. f \in [1 .. k -> PacketType]
    BY <1>2
  <2> QED
    BY <2>1, <2>2
<1>4. n \in NodeTypes
  BY ArrivalAssumption
<1>5. /\ done' = << >> /\ n_left_to_next' = n_left_to_next /\ nsh_entries' = nsh_entries
      /\ ioam' = ioam /\ fault' = fault
  BY DEF Dispatch
<1>6. TypeOK'
  BY <1>1, <1>3, <1>4, <1>5 DEF TypeInv, TypeOK
<1>7. FramesOK'
  BY <1>1, <1>2, <1>3, <1>5 DEF FramesOK
<1> QED
  BY <1>6, <1>7 DEF TypeInv

\* What Handover hands over are packets of the last round.
LEMMA HandoverPackets ==
  ASSUME TypeInv, Handover
  PROVE  /\ from' \in Seq(PacketType)
         /\ \A k \in DOMAIN from' : \E i \in DOMAIN done :
              from'[k] = done[i].pkt /\ done[i].next = "nsh-eth-output"
         /\ node' = "nsh-eth-output" /\ done' = << >>
         /\ UNCHANGED << n_left_to_next, nsh_entries, ioam, fault >>
<1>1. PICK sent \in {<< 1 >>, << 2 >>, << 1, 2 >>} :
        /\ ToSet(sent) = {i \in DOMAIN done : done[i].next = "nsh-eth-output"}
        /\ from' = [k \in DOMAIN sent |-> done[sent[k]].pkt]
  BY DEF Handover
<1>2. \E m \in Nat : DOMAIN sent = 1 .. m
  <2>1. DOMAIN << 1 >> = 1 .. 1 /\ DOMAIN << 2 >> = 1 .. 1 /\ DOMAIN << 1, 2 >> = 1 .. 2
    OBVIOUS
  <2> QED
    BY <2>1
<1>3. \A k \in DOMAIN sent : sent[k] \in DOMAIN done /\ done[sent[k]].next = "nsh-eth-output"
  BY <1>1 DEF ToSet
<1>4. \A i \in DOMAIN done : done[i].pkt \in PacketType
  BY DoneParts
<1>5. \A k \in DOMAIN sent : from'[k] = done[sent[k]].pkt
  BY <1>1
<1>6. from' \in Seq(PacketType) /\ DOMAIN from' = DOMAIN sent
  BY <1>1, <1>2, <1>3, <1>4
<1> QED
  BY <1>3, <1>5, <1>6 DEF Handover

LEMMA HandoverType ==
  ASSUME TypeInv, Handover
  PROVE  TypeInv'
<1>1. /\ from' \in Seq(PacketType)
      /\ \A k \in DOMAIN from' : \E i \in DOMAIN done :
           from'[k] = done[i].pkt /\ done[i].next = "nsh-eth-output"
      /\ node' = "nsh-eth-output" /\ done' = << >>
      /\ UNCHANGED << n_left_to_next, nsh_entries, ioam, fault >>
  BY HandoverPackets
<1>2. \A i \in DOMAIN done : done[i].pkt \in PacketType /\ Len(done[i].pkt.hdrs) >= 1
  BY DoneParts
<1>3. TypeOK'
  BY <1>1 DEF TypeInv, TypeOK, NodeTypes
<1>4. FramesOK'
  BY <1>1, <1>2 DEF FramesOK, Roomy
<1> QED
  BY <1>3, <1>4 DEF TypeInv

LEMMA GetNextFrameType ==
  ASSUME TypeInv, GetNextFrame
  PROVE  TypeInv'
<1>1. n_left_to_next' \in 0 .. MaxSpace
  BY FrameAssumption DEF GetNextFrame
<1>2. TypeOK'
  BY <1>1 DEF GetNextFrame, TypeInv, TypeOK
<1>3. FramesOK'
  BY DEF GetNextFrame, TypeInv, FramesOK
<1> QED
  BY <1>2, <1>3 DEF TypeInv

\* What a round finds: the packets it takes, and the state it works on.
LEMMA RoundFinds ==
  ASSUME TypeInv
  PROVE  /\ node \in NodeTypes /\ EntriesOK(nsh_entries) /\ ioam \in ConfigType
         /\ from \in Seq(PacketType) /\ Len(from) \in Nat
         /\ \A i \in 1 .. Len(from) : Roomy(node, from[i]) /\ from[i] \in PacketType
BY DEF TypeInv, TypeOK, FramesOK, EntriesOK, ConfigType, Roomy

LEMMA SingleLoopType ==
  ASSUME TypeInv, SingleLoop
  PROVE  TypeInv'
<1> DEFINE p == from[1]
           r == SinglePacket(node, p, nsh_entries, ioam)
           d == Round(p, "single", r)
<1>1. /\ node \in NodeTypes /\ EntriesOK(nsh_entries) /\ ioam \in ConfigType
      /\ from \in Seq(PacketType) /\ Len(from) \in Nat
      /\ \A i \in 1 .. Len(from) : Roomy(node, from[i]) /\ from[i] \in PacketType
  BY RoundFinds
<1>2. from # << >> /\ n_left_to_next > 0
  BY DEF SingleLoop, SingleGuard
<1>3. Roomy(node, p) /\ p \in PacketType
  BY <1>1, <1>2, NotEmpty
<1>4. FateOK(r)
  <2> DEFINE x == Parse(node, p)
  <2> HIDE DEF p, r, x
  <2>1. x = Parse(node, p) /\ r = SinglePacket(node, p, nsh_entries, ioam)
    BY DEF x, r
  <2> QED
    BY <1>1, <1>3, <2>1, SingleEffect
<1>5. /\ done' = << d >> /\ nsh_entries' = r.entries /\ fault' = r.fault
      /\ from' = Tail(from) /\ n_left_to_next' = n_left_to_next - 1
      /\ node' = node /\ ioam' = ioam
  BY DEF SingleLoop
<1> HIDE DEF p, r, d
<1>6. /\ d \in RoundType /\ d.was = p /\ Len(d.pkt.hdrs) >= 1
  BY <1>3, <1>4, RoundOK DEF d
<1>7. /\ from' \in Seq(PacketType) /\ Len(from') = Len(from) - 1
      /\ \A i \in 1 .. Len(from') : from'[i] = from[i + 1]
  BY <1>1, <1>2, <1>5, TakeOff
<1>8. \A i \in DOMAIN from' : Roomy(node, from'[i])
  BY <1>1, <1>7
<1>9. done' \in Seq(RoundType) /\ DOMAIN done' = {1} /\ done'[1] = d
  BY <1>5, <1>6
<1>10. FramesOK'
  BY <1>3, <1>5, <1>6, <1>8, <1>9 DEF FramesOK
<1>11. n_left_to_next' \in 0 .. MaxSpace
  BY <1>2, <1>5, FrameAssumption DEF TypeInv, TypeOK
<1>12. EntriesOK(nsh_entries') /\ fault' \in {"none", "overrun", "null_map", "null_header", "no_adjacency", "no_next"}
  BY <1>4, <1>5 DEF FateOK
<1>13. TypeOK'
  BY <1>1, <1>5, <1>7, <1>9, <1>11, <1>12 DEF TypeOK, EntriesOK, ConfigType
<1> QED
  BY <1>10, <1>13 DEF TypeInv

\* However the two packets of a round fared.
LEMMA EndDualType ==
  ASSUME TypeInv, DualGuard, NEW r0, FateOK(r0), NEW r1, FateOK(r1), EndDual(r0, r1)
  PROVE  TypeInv'
<1> DEFINE d0 == Round(from[1], "first", r0)
           d1 == Round(from[2], "second", r1)
<1>1. /\ node \in NodeTypes /\ EntriesOK(nsh_entries) /\ ioam \in ConfigType
      /\ from \in Seq(PacketType) /\ Len(from) \in Nat
      /\ \A i \in 1 .. Len(from) : Roomy(node, from[i]) /\ from[i] \in PacketType
  BY RoundFinds
<1>2. Len(from) >= 4 /\ n_left_to_next >= 2
  BY DEF DualGuard
<1>3. /\ Roomy(node, from[1]) /\ from[1] \in PacketType
      /\ Roomy(node, from[2]) /\ from[2] \in PacketType
  BY <1>1, <1>2
<1>4. /\ done' = << d0, d1 >> /\ nsh_entries' = r1.entries /\ fault' = FirstFault(r0, r1)
      /\ from' = SubSeq(from, 3, Len(from)) /\ n_left_to_next' = n_left_to_next - 2
      /\ node' = node /\ ioam' = ioam
  BY DEF EndDual
<1>5. /\ d0 \in RoundType /\ d0.was = from[1] /\ Len(d0.pkt.hdrs) >= 1
      /\ d1 \in RoundType /\ d1.was = from[2] /\ Len(d1.pkt.hdrs) >= 1
  BY <1>3, RoundOK
<1> HIDE DEF d0, d1
<1>6. /\ from' \in Seq(PacketType) /\ Len(from') = Len(from) - 2
      /\ \A i \in 1 .. Len(from') : from'[i] = from[i + 2]
  BY <1>1, <1>2, <1>4
<1>7. \A i \in DOMAIN from' : Roomy(node, from'[i])
  BY <1>1, <1>6
<1>8. done' \in Seq(RoundType) /\ DOMAIN done' = {1, 2} /\ done'[1] = d0 /\ done'[2] = d1
  BY <1>4, <1>5
<1>9. FramesOK'
  BY <1>3, <1>4, <1>5, <1>7, <1>8 DEF FramesOK
<1>10. n_left_to_next' \in 0 .. MaxSpace
  BY <1>2, <1>4, FrameAssumption DEF TypeInv, TypeOK
<1>11. EntriesOK(nsh_entries') /\ fault' \in {"none", "overrun", "null_map", "null_header", "no_adjacency", "no_next"}
  BY <1>4 DEF FateOK, FirstFault
<1>12. TypeOK'
  BY <1>1, <1>4, <1>6, <1>8, <1>10, <1>11 DEF TypeOK, EntriesOK, ConfigType
<1> QED
  BY <1>9, <1>12 DEF TypeInv

\* The first two packets of a frame the dual loop takes.
LEMMA DualFinds ==
  ASSUME TypeInv, DualGuard
  PROVE  /\ node \in NodeTypes /\ node # "nsh-adj-incomplete"
         /\ EntriesOK(nsh_entries) /\ ioam \in ConfigType
         /\ Roomy(node, from[1]) /\ from[1] \in PacketType
         /\ Roomy(node, from[2]) /\ from[2] \in PacketType
<1>1. /\ node \in NodeTypes /\ EntriesOK(nsh_entries) /\ ioam \in ConfigType
      /\ from \in Seq(PacketType) /\ Len(from) \in Nat
      /\ \A i \in 1 .. Len(from) : Roomy(node, from[i]) /\ from[i] \in PacketType
  BY RoundFinds
<1> QED
  BY <1>1 DEF DualGuard

\* Both packets of a round of the dual loop, the second on what the first left.
LEMMA DualLoopEffect ==
  ASSUME TypeInv, DualLoop
  PROVE  \E x0, x1, r0, r1 :
           /\ x0 = Parse(node, from[1]) /\ x1 = Parse(node, from[2])
           /\ x0.error = "none" /\ x1.error = "none"
           /\ r0 = Process(node, x0, FALSE, x0.key, nsh_entries, ioam)
           /\ r1 = Process(node, x1, FALSE, x0.key, r0.entries, ioam)
           /\ FateOK(r0) /\ Processed(node, x0, x0.key, nsh_entries, ioam, r0)
           /\ FateOK(r1) /\ Processed(node, x1, x0.key, r0.entries, ioam, r1)
           /\ EndDual(r0, r1)
<1> DEFINE x0 == Parse(node, from[1])
           x1 == Parse(node, from[2])
           key == x0.key
           r0 == Process(node, x0, FALSE, key, nsh_entries, ioam)
           r1 == Process(node, x1, FALSE, key, r0.entries, ioam)
<1>1. DualGuard /\ x0.error = "none" /\ x1.error = "none" /\ EndDual(r0, r1)
  BY DEF DualLoop
<1>2. /\ node \in NodeTypes /\ EntriesOK(nsh_entries) /\ ioam \in ConfigType
      /\ Roomy(node, from[1]) /\ Roomy(node, from[2])
  BY <1>1, DualFinds
<1>3. FALSE \in BOOLEAN
  OBVIOUS
<1> DEFINE ents == r0.entries
           p0 == from[1]
           p1 == from[2]
<1>4. /\ x0 = Parse(node, p0) /\ r0 = Process(node, x0, FALSE, key, nsh_entries, ioam)
      /\ x1 = Parse(node, p1) /\ r1 = Process(node, x1, FALSE, key, ents, ioam)
      /\ Roomy(node, p0) /\ Roomy(node, p1)
  BY <1>2
<1> HIDE DEF x0, x1, key, r0, r1, p0, p1
<1>5. FateOK(r0) /\ Processed(node, x0, key, nsh_entries, ioam, r0)
  BY <1>2, <1>3, <1>4, ProcessEffect
<1>6. EntriesOK(ents)
  BY <1>5 DEF FateOK
<1> HIDE DEF ents
<1>7. FateOK(r1) /\ Processed(node, x1, key, ents, ioam, r1)
  BY <1>2, <1>3, <1>4, <1>6, ProcessEffect
<1> QED
  BY <1>1, <1>4, <1>5, <1>7 DEF key, ents, p0, p1

LEMMA DualLoopType ==
  ASSUME TypeInv, DualLoop
  PROVE  TypeInv'
<1>1. DualGuard
  BY DEF DualLoop
<1>2. \E r0, r1 : FateOK(r0) /\ FateOK(r1) /\ EndDual(r0, r1)
  BY DualLoopEffect
<1> QED
  BY <1>1, <1>2, EndDualType

LEMMA DualSecondFailsType ==
  ASSUME TypeInv, DualSecondFails
  PROVE  TypeInv'
<1> DEFINE p0 == from[1]
           p1 == from[2]
           x0 == Parse(node, p0)
           x1 == Parse(node, p1)
           err1 == x1.error
           r0 == Fate(x0.pkt, "error-drop", "unset", nsh_entries, "none")
           r1 == Fate(x1.pkt, "error-drop", err1, nsh_entries, "none")
<1>1. DualGuard /\ x1.error # "none" /\ EndDual(r0, r1)
  BY DEF DualSecondFails
<1>2. /\ node \in NodeTypes /\ EntriesOK(nsh_entries)
      /\ Roomy(node, p0) /\ Roomy(node, p1)
  BY <1>1, DualFinds
<1>3. "unset" \in {"unset", x0.error} /\ err1 \in {"unset", x1.error}
  OBVIOUS
<1> HIDE DEF p0, p1, x0, x1, r0, r1, err1
<1>4. FateOK(r0)
  <2>1. x0 = Parse(node, p0) /\ r0 = Fate(x0.pkt, "error-drop", "unset", nsh_entries, "none")
    BY DEF x0, r0
  <2> QED
    BY <1>2, <1>3, <2>1, DropEffect
<1>5. FateOK(r1)
  <2>1. x1 = Parse(node, p1) /\ r1 = Fate(x1.pkt, "error-drop", err1, nsh_entries, "none")
    BY DEF x1, r1
  <2> QED
    BY <1>1, <1>2, <1>3, <2>1, DropEffect
<1> QED
  BY <1>1, <1>4, <1>5, EndDualType

\* The second packet of a round whose first has no key.
LEMMA DualFirstFailsType ==
  ASSUME TypeInv, DualFirstFails
  PROVE  TypeInv'
<1> DEFINE p0 == from[1]
           p1 == from[2]
           x0 == Parse(node, p0)
           err0 == x0.error
           r0 == Fate(x0.pkt, "error-drop", err0, nsh_entries, "none")
<1>0. DualGuard /\ x0.error # "none"
  BY DEF DualFirstFails
<1>1. PICK key \in Path :
        LET r  == Forward(Parsed(p1, "none", key, 0), FALSE, NoPath, nsh_entries, ioam)
            r1 == IF key \in DOMAIN Maps
                     /\ \/ Maps[key].nsh_action = "pop"
                        \/ Maps[key].nsh_action = "swap" /\ r.error # "NO_ENTRY"
                    THEN Fate(r.pkt, r.next, r.error, r.entries, "null_header") ELSE r
        IN  EndDual(r0, r1)
  BY DEF DualFirstFails
<1> DEFINE x == Parsed(p1, "none", key, 0)
           r == Forward(x, FALSE, NoPath, nsh_entries, ioam)
           s == Fate(r.pkt, r.next, r.error, r.entries, "null_header")
<1>2. /\ node \in NodeTypes /\ EntriesOK(nsh_entries) /\ ioam \in ConfigType
      /\ Roomy(node, p0) /\ Roomy(node, p1)
  BY <1>0, DualFinds
<1>3. FateOK(r0)
  <2>1. err0 \in {"unset", x0.error} /\ x0 = Parse(node, p0)
        /\ r0 = Fate(x0.pkt, "error-drop", err0, nsh_entries, "none")
    OBVIOUS
  <2> HIDE DEF p0, x0, r0, err0
  <2> QED
    BY <1>0, <1>2, <2>1, DropEffect
<1>4. ParsedOK(x) /\ x.key = key
  BY <1>2 DEF Parsed, ParsedOK, Roomy
<1>5. FateOK(r)
  <2> DEFINE set_rx == FALSE
             rx_key == NoPath
  <2>1. r = Forward(x, set_rx, rx_key, nsh_entries, ioam) /\ set_rx \in BOOLEAN
    OBVIOUS
  <2> HIDE DEF x, r, set_rx, rx_key
  <2>2. CASE x.key \notin DOMAIN Maps
    <3>1. r.entries = nsh_entries /\ Unmapped(x, r)
      BY <2>1, <2>2, ForwardUnmapped
    <3> QED
      BY <1>2, <1>4, <3>1 DEF Unmapped, FateOK, Nexts, ParsedOK
  <2>3. CASE x.key \in DOMAIN Maps
    <3>1. /\ r.pkt \in PacketType
          /\ EntriesOK(r.entries) /\ DOMAIN r.entries = DOMAIN nsh_entries
          /\ Mapped(x, rx_key, nsh_entries, ioam, r)
      BY <1>2, <1>4, <2>1, <2>3, ForwardMapped
    <3> QED
      BY <1>2, <1>4, <2>3, <3>1, MappedKeepsOne
  <2> QED
    BY <2>2, <2>3
<1>6. FateOK(s)
  <2> HIDE DEF r
  <2>1. /\ s.pkt = r.pkt /\ s.next = r.next /\ s.error = r.error /\ s.entries = r.entries
        /\ s.fault = "null_header"
    BY FateParts
  <2> QED
    BY <1>5, <2>1 DEF FateOK
<1> HIDE DEF r, s, r0
<1>7. EndDual(r0, r) \/ EndDual(r0, s)
  BY <1>1 DEF r, s, x
<1> QED
  BY <1>0, <1>3, <1>5, <1>6, <1>7, EndDualType

LEMMA AddEntryType ==
  ASSUME TypeInv, AddEntry
  PROVE  TypeInv'
<1>1. PICK e \in DOMAIN EntryArgs \ DOMAIN nsh_entries :
        nsh_entries' =
          [f \in DOMAIN nsh_entries \cup {e} |->
             IF f = e THEN nsh_header_rewrite(e, ioam.profile) ELSE nsh_entries[f]]
  BY DEF AddEntry
<1>2. ioam \in [profile : BOOLEAN, export : BOOLEAN] /\ EntriesOK(nsh_entries)
  BY RoundFinds DEF ConfigType
<1> DEFINE w == nsh_header_rewrite(e, ioam.profile)
<1>3. w \in RewriteType
  BY <1>2, EntryRewrite
<1> HIDE DEF w
<1>4. nsh_entries' = [f \in DOMAIN nsh_entries \cup {e} |-> IF f = e THEN w ELSE nsh_entries[f]]
  BY <1>1 DEF w
<1>5. EntriesOK(nsh_entries')
  BY <1>2, <1>3, <1>4 DEF EntriesOK
<1>6. TypeOK'
  BY <1>2, <1>5 DEF AddEntry, TypeInv, TypeOK, EntriesOK
<1>7. FramesOK'
  BY DEF AddEntry, FramesOK
<1> QED
  BY <1>6, <1>7 DEF TypeInv

LEMMA DelEntryType ==
  ASSUME TypeInv, DelEntry
  PROVE  TypeInv'
<1>1. PICK e \in DOMAIN nsh_entries :
        nsh_entries' = [f \in DOMAIN nsh_entries \ {e} |-> nsh_entries[f]]
  BY DEF DelEntry
<1>2. EntriesOK(nsh_entries)
  BY RoundFinds
<1>3. EntriesOK(nsh_entries')
  BY <1>1, <1>2 DEF EntriesOK
<1>4. TypeOK'
  BY <1>3 DEF DelEntry, TypeInv, TypeOK, EntriesOK
<1>5. FramesOK'
  BY DEF DelEntry, FramesOK
<1> QED
  BY <1>4, <1>5 DEF TypeInv

LEMMA OverrideType ==
  ASSUME TypeInv, nsh_md2_set_next_ioam_export_override
  PROVE  TypeInv'
<1>1. ioam \in [profile : BOOLEAN, export : BOOLEAN]
  BY RoundFinds DEF ConfigType
<1>2. ioam' \in [profile : BOOLEAN, export : BOOLEAN]
  BY <1>1 DEF nsh_md2_set_next_ioam_export_override
<1>3. TypeOK'
  BY <1>2 DEF nsh_md2_set_next_ioam_export_override, TypeInv, TypeOK
<1>4. FramesOK'
  BY DEF nsh_md2_set_next_ioam_export_override, FramesOK
<1> QED
  BY <1>3, <1>4 DEF TypeInv

\* So does every step.
LEMMA NextType ==
  ASSUME TypeInv, [Next]_vars
  PROVE  TypeInv'
<1>1. CASE Dispatch
  BY <1>1, DispatchType
<1>2. CASE Handover
  BY <1>2, HandoverType
<1>3. CASE GetNextFrame
  BY <1>3, GetNextFrameType
<1>4. CASE SingleLoop
  BY <1>4, SingleLoopType
<1>5. CASE DualLoop
  BY <1>5, DualLoopType
<1>6. CASE DualSecondFails
  BY <1>6, DualSecondFailsType
<1>7. CASE DualFirstFails
  BY <1>7, DualFirstFailsType
<1>8. CASE AddEntry
  BY <1>8, AddEntryType
<1>9. CASE DelEntry
  BY <1>9, DelEntryType
<1>10. CASE nsh_md2_set_next_ioam_export_override
  BY <1>10, OverrideType
<1>11. CASE UNCHANGED vars
  BY <1>11 DEF vars, frameVars, TypeInv, TypeOK, FramesOK
<1> QED
  BY <1>1, <1>2, <1>3, <1>4, <1>5, <1>6, <1>7, <1>8, <1>9, <1>10, <1>11 DEF Next, NodeStep

\* The type invariant with what is true of the frames.
LEMMA AlwaysTypeInv == Spec => []TypeInv
<1>1. Init => TypeInv
  BY InitType
<1>2. TypeInv /\ [Next]_vars => TypeInv'
  BY NextType
<1> QED
  BY <1>1, <1>2, PTL DEF Spec

\* Whatever comes to the nodes, and whatever is made of it, every variable
\* keeps its type; neither loop takes more of a frame, or more room of the next
\* one, than there is.
THEOREM TypeCorrect == Spec => []TypeOK
<1>1. TypeInv => TypeOK
  BY DEF TypeInv
<1> QED
  BY <1>1, AlwaysTypeInv, PTL

-----------------------------------------------------------------------------
\* Two at a time

\* Two fates of one packet, in two copies of the code, unless one of them follows
\* the null pointer of a map that is not there.
LEMMA LoopsAgree ==
  ASSUME NEW type \in NodeTypes, NEW p, Roomy(type, p), NEW x, x = Parse(type, p),
         NEW no \in BOOLEAN, NEW rx_key, NEW yes \in BOOLEAN, NEW key,
         NEW ents, EntriesOK(ents), NEW cfg \in ConfigType,
         NEW r, r = Process(type, x, no, rx_key, ents, cfg), r.fault = "none",
         x.key \in DOMAIN Maps => RxInterface(key) # NoInterface,
         NEW s, s = Process(type, x, yes, key, ents, cfg)
  PROVE  SameFate(r, s) /\ r.entries = s.entries
<1>2. CASE type \in OutputNodes \cup {"nsh-pop", "nsh-adj-incomplete"}
  <2>1. r = s
    BY <1>2 DEF Process, OutputNodes
  <2> QED
    BY <2>1 DEF SameFate
<1>3. CASE type \notin OutputNodes \cup {"nsh-pop", "nsh-adj-incomplete"} /\ x.key \notin DOMAIN Maps
  <2>1. r = Forward(x, no, rx_key, ents, cfg) /\ s = Forward(x, yes, key, ents, cfg)
    BY <1>3 DEF Process, OutputNodes
  <2>2. r = Fate(x.pkt, "error-drop", "NO_MAPPING", ents, "none")
    BY <1>3, <2>1 DEF Forward
  <2>3. s = Fate(x.pkt, "error-drop", "NO_MAPPING", ents, "none")
    BY <1>3, <2>1 DEF Forward
  <2>4. r = s
    BY <2>2, <2>3
  <2> QED
    BY <2>4 DEF SameFate
<1>4. CASE type \notin OutputNodes \cup {"nsh-pop", "nsh-adj-incomplete"} /\ x.key \in DOMAIN Maps
  <2>1. r = Forward(x, no, rx_key, ents, cfg) /\ s = Forward(x, yes, key, ents, cfg)
    BY <1>4 DEF Process, OutputNodes
  <2>2. ParsedOK(x) /\ x.key \in DOMAIN Maps
    BY <1>4, ParseEffect
  <2>3. /\ r.pkt \in PacketType /\ r.pkt.class = x.pkt.class
        /\ r.pkt.tx = Maps[x.key].sw_if_index /\ r.pkt.adj = Maps[x.key].adj_index
        /\ Mapped(x, rx_key, ents, cfg, r)
    BY <2>1, <2>2, ForwardMapped
  <2>4. /\ s.pkt \in PacketType /\ s.pkt.class = x.pkt.class
        /\ s.pkt.tx = Maps[x.key].sw_if_index /\ s.pkt.adj = Maps[x.key].adj_index
        /\ Mapped(x, key, ents, cfg, s)
    BY <2>1, <2>2, ForwardMapped
  <2>5. RxInterface(key) # NoInterface
    BY <1>4
  <2>6. /\ r.pkt.hdrs = s.pkt.hdrs /\ r.next = s.next /\ r.error = s.error
        /\ r.entries = s.entries
    <3>1. CASE Maps[x.key].nsh_action = "pop"
      <4>1. /\ r.entries = ents /\ Popped(x, rx_key, cfg, r)
            /\ s.entries = ents /\ Popped(x, key, cfg, s)
        BY <2>3, <2>4, <3>1 DEF Mapped
      <4> QED
        BY <2>5, <4>1 DEF Popped
    <3>2. CASE Maps[x.key].nsh_action # "pop" /\ MappedOf(x) \notin DOMAIN ents
      <4>1. /\ r.entries = ents /\ Unchanged(x, r)
            /\ s.entries = ents /\ Unchanged(x, s)
        BY <2>3, <2>4, <3>2 DEF Mapped
      <4> QED
        BY <4>1 DEF Unchanged
    <3>3. CASE Maps[x.key].nsh_action = "swap" /\ MappedOf(x) \in DOMAIN ents
      <4>1. Swapped(x, ents, cfg, r) /\ Swapped(x, ents, cfg, s)
        BY <2>3, <2>4, <3>3 DEF Mapped
      <4> QED
        BY <4>1 DEF Swapped
    <3>4. CASE Maps[x.key].nsh_action = "push" /\ MappedOf(x) \in DOMAIN ents
      <4>1. Pushed(x, ents, cfg, r) /\ Pushed(x, ents, cfg, s)
        BY <2>3, <2>4, <3>4 DEF Mapped
      <4> QED
        BY <4>1 DEF Pushed
    <3> QED
      BY <1>4, <3>1, <3>2, <3>3, <3>4, MapParts
  <2> DEFINE q == r.pkt
             t == s.pkt
  <2>7. [q EXCEPT !.rx = 0] = [t EXCEPT !.rx = 0]
    <3>1. /\ q.hdrs = t.hdrs /\ q.class = t.class /\ q.tx = t.tx /\ q.adj = t.adj
          /\ q \in PacketType /\ t \in PacketType
      BY <2>3, <2>4, <2>6
    <3> HIDE DEF q, t
    <3>2. /\ q = [hdrs |-> q.hdrs, class |-> q.class, rx |-> q.rx, tx |-> q.tx, adj |-> q.adj]
          /\ t = [hdrs |-> t.hdrs, class |-> t.class, rx |-> t.rx, tx |-> t.tx, adj |-> t.adj]
      BY <3>1, PacketParts
    <3> QED
      BY <3>1, <3>2
  <2> QED
    BY <2>6, <2>7 DEF SameFate
<1> QED
  BY <1>2, <1>3, <1>4

\* A round of two is two rounds of one.
LEMMA DualLoopAsSingle ==
  ASSUME TypeInv, DualLoop, fault' = "none",
         NEW s0, s0 = SinglePacket(node, from[1], nsh_entries, ioam),
         NEW s1, s1 = SinglePacket(node, from[2], s0.entries, ioam)
  PROVE  /\ SameFate(done'[1], s0) /\ SameFate(done'[2], s1)
         /\ nsh_entries' = s1.entries
<1>1. PICK x0, x1, r0, r1 :
        /\ x0 = Parse(node, from[1]) /\ x1 = Parse(node, from[2])
        /\ x0.error = "none" /\ x1.error = "none"
        /\ r0 = Process(node, x0, FALSE, x0.key, nsh_entries, ioam)
        /\ r1 = Process(node, x1, FALSE, x0.key, r0.entries, ioam)
        /\ FateOK(r0) /\ FateOK(r1) /\ EndDual(r0, r1)
  BY DualLoopEffect
<1> DEFINE p0 == from[1]
           p1 == from[2]
           key0 == x0.key
           key1 == x1.key
           ents == r0.entries
<1>2. /\ node \in NodeTypes /\ EntriesOK(nsh_entries) /\ ioam \in ConfigType
      /\ Roomy(node, p0) /\ Roomy(node, p1)
  <2>1. DualGuard
    BY DEF DualLoop
  <2> QED
    BY <2>1, DualFinds
<1>0. PICK no \in BOOLEAN, yes \in BOOLEAN : no = FALSE /\ yes = TRUE
  OBVIOUS
<1>3. s0 = Process(node, x0, yes, key0, nsh_entries, ioam)
  BY <1>1, <1>0 DEF SinglePacket
<1>4. s1 = Process(node, x1, yes, key1, s0.entries, ioam)
  BY <1>1, <1>0 DEF SinglePacket
<1>5. r0.fault = "none" /\ r1.fault = "none"
  BY <1>1 DEF EndDual, FirstFault
<1>6. /\ key0 \in DOMAIN Maps => RxInterface(key0) # NoInterface
      /\ key1 \in DOMAIN Maps => RxInterface(key1) # NoInterface
  BY MapParts
<1>7. /\ x0 = Parse(node, p0) /\ x1 = Parse(node, p1)
      /\ r0 = Process(node, x0, no, key0, nsh_entries, ioam)
      /\ r1 = Process(node, x1, no, key0, ents, ioam)
      /\ x0.key \in DOMAIN Maps => RxInterface(key0) # NoInterface
      /\ x1.key \in DOMAIN Maps => RxInterface(key1) # NoInterface
  BY <1>1, <1>6, <1>0
<1>8. EntriesOK(ents)
  BY <1>1 DEF FateOK
<1> HIDE DEF p0, p1, key0, key1
<1>9. SameFate(r0, s0) /\ ents = s0.entries
  BY <1>2, <1>3, <1>5, <1>7, LoopsAgree
<1> HIDE DEF ents
<1>10. s1 = Process(node, x1, yes, key1, ents, ioam)
  BY <1>4, <1>9
<1>11. SameFate(r1, s1) /\ r1.entries = s1.entries
  BY <1>2, <1>5, <1>7, <1>8, <1>10, LoopsAgree
<1>12. /\ done'[1] = Round(from[1], "first", r0) /\ done'[2] = Round(from[2], "second", r1)
       /\ nsh_entries' = r1.entries
  BY <1>1 DEF EndDual
<1>13. /\ done'[1].pkt = r0.pkt /\ done'[1].next = r0.next /\ done'[1].error = r0.error
       /\ done'[2].pkt = r1.pkt /\ done'[2].next = r1.next /\ done'[2].error = r1.error
  BY <1>12 DEF Round
<1> QED
  BY <1>9, <1>11, <1>12, <1>13 DEF SameFate

\* Only the dual loop handles two packets in a round.
LEMMA TwoAtATime ==
  ASSUME TypeInv, [Next]_vars, Len(done') = 2, from' # from,
         Parse(node, from[1]).error = "none", Parse(node, from[2]).error = "none"
  PROVE  DualLoop
<1>1. ~(UNCHANGED vars)
  BY DEF vars, frameVars
<1>2. ~(done' = << >>)
  OBVIOUS
<1>3. ~Dispatch /\ ~Handover /\ ~GetNextFrame /\ ~AddEntry /\ ~DelEntry
  BY <1>2 DEF Dispatch, Handover, GetNextFrame, AddEntry, DelEntry
<1>4. ~nsh_md2_set_next_ioam_export_override
  BY <1>2 DEF nsh_md2_set_next_ioam_export_override
<1>5. ~SingleLoop
  <2>1. ASSUME NEW d, done' = << d >>
        PROVE  FALSE
    BY <2>1
  <2> QED
    BY <2>1 DEF SingleLoop
<1>6. ~DualSecondFails /\ ~DualFirstFails
  BY DEF DualSecondFails, DualFirstFails
<1> QED
  BY <1>1, <1>3, <1>4, <1>5, <1>6 DEF Next, NodeStep

\* Two packets of a frame that are handled in one round fare as they would one
\* after the other, for frames of any length: the second finds the rewrite as
\* the first has left it, and following a null map is the only way to differ.
THEOREM TwoAsOneByOne == Spec => DualAsSingle
<1> DEFINE s0 == SinglePacket(node, from[1], nsh_entries, ioam)
           s1 == SinglePacket(node, from[2], s0.entries, ioam)
           Asked == /\ Len(done') = 2 /\ from' # from /\ fault' = "none"
                    /\ Parse(node, from[1]).error = "none" /\ Parse(node, from[2]).error = "none"
           Kept == /\ SameFate(done'[1], s0)
                   /\ SameFate(done'[2], s1)
                   /\ nsh_entries' = s1.entries
<1>1. TypeInv /\ [Next]_vars => [Asked => Kept]_vars
  <2> SUFFICES ASSUME TypeInv, [Next]_vars, Asked
               PROVE  Kept
    OBVIOUS
  <2>1. DualLoop /\ fault' = "none"
    BY TwoAtATime
  <2>2. \E t0, t1 : t0 = s0 /\ t1 = s1
    OBVIOUS
  <2> HIDE DEF s0
  <2>3. s0 = SinglePacket(node, from[1], nsh_entries, ioam)
    BY DEF s0
  <2>4. s1 = SinglePacket(node, from[2], s0.entries, ioam)
    OBVIOUS
  <2> HIDE DEF s1
  <2> QED
    BY <2>1, <2>3, <2>4, DualLoopAsSingle
<1>2. DualAsSingle <=> [][Asked => Kept]_vars
  BY DEF DualAsSingle
<1> QED
  BY <1>1, <1>2, AlwaysTypeInv, PTL DEF Spec

-----------------------------------------------------------------------------
\* What the entries are like, and what a packet leaves them like

EntryTrue(ents, e) ==
  /\ ents[e].length = ents[e].rewrite_size
  /\ EntryArgs[e].md_type = 1 => ents[e].rewrite_size = MD1_HEADER_LEN
  /\ EntryArgs[e].md_type = 2 =>
       ents[e].rewrite_size = BASE_HEADER_LEN + TlvBytes(ents[e].tlvs)

\* The rewrites are as long as they say.
EntriesTrue(ents) ==
  MetadataFits => \A e \in DOMAIN ents : EntryTrue(ents, e)

EntryReady(ents, e, cfg) == Handled(e, cfg) <= Len(ents[e].tlvs)

\* A base header and whole words behind it: the length in words loses nothing.
LEMMA WholeWords ==
  ASSUME NEW k \in Nat, NEW b, b = 4 * k + 8, b \in 0 .. 255
  PROVE  b % 256 = b /\ 4 * (b \div 4) = b
<1>1. b \div 4 = k + 2
  OBVIOUS
<1> QED
  BY <1>1

\* TLVs that fit a header still do when some of them are left out.
LEMMA StillFits ==
  ASSUME NEW a \in Nat, NEW b \in Nat, a <= b, BASE_HEADER_LEN + b \in 0 .. 255
  PROVE  BASE_HEADER_LEN + a < MAX_NSH_HEADER_LEN
BY DEF BASE_HEADER_LEN, MAX_NSH_HEADER_LEN

\* Sizes that fit a byte are multiples of four, so that the length is the size.
LEMMA RewriteTrue ==
  ASSUME NEW t \in Seq(Option), NEW bytes, bytes = BASE_HEADER_LEN + TlvBytes(t),
         bytes < MAX_NSH_HEADER_LEN, NEW w, w = Rewrite(t, bytes)
  PROVE  w.rewrite_size = bytes /\ w.length = bytes /\ w.tlvs = t
<1>1. PICK k \in Nat : TlvBytes(t) = 4 * k
  BY TlvBytesType
<1>2. bytes = 4 * k + 8 /\ bytes \in 0 .. 255
  BY <1>1 DEF BASE_HEADER_LEN, MAX_NSH_HEADER_LEN
<1>3. bytes % 256 = bytes /\ 4 * (bytes \div 4) = bytes
  BY <1>2, WholeWords
<1>4. w.tlvs = t /\ w.rewrite_size = bytes % 256 /\ w.length = 4 * ((bytes % 256) \div 4)
  BY DEF Rewrite
<1> QED
  BY <1>3, <1>4

\* Refilled with TLVs that fit, an entry stays true.
LEMMA RefillTrue ==
  ASSUME NEW ents, EntriesOK(ents), NEW e \in DOMAIN ents, NEW t \in Seq(Option),
         EntryArgs[e].md_type = 2, BASE_HEADER_LEN + TlvBytes(t) < MAX_NSH_HEADER_LEN,
         \A f \in DOMAIN ents : EntryTrue(ents, f),
         NEW new, new = Refill(ents, e, t)
  PROVE  \A f \in DOMAIN new : EntryTrue(new, f)
<1> DEFINE bytes == BASE_HEADER_LEN + TlvBytes(t)
           w == Rewrite(t, bytes)
<1>1. DOMAIN new = DOMAIN ents /\ new[e] = w /\ \A f \in DOMAIN ents : f # e => new[f] = ents[f]
  BY RefillEffect
<1>2. w.rewrite_size = bytes /\ w.length = bytes /\ w.tlvs = t
  <2>1. bytes = BASE_HEADER_LEN + TlvBytes(t) /\ bytes < MAX_NSH_HEADER_LEN
        /\ w = Rewrite(t, bytes)
    OBVIOUS
  <2> HIDE DEF bytes, w
  <2> QED
    BY <2>1, RewriteTrue
<1>3. EntryTrue(new, e)
  <2> HIDE DEF w
  <2>1. /\ new[e].length = new[e].rewrite_size
        /\ new[e].rewrite_size = BASE_HEADER_LEN + TlvBytes(new[e].tlvs)
    BY <1>1, <1>2
  <2> QED
    BY <2>1 DEF EntryTrue
<1>4. ASSUME NEW f \in DOMAIN ents, f # e
      PROVE  EntryTrue(new, f)
  <2>1. new[f] = ents[f] /\ EntryTrue(ents, f)
    BY <1>1, <1>4
  <2> QED
    BY <2>1 DEF EntryTrue
<1> QED
  BY <1>1, <1>3, <1>4

\* The packets there are: those that come, and those handed over.
Known(n, p) ==
  \/ n \in DOMAIN Arrivals /\ p \in Arrivals[n]
  \/ n = "nsh-eth-output"

\* One packet handled without another one disturbing it.
Made(n, x, ents, cfg, r) ==
  /\ FateOK(r)
  /\ \/ /\ x.error # "none" /\ r.entries = ents
        /\ r.pkt = x.pkt /\ r.next = "error-drop" /\ r.error = x.error /\ r.fault = "none"
     \/ /\ x.error = "none"
        /\ \E rx_key :
             /\ n \in InputNodes /\ x.key \in DOMAIN Maps => RxInterface(rx_key) # NoInterface
             /\ Processed(n, x, rx_key, ents, cfg, r)

\* What it does to the entries.
LEMMA MadeEntries ==
  ASSUME NEW n \in NodeTypes, NEW x, NEW ents, NEW cfg, NEW r, Made(n, x, ents, cfg, r)
  PROVE  \/ r.entries = ents
         \/ /\ n \in InputNodes /\ x.key \in DOMAIN Maps /\ MappedOf(x) \in DOMAIN ents
            /\ Maps[x.key].nsh_action = "swap" /\ Swapped(x, ents, cfg, r)
         \/ /\ n \in InputNodes /\ x.key \in DOMAIN Maps /\ MappedOf(x) \in DOMAIN ents
            /\ Maps[x.key].nsh_action = "push" /\ Pushed(x, ents, cfg, r)
<1>1. CASE r.entries = ents
  BY <1>1
<1>2. CASE r.entries # ents
  <2>1. PICK rx_key : Processed(n, x, rx_key, ents, cfg, r)
    BY <1>2 DEF Made
  <2>2. /\ n \notin OutputNodes \cup {"nsh-pop", "nsh-adj-incomplete"}
        /\ x.key \in DOMAIN Maps /\ Mapped(x, rx_key, ents, cfg, r)
    BY <1>2, <2>1 DEF Processed
  <2>3. n \in InputNodes
    BY <2>2 DEF NodeTypes, OutputNodes, InputNodes
  <2> QED
    BY <1>2, <2>2, <2>3 DEF Mapped
<1> QED
  BY <1>1, <1>2

\* A swap of an md2 packet is to an entry of md_type 2, and fits it.
LEMMA KnownSwap ==
  ASSUME MetadataFits, NEW n \in InputNodes, NEW p, Known(n, p), NEW x, x = Parse(n, p),
         ParsedOK(x), x.key \in DOMAIN Maps, Maps[x.key].nsh_action = "swap",
         MappedOf(x) \in DOMAIN EntryArgs, IsMd2(x), NEW profile \in BOOLEAN,
         NEW kept, kept = Understood(TlvsOf(x), profile)
  PROVE  /\ EntryArgs[MappedOf(x)].md_type = 2 /\ kept \in Seq(Option)
         /\ BASE_HEADER_LEN + TlvBytes(kept) < MAX_NSH_HEADER_LEN
<1>1. n \in DOMAIN Arrivals /\ p \in Arrivals[n]
  BY DEF Known, InputNodes
<1>2. /\ EntryArgs[MappedOf(x)].md_type = 2
      /\ BASE_HEADER_LEN + TlvBytes(Head(x.pkt.hdrs).tlvs) < MAX_NSH_HEADER_LEN
  BY <1>1 DEF MetadataFits, MappedOf, IsMd2
<1>3. TlvsOf(x) \in Seq(Option) /\ Head(x.pkt.hdrs) \in HeaderType
  BY TlvsType DEF TlvsOf
<1>4. Head(x.pkt.hdrs).tlvs \in Seq(Option)
  BY <1>3, HeaderParts
<1>5. TlvBytes(TlvsOf(x)) <= TlvBytes(Head(x.pkt.hdrs).tlvs)
  <2>1. CASE x.header_len = 0
    <3>1. TlvsOf(x) = << >>
      BY <2>1 DEF TlvsOf, Tlvs
    <3>2. TlvBytes(Head(x.pkt.hdrs).tlvs) \in Nat
      BY <1>4, TlvBytesType
    <3> QED
      BY <3>1, <3>2, TlvBytesEmpty
  <2>2. CASE x.header_len # 0
    <3>1. TlvsOf(x) = Head(x.pkt.hdrs).tlvs
      BY <2>2 DEF TlvsOf, Tlvs
    <3>2. TlvBytes(Head(x.pkt.hdrs).tlvs) \in Nat
      BY <1>4, TlvBytesType
    <3> QED
      BY <3>1, <3>2
  <2> QED
    BY <2>1, <2>2
<1>6. kept \in Seq(Option) /\ TlvBytes(kept) <= TlvBytes(TlvsOf(x))
  BY <1>3, UnderstoodLemma
<1>7. /\ TlvBytes(kept) \in Nat /\ TlvBytes(TlvsOf(x)) \in Nat
      /\ TlvBytes(Head(x.pkt.hdrs).tlvs) \in Nat
  BY <1>3, <1>4, <1>6, TlvBytesType
<1> QED
  BY <1>2, <1>5, <1>6, <1>7 DEF BASE_HEADER_LEN, MAX_NSH_HEADER_LEN

\* The entries stay true, whatever packets use them.
LEMMA StayTrue ==
  ASSUME MetadataFits, NEW n \in NodeTypes, NEW p, Known(n, p), Roomy(n, p),
         NEW x, x = Parse(n, p), NEW ents, EntriesOK(ents), NEW cfg \in ConfigType,
         NEW r, Made(n, x, ents, cfg, r), \A e \in DOMAIN ents : EntryTrue(ents, e)
  PROVE  \A e \in DOMAIN r.entries : EntryTrue(r.entries, e)
<1> DEFINE e == MappedOf(x)
           profile == cfg.profile
<1>1. ParsedOK(x) /\ profile \in BOOLEAN
  BY ParseEffect DEF ConfigType
<1>2. CASE r.entries = ents
  BY <1>2
<1>3. CASE /\ n \in InputNodes /\ x.key \in DOMAIN Maps /\ e \in DOMAIN ents
           /\ Maps[x.key].nsh_action = "swap" /\ Swapped(x, ents, cfg, r)
           /\ r.entries # ents
  <2> DEFINE kept == Understood(TlvsOf(x), profile)
             new == r.entries
  <2>1. IsMd2(x) /\ new = Refill(ents, e, kept)
    BY <1>3 DEF Swapped, SwapEntries
  <2>2. e \in DOMAIN EntryArgs
    BY <1>3 DEF EntriesOK
  <2>3. /\ EntryArgs[e].md_type = 2 /\ kept \in Seq(Option)
        /\ BASE_HEADER_LEN + TlvBytes(kept) < MAX_NSH_HEADER_LEN
    <3> HIDE DEF profile
    <3> QED
      BY <1>1, <1>3, <2>1, <2>2, KnownSwap
  <2> HIDE DEF kept, new, e
  <2>4. \A f \in DOMAIN new : EntryTrue(new, f)
    BY <1>3, <2>1, <2>3, RefillTrue
  <2> QED
    BY <2>4 DEF new
<1>4. CASE /\ n \in InputNodes /\ x.key \in DOMAIN Maps /\ e \in DOMAIN ents
           /\ Maps[x.key].nsh_action = "push" /\ Pushed(x, ents, cfg, r)
           /\ r.entries # ents
  <2> DEFINE old == ents[e].tlvs
             h == Handled(e, cfg)
             t == FirstOf(old, h)
             new == r.entries
  <2>1. EntryArgs[e].md_type = 2 /\ new = Refill(ents, e, t)
    BY <1>4 DEF Pushed, PushEntries
  <2>2. e \in DOMAIN EntryArgs /\ ents[e] \in RewriteType
    BY <1>4 DEF EntriesOK
  <2>3. old \in Seq(Option) /\ h \in Nat /\ ents[e].rewrite_size \in 0 .. 255
    BY <2>2, RewriteParts, HandledType
  <2>4. ents[e].rewrite_size = BASE_HEADER_LEN + TlvBytes(old)
    BY <1>4, <2>1 DEF EntryTrue
  <2> HIDE DEF old, h, new, e
  <2>5. t \in Seq(Option) /\ TlvBytes(t) <= TlvBytes(old)
    BY <2>3, FirstOfType
  <2>6. TlvBytes(t) \in Nat /\ TlvBytes(old) \in Nat
    BY <2>3, <2>5, TlvBytesType
  <2> HIDE DEF t
  <2>0. BASE_HEADER_LEN + TlvBytes(old) \in 0 .. 255
    BY <2>3, <2>4
  <2>7. BASE_HEADER_LEN + TlvBytes(t) < MAX_NSH_HEADER_LEN
    BY <2>0, <2>5, <2>6, StillFits
  <2>8. \A f \in DOMAIN new : EntryTrue(new, f)
    BY <1>4, <2>1, <2>5, <2>7, RefillTrue
  <2> QED
    BY <2>8 DEF new
<1> QED
  BY <1>2, <1>3, <1>4, MadeEntries

-----------------------------------------------------------------------------
\* What is true of one round

\* The same in either loop: what a round says of a packet.
Tells(d, p, r) ==
  d.was = p /\ d.pkt = r.pkt /\ d.next = r.next /\ d.error = r.error

\* What nsh-pop gets has arrived there.
LEMMA PoppedPath ==
  ASSUME NEW n, NEW p, n = "nsh-pop", Known(n, p)
  PROVE  n \in DOMAIN Arrivals /\ p \in Arrivals[n]
BY DEF Known

-----------------------------------------------------------------------------
\* NSH headers, and those that are none

NoNsh(hdrs) == \A i \in DOMAIN hdrs : ~hdrs[i].nsh

\* A packet of HeadersTrue: behind the first header there is no NSH header.
LEMMA ArrivalHeaders ==
  ASSUME HeadersTrue, NEW n \in DOMAIN Arrivals, NEW p \in Arrivals[n], Roomy(n, p),
         NEW hdrs, hdrs = p.hdrs
  PROVE  /\ hdrs \in Seq(HeaderType) /\ hdrs # << >> /\ Len(hdrs) \in Nat /\ Len(hdrs) >= 1
         /\ Head(hdrs) = hdrs[1] /\ hdrs[1] \in HeaderType
         /\ hdrs[1].nsh => HeaderTrue(hdrs[1])
         /\ \A i \in 2 .. Len(hdrs) : ~hdrs[i].nsh
         /\ NoNsh(Tail(hdrs)) /\ (~hdrs[1].nsh => NoNsh(hdrs))
         /\ n \in {"nsh-input", "nsh-pop"} => hdrs[1].nsh /\ Len(hdrs) >= 2
         /\ n \in InputNodes \ {"nsh-input"} => ~hdrs[1].nsh
<1>1. /\ hdrs \in Seq(HeaderType) /\ hdrs # << >> /\ Len(hdrs) \in Nat /\ Len(hdrs) >= 1
  BY PacketParts DEF Roomy
<1>2. /\ Head(hdrs) = hdrs[1] /\ hdrs[1] \in HeaderType /\ Tail(hdrs) \in Seq(HeaderType)
      /\ Len(Tail(hdrs)) = Len(hdrs) - 1
      /\ \A i \in 1 .. Len(Tail(hdrs)) : Tail(hdrs)[i] = hdrs[i + 1]
  BY <1>1, TakeOff
<1>3. \A i \in 1 .. Len(hdrs) : hdrs[i].nsh => i = 1 /\ HeaderTrue(hdrs[1])
  <2>1. DOMAIN hdrs = 1 .. Len(hdrs)
    BY <1>1
  <2> QED
    BY <2>1 DEF HeadersTrue
<1>4. \A i \in 2 .. Len(hdrs) : ~hdrs[i].nsh
  BY <1>1, <1>3
<1>5. NoNsh(Tail(hdrs))
  <2> DEFINE t == Tail(hdrs)
  <2>1. DOMAIN t = 1 .. Len(t)
    BY <1>2
  <2>2. \A i \in 1 .. Len(t) : t[i] = hdrs[i + 1] /\ i + 1 \in 2 .. Len(hdrs)
    BY <1>1, <1>2
  <2> HIDE DEF t
  <2>3. NoNsh(t)
    BY <1>4, <2>1, <2>2 DEF NoNsh
  <2> QED
    BY <2>3 DEF t
<1>6. ~hdrs[1].nsh => NoNsh(hdrs)
  <2>1. DOMAIN hdrs = 1 .. Len(hdrs)
    BY <1>1
  <2>2. \A i \in 1 .. Len(hdrs) : i = 1 \/ i \in 2 .. Len(hdrs)
    BY <1>1
  <2> QED
    BY <1>4, <2>1, <2>2 DEF NoNsh
<1>7. hdrs[1].nsh => HeaderTrue(hdrs[1])
  <2>1. 1 \in 1 .. Len(hdrs)
    BY <1>1
  <2> QED
    BY <1>3, <2>1
<1>8. /\ n \in {"nsh-input", "nsh-pop"} => hdrs[1].nsh /\ Len(hdrs) >= 2
      /\ n \in InputNodes \ {"nsh-input"} => ~hdrs[1].nsh
  BY DEF HeadersTrue, Roomy
<1> QED
  BY <1>1, <1>2, <1>4, <1>5, <1>6, <1>7, <1>8

\* Headers that are no NSH headers stay that way behind another header.
LEMMA InFrontOfNoNsh ==
  ASSUME NEW h \in HeaderType, ~h.nsh, NEW s \in Seq(HeaderType), NoNsh(s),
         NEW t, t = << h >> \o s
  PROVE  NoNsh(t)
<1>1. /\ Len(s) \in Nat /\ Len(t) = Len(s) + 1 /\ t[1] = h
      /\ \A i \in 1 .. Len(s) : t[i + 1] = s[i] /\ ~s[i].nsh
      /\ DOMAIN t = 1 .. Len(t)
  <2>1. t \in Seq(HeaderType)
    BY PutInFront
  <2>2. DOMAIN t = 1 .. Len(t) /\ DOMAIN s = 1 .. Len(s)
    BY <2>1
  <2> QED
    BY <2>2, PutInFront, NotEmpty DEF NoNsh
<1>2. ASSUME NEW i \in 1 .. Len(t)
      PROVE  ~t[i].nsh
  <2>1. CASE i = 1
    BY <1>1, <2>1
  <2>2. CASE i # 1
    <3>1. i - 1 \in 1 .. Len(s) /\ (i - 1) + 1 = i
      BY <1>1, <2>2
    <3> QED
      BY <1>1, <3>1
  <2> QED
    BY <2>1, <2>2
<1> QED
  BY <1>1, <1>2 DEF NoNsh

\* First and last header of a packet with a header put in front.
LEMMA FirstHeader ==
  ASSUME NEW h \in HeaderType, NEW s \in Seq(HeaderType), NEW t, t = << h >> \o s
  PROVE  /\ t \in Seq(HeaderType) /\ Len(t) = Len(s) + 1
         /\ t[1] = h /\ \A i \in 1 .. Len(s) : t[i + 1] = s[i]
         /\ Head(t) = h /\ Tail(t) = s
         /\ s # << >> => Last(t) = Last(s)
<1>1. /\ t \in Seq(HeaderType) /\ Len(t) = Len(s) + 1 /\ t[1] = h /\ Len(s) \in Nat
      /\ \A i \in 1 .. Len(s) : t[i + 1] = s[i]
  BY ConcatProperties
<1>2. Head(t) = h /\ Tail(t) = s
  BY ConcatSimplifications
<1>3. s # << >> => Last(t) = Last(s)
  <2>1. s # << >> => Len(s) \in 1 .. Len(s)
    BY <1>1, EmptySeq
  <2> QED
    BY <1>1, <2>1 DEF Last
<1> QED
  BY <1>1, <1>2, <1>3

\* What an input node works on: an NSH header in front of what is none, or none
\* at all.
LEMMA InputHeaders ==
  ASSUME HeadersTrue, NEW n \in InputNodes, NEW p, Known(n, p), Roomy(n, p),
         NEW x, x = Parse(n, p), NEW rest, rest = Advanced(x.pkt.hdrs, x.header_len)
  PROVE  /\ rest \in Seq(HeaderType) /\ rest # << >> /\ NoNsh(rest)
         /\ Last(rest) = Last(p.hdrs) /\ Last(x.pkt.hdrs) = Last(p.hdrs)
         /\ n # "nsh-input" => x.header_len = 0 /\ rest = x.pkt.hdrs
         /\ n = "nsh-input" => /\ x.pkt = p /\ x.header_len = p.hdrs[1].length
                               /\ x.header_len # 0 /\ rest = Tail(p.hdrs)
                               /\ p.hdrs[1].nsh /\ HeaderTrue(p.hdrs[1])
<1>1. n \in NodeTypes /\ n \in DOMAIN Arrivals /\ p \in Arrivals[n]
  BY DEF Known, InputNodes, NodeTypes
<1> DEFINE hdrs == p.hdrs
<1>2. /\ hdrs \in Seq(HeaderType) /\ hdrs # << >> /\ Len(hdrs) \in Nat /\ Len(hdrs) >= 1
      /\ Head(hdrs) = hdrs[1] /\ hdrs[1] \in HeaderType
      /\ hdrs[1].nsh => HeaderTrue(hdrs[1])
      /\ NoNsh(Tail(hdrs)) /\ (~hdrs[1].nsh => NoNsh(hdrs))
      /\ n = "nsh-input" => hdrs[1].nsh /\ Len(hdrs) >= 2
      /\ n # "nsh-input" => ~hdrs[1].nsh
  BY <1>1, ArrivalHeaders
<1> HIDE DEF hdrs
<1>3. /\ x.pkt = IF n = "nsh-aware-vnf-proxy" THEN PushHeader(p, DummyEth) ELSE p
      /\ n = "nsh-input" => x.header_len = Head(hdrs).length
      /\ n # "nsh-input" => x.header_len = 0
  <2>1. n # "nsh-pop"
    BY DEF InputNodes
  <2> QED
    BY <1>1, <2>1, ParseEffect DEF hdrs
<1>4. CASE n = "nsh-input"
  <2>1. x.pkt = p /\ x.header_len = hdrs[1].length /\ HeaderTrue(hdrs[1])
    BY <1>2, <1>3, <1>4
  <2>2. hdrs[1].length # 0
    <3>1. hdrs[1].tlvs \in Seq(Option)
      BY <1>2, HeaderParts
    <3>2. TlvBytes(hdrs[1].tlvs) \in Nat
      BY <3>1, TlvBytesType
    <3>3. hdrs[1].length = IF hdrs[1].md_type = 1 THEN MD1_HEADER_LEN
                           ELSE BASE_HEADER_LEN + TlvBytes(hdrs[1].tlvs)
      BY <2>1 DEF HeaderTrue
    <3> QED
      BY <3>2, <3>3 DEF MD1_HEADER_LEN, BASE_HEADER_LEN
  <2>3. rest = Tail(hdrs)
    BY <2>1, <2>2 DEF Advanced, hdrs
  <2>4. /\ rest \in Seq(HeaderType) /\ Len(rest) = Len(hdrs) - 1
        /\ Last(rest) = Last(hdrs)
    BY <1>2, <1>4, <2>3, TakeOff
  <2>5. rest # << >>
    <3>1. Len(rest) >= 1
      BY <1>2, <1>4, <2>4
    <3> QED
      BY <2>4, <3>1, NotEmpty
  <2> QED
    BY <1>2, <1>4, <2>1, <2>2, <2>3, <2>4, <2>5 DEF hdrs
<1>5. CASE n = "nsh-aware-vnf-proxy"
  <2>1. x.header_len = 0 /\ rest = x.pkt.hdrs /\ NoNsh(hdrs) /\ x.pkt = PushHeader(p, DummyEth)
    BY <1>2, <1>3, <1>5 DEF Advanced
  <2> DEFINE t == << DummyEth >> \o hdrs
  <2>2. x.pkt.hdrs = t
    <3>1. p \in PacketType
      BY DEF Roomy
    <3> QED
      BY <2>1, <3>1, DummyEthType, PushHeaderEffect DEF hdrs
  <2>3. DummyEth \in HeaderType /\ ~DummyEth.nsh
    BY DummyEthType DEF DummyEth
  <2>4. /\ t \in Seq(HeaderType) /\ Len(t) = Len(hdrs) + 1 /\ Last(t) = Last(hdrs)
    <3> DEFINE eth == DummyEth
               u == << eth >> \o hdrs
    <3>1. eth \in HeaderType /\ u = << eth >> \o hdrs
      BY <2>3
    <3>2. hdrs \in Seq(HeaderType) /\ hdrs # << >>
      BY <1>2
    <3> HIDE DEF eth, u, t
    <3>3. /\ u \in Seq(HeaderType) /\ Len(u) = Len(hdrs) + 1
          /\ hdrs # << >> => Last(u) = Last(hdrs)
      BY <3>1, <3>2, FirstHeader, Zenon
    <3> QED
      BY <3>2, <3>3 DEF u, eth, t
  <2>5. NoNsh(t)
    BY <1>2, <2>1, <2>3, InFrontOfNoNsh
  <2>6. t # << >>
    <3>1. Len(t) >= 1
      BY <1>2, <2>4
    <3> QED
      BY <2>4, <3>1, NotEmpty
  <2> HIDE DEF t
  <2> QED
    BY <1>5, <2>1, <2>2, <2>4, <2>5, <2>6 DEF hdrs
<1>6. CASE n \notin {"nsh-input", "nsh-aware-vnf-proxy"}
  <2>1. x.header_len = 0 /\ rest = x.pkt.hdrs /\ NoNsh(hdrs) /\ x.pkt = p
    BY <1>2, <1>3, <1>6 DEF Advanced
  <2> QED
    BY <1>2, <1>6, <2>1 DEF hdrs
<1> QED
  BY <1>4, <1>5, <1>6

\* What LengthsTrue says of a round.
LengthTrue(d) ==
  d.next # "error-drop" /\ Head(d.pkt.hdrs).nsh => HeaderTrue(Head(d.pkt.hdrs))

\* The rewrite of a true entry makes a true header.
LEMMA TrueHeader ==
  ASSUME NEW ents, EntriesOK(ents), NEW e \in DOMAIN ents, EntryTrue(ents, e),
         NEW h, h = NshHeader(ents, e)
  PROVE  HeaderTrue(h)
<1>1. /\ h.md_type = EntryArgs[e].md_type /\ h.bytes = ents[e].rewrite_size
      /\ h.length = ents[e].length /\ h.tlvs = ents[e].tlvs
  BY DEF NshHeader
<1>2. EntryArgs[e].md_type \in {1, 2}
  BY EntryArgsParts DEF EntriesOK
<1> QED
  BY <1>1, <1>2 DEF EntryTrue, HeaderTrue

\* LengthsTrue, of one packet.
LEMMA MadeLength ==
  ASSUME HeadersTrue, MetadataFits, NEW n \in NodeTypes, NEW p, Known(n, p), Roomy(n, p),
         NEW x, x = Parse(n, p), NEW ents, EntriesOK(ents), NEW cfg \in ConfigType,
         \A e \in DOMAIN ents : EntryTrue(ents, e),
         NEW r, Made(n, x, ents, cfg, r), NEW d, Tells(d, p, r)
  PROVE  LengthTrue(d)
<1>1. SUFFICES ASSUME r.next # "error-drop", Head(r.pkt.hdrs).nsh
               PROVE  HeaderTrue(Head(r.pkt.hdrs))
  BY DEF LengthTrue, Tells
<1>2. PICK rx_key :
        /\ n \in InputNodes /\ x.key \in DOMAIN Maps => RxInterface(rx_key) # NoInterface
        /\ Processed(n, x, rx_key, ents, cfg, r)
  BY <1>1 DEF Made
<1>3. ParsedOK(x) /\ (n # "nsh-aware-vnf-proxy" => x.pkt = p)
  BY ParseEffect
<1>4. FateOK(r)
  BY DEF Made
<1>5. CASE n \in {"nsh-pop", "nsh-adj-incomplete"}
  <2> DEFINE hdrs == p.hdrs
  <2>1. n \in DOMAIN Arrivals /\ p \in Arrivals[n] /\ x.pkt = p
    BY <1>3, <1>5 DEF Known
  <2>2. /\ Head(hdrs) = hdrs[1] /\ (hdrs[1].nsh => HeaderTrue(hdrs[1]))
        /\ \A i \in 2 .. Len(hdrs) : ~hdrs[i].nsh
        /\ Len(hdrs) \in Nat /\ (n = "nsh-pop" => Len(hdrs) >= 2)
    BY <2>1, ArrivalHeaders
  <2>3. CASE r.pkt = p
    BY <1>1, <2>2, <2>3
  <2>4. CASE r.pkt # p
    <3>1. n = "nsh-pop" /\ r.pkt = AdvanceBytes(p, x.header_len)
      BY <1>1, <1>2, <1>5, <2>1, <2>4 DEF Processed, PopOnly, Unmapped, OutputNodes
    <3>2. p \in PacketType /\ Len(p.hdrs) >= 2 /\ x.header_len \in Nat
      BY <1>3, <2>2, <3>1 DEF Roomy, ParsedOK
    <3>3. r.pkt.hdrs[1].nsh = p.hdrs[2].nsh
      BY <3>1, <3>2, AdvanceBytesEffect
    <3>4. 2 \in 2 .. Len(hdrs)
      BY <2>2, <3>1
    <3>5. ~r.pkt.hdrs[1].nsh
      BY <2>2, <3>3, <3>4
    <3>6. Head(r.pkt.hdrs) = r.pkt.hdrs[1]
      BY <1>4, PacketParts, TakeOff DEF FateOK
    <3> QED
      BY <1>1, <3>5, <3>6
  <2> QED
    BY <2>3, <2>4
<1>6. CASE n \in OutputNodes
  <2> DEFINE h == EthHeader(Adjacency[p.adj])
             t == << h >> \o p.hdrs
  <2>1. r.pkt.hdrs = t /\ p.adj \in DOMAIN Adjacency
    BY <1>1, <1>2, <1>3, <1>6 DEF Processed, Output, OutputNodes
  <2>2. h \in HeaderType /\ ~h.nsh /\ p.hdrs \in Seq(HeaderType)
    BY <2>1, AdjacencyParts, PacketParts DEF Roomy
  <2>3. Head(t) = h
    <3> HIDE DEF h
    <3> QED
      BY <2>2, FirstHeader
  <2> HIDE DEF t, h
  <2> QED
    BY <1>1, <2>1, <2>2, <2>3
<1>7. CASE n \notin OutputNodes \cup {"nsh-pop", "nsh-adj-incomplete"}
  <2> DEFINE rest == Advanced(x.pkt.hdrs, x.header_len)
             e == MappedOf(x)
  <2>1. n \in InputNodes
    BY <1>7 DEF NodeTypes, OutputNodes, InputNodes
  <2>2. x.key \in DOMAIN Maps /\ Mapped(x, rx_key, ents, cfg, r)
    BY <1>1, <1>2, <1>7 DEF Processed, Unmapped
  <2>3. /\ rest \in Seq(HeaderType) /\ rest # << >> /\ NoNsh(rest)
        /\ n # "nsh-input" => rest = x.pkt.hdrs
        /\ n = "nsh-input" => x.pkt = p /\ HeaderTrue(p.hdrs[1])
    BY <2>1, InputHeaders
  <2>4. ~Head(rest).nsh
    <3>1. Head(rest) = rest[1] /\ 1 \in DOMAIN rest
      BY <2>3, TakeOff
    <3> QED
      BY <2>3, <3>1 DEF NoNsh
  <2>5. Head(x.pkt.hdrs).nsh => HeaderTrue(Head(x.pkt.hdrs))
    <3>1. CASE n = "nsh-input"
      <4>1. Head(p.hdrs) = p.hdrs[1]
        BY PacketParts, TakeOff DEF Roomy
      <4> QED
        BY <2>3, <3>1, <4>1
    <3>2. CASE n # "nsh-input"
      BY <2>3, <2>4, <3>2
    <3> QED
      BY <3>1, <3>2
  <2>6. CASE Popped(x, rx_key, cfg, r) \/ Unchanged(x, r)
    <3>1. r.pkt.hdrs = rest \/ r.pkt.hdrs = x.pkt.hdrs
      BY <2>6 DEF Popped, Unchanged
    <3> QED
      BY <1>1, <2>4, <2>5, <3>1
  <2>7. CASE Swapped(x, ents, cfg, r) /\ e \in DOMAIN ents /\ Maps[x.key].nsh_action = "swap"
    <3> DEFINE new == r.entries
               h == NshHeader(new, e)
               t == << h >> \o rest
    <3>1. r.pkt.hdrs = t
      BY <2>7 DEF Swapped
    <3>2. EntriesOK(new) /\ DOMAIN new = DOMAIN ents
      BY <1>2, <1>4, <1>7, <2>2 DEF FateOK, Processed
    <3>3. \A f \in DOMAIN new : EntryTrue(new, f)
      BY StayTrue
    <3>4. e \in DOMAIN new /\ EntryTrue(new, e)
      BY <2>7, <3>2, <3>3
    <3> HIDE DEF new, e
    <3>5. h \in HeaderType /\ HeaderTrue(h)
      BY <3>2, <3>4, NshHeaderType, TrueHeader
    <3>6. Head(t) = h
      <4> HIDE DEF h, rest
      <4> QED
        BY <2>3, <3>5, FirstHeader
    <3> HIDE DEF t, h
    <3> QED
      BY <3>1, <3>5, <3>6
  <2>8. CASE Pushed(x, ents, cfg, r) /\ e \in DOMAIN ents
    <3> DEFINE h == NshHeader(ents, e)
               t == << h >> \o x.pkt.hdrs
    <3>1. r.pkt.hdrs = t
      BY <2>8 DEF Pushed
    <3> HIDE DEF e
    <3>2. h \in HeaderType /\ HeaderTrue(h)
      BY <2>8, NshHeaderType, TrueHeader
    <3>3. x.pkt.hdrs \in Seq(HeaderType)
      BY <1>3, TlvsType
    <3>4. Head(t) = h
      <4> HIDE DEF h
      <4> QED
        BY <3>2, <3>3, FirstHeader
    <3> HIDE DEF t, h
    <3> QED
      BY <3>1, <3>2, <3>4
  <2> QED
    BY <2>2, <2>6, <2>7, <2>8 DEF Mapped
<1> QED
  BY <1>5, <1>6, <1>7

\* What OwnMetadata says of a round.
OwnOnly(n, d, cfg) ==
  LET old == Head(d.was.hdrs)
      new == Head(d.pkt.hdrs)
  IN  (n = "nsh-input" /\ d.error = "none"
         /\ Maps[Parse(n, d.was).key].nsh_action = "swap" /\ old.md_type = 2)
      => ToSet(new.tlvs) = IF cfg.profile THEN ToSet(old.tlvs) \cap Registered ELSE {}

\* OwnMetadata, of one packet.
LEMMA MadeOwn ==
  ASSUME HeadersTrue, NEW n \in NodeTypes, NEW p, Known(n, p), Roomy(n, p),
         NEW x, x = Parse(n, p), NEW ents, EntriesOK(ents), NEW cfg \in ConfigType,
         NEW r, Made(n, x, ents, cfg, r), NEW d, Tells(d, p, r)
  PROVE  OwnOnly(n, d, cfg)
<1> DEFINE old == Head(p.hdrs)
           new == Head(r.pkt.hdrs)
           e == MappedOf(x)
<1>1. SUFFICES ASSUME n = "nsh-input", r.error = "none", Maps[x.key].nsh_action = "swap",
                      old.md_type = 2
               PROVE  ToSet(new.tlvs) = IF cfg.profile THEN ToSet(old.tlvs) \cap Registered
                                        ELSE {}
  BY DEF OwnOnly, Tells
<1>2. n \in InputNodes /\ n \notin OutputNodes \cup {"nsh-pop", "nsh-adj-incomplete"}
  BY <1>1 DEF InputNodes, OutputNodes
<1>3. PICK rx_key : Processed(n, x, rx_key, ents, cfg, r)
  BY <1>1 DEF Made
<1>4. x.key \in DOMAIN Maps /\ Mapped(x, rx_key, ents, cfg, r)
  BY <1>1, <1>2, <1>3 DEF Processed, Unmapped
<1>5. e \in DOMAIN ents /\ Swapped(x, ents, cfg, r)
  BY <1>1, <1>4 DEF Mapped, Unchanged
<1> DEFINE rest == Advanced(x.pkt.hdrs, x.header_len)
<1>6. rest \in Seq(HeaderType) /\ x.pkt = p /\ x.header_len # 0
  BY <1>1, <1>2, InputHeaders
<1>7. TlvsOf(x) = old.tlvs /\ IsMd2(x)
  BY <1>1, <1>6 DEF TlvsOf, Tlvs, IsMd2
<1>8. old.tlvs \in Seq(Option)
  <2>1. old \in HeaderType
    BY PacketParts, TakeOff DEF Roomy
  <2> QED
    BY <2>1, HeaderParts
<1> DEFINE kept == Understood(old.tlvs, cfg.profile)
           h == NshHeader(r.entries, e)
<1>9. cfg.profile \in BOOLEAN
  BY DEF ConfigType
<1>10. kept \in Seq(Option)
       /\ ToSet(kept) = IF cfg.profile THEN ToSet(old.tlvs) \cap Registered ELSE {}
  BY <1>8, <1>9, UnderstoodLemma
<1>11. r.entries = Refill(ents, e, kept)
  BY <1>5, <1>7 DEF Swapped, SwapEntries
<1>12. EntriesOK(r.entries) /\ e \in DOMAIN r.entries /\ r.entries[e].tlvs = kept
  <2> HIDE DEF e, kept
  <2>1. EntriesOK(r.entries) /\ DOMAIN r.entries = DOMAIN ents
        /\ r.entries[e] = Rewrite(kept, BASE_HEADER_LEN + TlvBytes(kept))
    BY <1>5, <1>10, <1>11, RefillEffect
  <2> QED
    BY <1>5, <2>1 DEF Rewrite
<1>13. h \in HeaderType /\ h.tlvs = kept
  <2> HIDE DEF e, kept
  <2>1. h \in HeaderType
    BY <1>12, NshHeaderType
  <2> QED
    BY <1>12, <2>1 DEF NshHeader
<1>14. r.pkt.hdrs = << h >> \o rest
  BY <1>5 DEF Swapped
<1>15. new = h
  <2> HIDE DEF h, rest
  <2> QED
    BY <1>6, <1>13, <1>14, FirstHeader
<1> HIDE DEF h, kept, new
<1> QED
  BY <1>10, <1>13, <1>15

\* How many NSH headers there are.
NshCount(hdrs) == Cardinality({i \in DOMAIN hdrs : hdrs[i].nsh})

\* NSH headers are counted: none,
LEMMA CountNone ==
  ASSUME NEW hdrs, NoNsh(hdrs)
  PROVE  NshCount(hdrs) = 0
<1>1. {i \in DOMAIN hdrs : hdrs[i].nsh} = {}
  BY DEF NoNsh
<1> QED
  BY <1>1, FS_EmptySet DEF NshCount

\* the first alone,
LEMMA CountFirst ==
  ASSUME NEW hdrs \in Seq(HeaderType), Len(hdrs) >= 1, hdrs[1].nsh,
         \A i \in 2 .. Len(hdrs) : ~hdrs[i].nsh
  PROVE  NshCount(hdrs) = 1
<1>1. Len(hdrs) \in Nat /\ DOMAIN hdrs = 1 .. Len(hdrs)
  OBVIOUS
<1>2. \A i \in 1 .. Len(hdrs) : i = 1 \/ i \in 2 .. Len(hdrs)
  BY <1>1
<1>3. 1 \in 1 .. Len(hdrs)
  BY <1>1
<1>4. {i \in DOMAIN hdrs : hdrs[i].nsh} = {1}
  BY <1>1, <1>2, <1>3, Zenon
<1> QED
  BY <1>4, FS_Singleton DEF NshCount

\* one that was put in front of others,
LEMMA CountInFront ==
  ASSUME NEW h \in HeaderType, NEW s \in Seq(HeaderType), NoNsh(s), h.nsh,
         NEW t, t = << h >> \o s
  PROVE  NshCount(t) = 1
<1>1. /\ t \in Seq(HeaderType) /\ Len(t) = Len(s) + 1 /\ t[1] = h
      /\ \A i \in 1 .. Len(s) : t[i + 1] = s[i]
  BY FirstHeader
<1>2. ASSUME NEW i \in 2 .. Len(t)
      PROVE  ~t[i].nsh
  <2>1. Len(s) \in Nat /\ i - 1 \in 1 .. Len(s) /\ (i - 1) + 1 = i /\ DOMAIN s = 1 .. Len(s)
    BY <1>1
  <2>2. t[i] = s[i - 1]
    BY <1>1, <2>1
  <2> QED
    BY <2>1, <2>2 DEF NoNsh
<1>3. Len(t) >= 1
  <2>1. Len(s) \in Nat
    OBVIOUS
  <2> QED
    BY <1>1, <2>1
<1> QED
  BY <1>1, <1>2, <1>3, CountFirst

\* Headers that are none of NSH do not count.
LEMMA CountBehind ==
  ASSUME NEW h \in HeaderType, NEW s \in Seq(HeaderType), ~h.nsh,
         NEW t, t = << h >> \o s
  PROVE  NshCount(t) = NshCount(s)
<1> DEFINE S == {i \in DOMAIN s : s[i].nsh}
           T == {i \in DOMAIN t : t[i].nsh}
           f == [i \in S |-> i + 1]
<1>1. /\ t \in Seq(HeaderType) /\ Len(t) = Len(s) + 1 /\ t[1] = h /\ Len(s) \in Nat
      /\ \A i \in 1 .. Len(s) : t[i + 1] = s[i]
  BY FirstHeader
<1>2. DOMAIN s = 1 .. Len(s) /\ DOMAIN t = 1 .. Len(s) + 1
  BY <1>1
<1>3. ASSUME NEW i \in S
      PROVE  i + 1 \in T
  <2>1. i \in 1 .. Len(s) /\ s[i].nsh
    BY <1>2
  <2>2. i + 1 \in 1 .. Len(s) + 1
    BY <1>1, <2>1
  <2> QED
    BY <1>1, <1>2, <2>1, <2>2
<1>4. ASSUME NEW j \in T
      PROVE  j - 1 \in S /\ (j - 1) + 1 = j
  <2>1. j \in 1 .. Len(s) + 1 /\ t[j].nsh
    BY <1>2
  <2>2. j # 1
    BY <1>1, <2>1
  <2>3. j - 1 \in 1 .. Len(s) /\ (j - 1) + 1 = j
    BY <1>1, <2>1, <2>2
  <2>4. t[j] = s[j - 1]
    BY <1>1, <2>3
  <2> QED
    BY <1>2, <2>1, <2>3, <2>4
<1>5. IsFiniteSet(S)
  <2>1. IsFiniteSet(1 .. Len(s))
    BY <1>1, FS_Interval
  <2>2. S \subseteq 1 .. Len(s)
    BY <1>2
  <2> QED
    BY <2>1, <2>2, FS_Subset
<1>6. f \in Bijection(S, T)
  <2>1. f \in [S -> T]
    BY <1>3
  <2>2. ASSUME NEW i \in S, NEW j \in S, f[i] = f[j]
        PROVE  i = j
    <3>1. i + 1 = j + 1
      BY <2>2
    <3>2. i \in Nat /\ j \in Nat
      BY <1>1, <1>2
    <3> QED
      BY <3>1, <3>2
  <2>3. ASSUME NEW j \in T
        PROVE  \E i \in S : f[i] = j
    <3>1. j - 1 \in S /\ f[j - 1] = j
      BY <1>4
    <3> QED
      BY <3>1
  <2> HIDE DEF f, S, T
  <2>4. f \in Injection(S, T)
    <3>1. DOMAIN f = S
      BY <2>1
    <3> QED
      BY <2>1, <2>2, <3>1 DEF Injection, IsInjective
  <2>5. f \in Surjection(S, T)
    BY <2>1, <2>3 DEF Surjection
  <2> QED
    BY <2>4, <2>5 DEF Bijection
<1> HIDE DEF f, S, T
<1>7. Cardinality(T) = Cardinality(S)
  <2>1. ExistsBijection(S, T)
    BY <1>6 DEF ExistsBijection
  <2> QED
    BY <1>5, <2>1, FS_Bijection
<1> QED
  BY <1>7 DEF NshCount, S, T

\* The payload stays last when a header is put in front.
LEMMA LastInFront ==
  ASSUME NEW h \in HeaderType, NEW s \in Seq(HeaderType), s # << >>, NEW t, t = << h >> \o s
  PROVE  Last(t) = Last(s)
BY FirstHeader

\* What OneHeader says of a round.
OneNsh(n, d) ==
  d.error = "none" =>
    /\ Last(d.pkt.hdrs) = Last(d.was.hdrs)
    /\ NshHeaders(d.pkt) =
         IF n \in OutputNodes \cup {"nsh-adj-incomplete"} THEN NshHeaders(d.was)
         ELSE IF Maps[Parse(n, d.was).key].nsh_action = "pop" /\ d.next # "ioam-export"
           THEN 0 ELSE 1

\* OneHeader, of one packet.
LEMMA MadeOne ==
  ASSUME HeadersTrue, NoSecondHeader, ExportsTrue,
         NEW n \in NodeTypes, NEW p, Known(n, p), Roomy(n, p),
         NEW x, x = Parse(n, p), NEW ents, EntriesOK(ents), NEW cfg \in ConfigType,
         NEW r, Made(n, x, ents, cfg, r), NEW d, Tells(d, p, r)
  PROVE  OneNsh(n, d)
<1> DEFINE popped == Maps[x.key].nsh_action = "pop" /\ r.next # "ioam-export"
<1>1. SUFFICES ASSUME r.error = "none"
               PROVE  /\ Last(r.pkt.hdrs) = Last(p.hdrs)
                      /\ NshCount(r.pkt.hdrs) =
                           IF n \in OutputNodes \cup {"nsh-adj-incomplete"}
                             THEN NshCount(p.hdrs)
                           ELSE IF popped THEN 0 ELSE 1
  BY DEF OneNsh, Tells, NshHeaders, NshCount
<1>2. PICK rx_key :
        /\ n \in InputNodes /\ x.key \in DOMAIN Maps => RxInterface(rx_key) # NoInterface
        /\ Processed(n, x, rx_key, ents, cfg, r)
  BY <1>1 DEF Made
<1>3. /\ ParsedOK(x) /\ (n # "nsh-aware-vnf-proxy" => x.pkt = p)
      /\ n = "nsh-input" => x.key = Head(p.hdrs).path
      /\ n = "nsh-pop" => /\ x.key = Head(p.hdrs).path
                          /\ x.header_len = Head(p.hdrs).length + 256 * (Head(p.hdrs).ttl % 4)
  BY ParseEffect
<1>4. FateOK(r)
  BY DEF Made
<1>5. p.hdrs \in Seq(HeaderType) /\ p.hdrs # << >> /\ p \in PacketType
  BY PacketParts, NotEmpty DEF Roomy
<1>6. CASE n = "nsh-adj-incomplete"
  BY <1>2, <1>3, <1>6 DEF Processed, OutputNodes
<1>7. CASE n \in OutputNodes
  <2>1. Output(n, p, r)
    BY <1>2, <1>3, <1>7 DEF Processed, OutputNodes
  <2>2. CASE r.pkt = p
    BY <1>7, <2>2
  <2>3. CASE r.pkt # p
    <3> DEFINE h == EthHeader(Adjacency[p.adj])
               t == << h >> \o p.hdrs
    <3>1. r.pkt.hdrs = t /\ p.adj \in DOMAIN Adjacency
      BY <2>1, <2>3 DEF Output
    <3>2. h \in HeaderType /\ ~h.nsh
      BY <3>1, AdjacencyParts
    <3>3. t = << h >> \o p.hdrs
      OBVIOUS
    <3> HIDE DEF h, t
    <3>4. Last(t) = Last(p.hdrs)
      BY <1>5, <3>2, <3>3, LastInFront, Zenon
    <3>5. NshCount(t) = NshCount(p.hdrs)
      BY <1>5, <3>2, <3>3, CountBehind, Zenon
    <3> QED
      BY <1>5, <1>7, <3>1, <3>4, <3>5
  <2> QED
    BY <2>2, <2>3
<1>8. CASE n = "nsh-pop"
  <2>1. n \in DOMAIN Arrivals /\ p \in Arrivals[n] /\ x.pkt = p /\ PopOnly(x, ents, r)
    BY <1>2, <1>3, <1>8, PoppedPath DEF Processed, OutputNodes
  <2> DEFINE h == Head(p.hdrs)
  <2>2. /\ h.path \in DOMAIN Maps /\ Maps[h.path].nsh_action = "pop"
        /\ h.ttl % 4 = 0 /\ h.bytes = h.length /\ h.length > 0
    BY <1>8, <2>1 DEF ExportsTrue
  <2>3. h.length \in Nat
    BY <1>5, TakeOff, HeaderParts
  <2>4. x.header_len = h.bytes /\ x.header_len \in Nat
    BY <1>3, <1>8, <2>2, <2>3
  <2>5. r.pkt = AdvanceBytes(p, x.header_len) /\ r.next = NextOf(x)
        /\ x.key = h.path
    BY <1>1, <1>3, <1>8, <2>1, <2>2 DEF PopOnly
  <2>6. Len(p.hdrs) >= 2
    BY <1>8 DEF Roomy
  <2>7. r.pkt.hdrs = Tail(p.hdrs)
    BY <1>5, <2>4, <2>5, <2>6, AdvanceBytesEffect
  <2>8. Last(Tail(p.hdrs)) = Last(p.hdrs)
    BY <1>5, <2>6, TakeOff
  <2>9. NshCount(Tail(p.hdrs)) = 0
    <3>1. NoNsh(Tail(p.hdrs))
      BY <2>1, ArrivalHeaders
    <3> QED
      BY <3>1, CountNone
  <2>10. r.next # "ioam-export"
    BY <2>2, <2>5, MapParts DEF NextOf, MapNextNodes
  <2>11. n \notin OutputNodes \cup {"nsh-adj-incomplete"}
    BY <1>8 DEF OutputNodes
  <2> QED
    BY <2>2, <2>5, <2>7, <2>8, <2>9, <2>10, <2>11
<1>9. CASE n \notin OutputNodes \cup {"nsh-pop", "nsh-adj-incomplete"}
  <2> DEFINE rest == Advanced(x.pkt.hdrs, x.header_len)
             e == MappedOf(x)
  <2>1. n \in InputNodes
    BY <1>9 DEF NodeTypes, OutputNodes, InputNodes
  <2>2. x.key \in DOMAIN Maps /\ Mapped(x, rx_key, ents, cfg, r)
    BY <1>1, <1>2, <1>9 DEF Processed, Unmapped
  <2>3. /\ rest \in Seq(HeaderType) /\ rest # << >> /\ NoNsh(rest)
        /\ Last(rest) = Last(p.hdrs) /\ Last(x.pkt.hdrs) = Last(p.hdrs)
        /\ n # "nsh-input" => x.header_len = 0 /\ rest = x.pkt.hdrs
        /\ n = "nsh-input" => x.pkt = p /\ p.hdrs[1].nsh
    BY <2>1, InputHeaders
  <2>4. NshCount(rest) = 0
    BY <2>3, CountNone
  <2>5. CASE Maps[x.key].nsh_action = "pop" /\ r.next # "ioam-export"
    <3>1. Popped(x, rx_key, cfg, r)
      BY <2>2, <2>5 DEF Mapped
    <3>2. r.pkt.hdrs = rest
      BY <1>1, <1>2, <2>1, <2>2, <2>5, <3>1 DEF Popped
    <3> QED
      BY <1>9, <2>3, <2>4, <2>5, <3>2
  <2>6. CASE Maps[x.key].nsh_action = "pop" /\ r.next = "ioam-export"
    <3>1. Popped(x, rx_key, cfg, r)
      BY <2>2, <2>6 DEF Mapped
    <3>2. NextOf(x) # "ioam-export"
      BY <2>2, MapParts DEF NextOf, MapNextNodes
    <3>3. r.pkt.hdrs = x.pkt.hdrs /\ TlvsOf(x) # << >>
      BY <1>1, <1>2, <2>1, <2>2, <2>6, <3>1, <3>2 DEF Popped
    <3>4. n = "nsh-input"
      BY <2>3, <3>3 DEF TlvsOf, Tlvs
    <3>5. NshCount(p.hdrs) = 1
      <4>1. n \in DOMAIN Arrivals /\ p \in Arrivals[n]
        BY <3>4 DEF Known
      <4>2. \A i \in 2 .. Len(p.hdrs) : ~p.hdrs[i].nsh
        BY <4>1, ArrivalHeaders
      <4>3. Len(p.hdrs) >= 1
        BY <1>5, NotEmpty
      <4> QED
        BY <1>5, <2>3, <3>4, <4>2, <4>3, CountFirst
    <3> QED
      BY <1>9, <2>3, <2>6, <3>3, <3>4, <3>5
  <2>7. CASE Maps[x.key].nsh_action # "pop"
    <3>1. \/ Swapped(x, ents, cfg, r) /\ e \in DOMAIN ents
          \/ /\ Pushed(x, ents, cfg, r) /\ e \in DOMAIN ents
             /\ Maps[x.key].nsh_action = "push"
      BY <1>1, <2>2, <2>7 DEF Mapped, Unchanged
    <3>2. PICK h \in HeaderType : h.nsh /\ r.pkt.hdrs = << h >> \o rest
      <4>1. CASE Swapped(x, ents, cfg, r) /\ e \in DOMAIN ents
        <5>1. EntriesOK(r.entries) /\ DOMAIN r.entries = DOMAIN ents
          BY <1>2, <1>4, <1>9, <2>2 DEF FateOK, Processed
        <5> DEFINE h == NshHeader(r.entries, e)
        <5>2. h \in HeaderType /\ h.nsh
          <6> HIDE DEF e
          <6> QED
            BY <4>1, <5>1, NshHeaderType
        <5>3. r.pkt.hdrs = << h >> \o rest
          BY <4>1 DEF Swapped
        <5> HIDE DEF h
        <5> QED
          BY <5>2, <5>3
      <4>2. CASE /\ Pushed(x, ents, cfg, r) /\ e \in DOMAIN ents
                 /\ Maps[x.key].nsh_action = "push"
        <5> DEFINE h == NshHeader(ents, e)
        <5>1. h \in HeaderType /\ h.nsh
          <6> HIDE DEF e
          <6> QED
            BY <4>2, NshHeaderType
        <5>2. r.pkt.hdrs = << h >> \o x.pkt.hdrs
          BY <4>2 DEF Pushed
        <5>3. n # "nsh-input"
          <6>1. SUFFICES ASSUME n = "nsh-input"
                         PROVE  FALSE
            OBVIOUS
          <6>2. n \in DOMAIN Arrivals /\ p \in Arrivals[n]
            BY <6>1 DEF Known
          <6>3. Maps[Head(p.hdrs).path].nsh_action # "push"
            BY <1>3, <2>2, <6>1, <6>2 DEF NoSecondHeader
          <6> QED
            BY <1>3, <4>2, <6>1, <6>3
        <5> HIDE DEF h
        <5> QED
          BY <2>3, <5>1, <5>2, <5>3
      <4> QED
        BY <3>1, <4>1, <4>2
    <3> DEFINE t == << h >> \o rest
    <3>3. t = << h >> \o rest /\ r.pkt.hdrs = t
      BY <3>2
    <3> HIDE DEF rest, t
    <3>4. Last(t) = Last(rest)
      BY <2>3, <3>2, <3>3, LastInFront, Zenon
    <3>5. NshCount(t) = 1
      BY <2>3, <3>2, <3>3, CountInFront, Zenon
    <3> QED
      BY <1>9, <2>3, <2>7, <3>3, <3>4, <3>5
  <2> QED
    BY <2>5, <2>6, <2>7
<1> QED
  BY <1>6, <1>7, <1>8, <1>9

\* A packet that was handled undisturbed, and the entries it leaves.
Good(n, d, cfg) ==
  /\ Known(n, d.was)
  /\ HeadersTrue /\ MetadataFits => LengthTrue(d)
  /\ HeadersTrue => OwnOnly(n, d, cfg)
  /\ HeadersTrue /\ NoSecondHeader /\ ExportsTrue => OneNsh(n, d)

\* A packet that is handled undisturbed is good, and leaves good entries.
LEMMA MadeGood ==
  ASSUME NEW n \in NodeTypes, NEW p, Known(n, p), Roomy(n, p),
         NEW x, x = Parse(n, p), NEW ents, EntriesOK(ents), NEW cfg \in ConfigType,
         EntriesTrue(ents),
         NEW r, Made(n, x, ents, cfg, r), NEW d, Tells(d, p, r)
  PROVE  /\ Good(n, d, cfg)
         /\ EntriesOK(r.entries) /\ EntriesTrue(r.entries)
<1>2. HeadersTrue /\ MetadataFits => LengthTrue(d)
  <2>1. SUFFICES ASSUME HeadersTrue, MetadataFits
                 PROVE  LengthTrue(d)
    OBVIOUS
  <2>2. \A e \in DOMAIN ents : EntryTrue(ents, e)
    BY <2>1 DEF EntriesTrue
  <2> QED
    BY <2>1, <2>2, MadeLength
<1>3. HeadersTrue => OwnOnly(n, d, cfg)
  BY MadeOwn
<1>4. HeadersTrue /\ NoSecondHeader /\ ExportsTrue => OneNsh(n, d)
  BY MadeOne
<1>5. Known(n, d.was)
  BY DEF Tells
<1>6. EntriesTrue(r.entries)
  <2>1. SUFFICES ASSUME MetadataFits
                 PROVE  \A e \in DOMAIN r.entries : EntryTrue(r.entries, e)
    BY DEF EntriesTrue
  <2>2. \A e \in DOMAIN ents : EntryTrue(ents, e)
    BY <2>1 DEF EntriesTrue
  <2> QED
    BY <2>1, <2>2, StayTrue
<1>9. EntriesOK(r.entries)
  BY DEF Made, FateOK
<1> QED
  BY <1>2, <1>3, <1>4, <1>5, <1>6, <1>9 DEF Good

\* The packets of a frame and of the last round, and the entries they find.
RoundInv ==
  /\ \A i \in DOMAIN from : Known(node, from[i])
  /\ Len(from) <= MaxFrame \/ (node = "nsh-eth-output" /\ Len(from) <= 2)
  /\ \A i \in DOMAIN done : Good(node, done[i], ioam)
  /\ EntriesTrue(nsh_entries)

\* An entry as it was added.
LEMMA NewEntry ==
  ASSUME NEW ents, NEW e \in DOMAIN EntryArgs, NEW cfg \in ConfigType,
         ents[e] = nsh_header_rewrite(e, cfg.profile)
  PROVE  /\ MetadataFits => EntryTrue(ents, e)
         /\ EntryArgs[e].md_type = 2 => EntryReady(ents, e, cfg)
<1> DEFINE args == EntryArgs[e].tlvs
           kept == Understood(args, cfg.profile)
<1>1. args \in Seq(Option) /\ EntryArgs[e].md_type \in {1, 2} /\ cfg.profile \in BOOLEAN
  BY EntryArgsParts DEF ConfigType
<1> HIDE DEF args
<1>2. kept \in Seq(Option) /\ TlvBytes(kept) <= TlvBytes(args)
  BY <1>1, UnderstoodLemma
<1>3. TlvBytes(kept) \in Nat /\ TlvBytes(args) \in Nat
  BY <1>1, <1>2, TlvBytesType
<1>4. ents[e].tlvs = IF EntryArgs[e].md_type = 1 THEN << >> ELSE kept
  BY DEF nsh_header_rewrite, Rewrite, args
<1>5. EntryArgs[e].md_type = 2 => EntryReady(ents, e, cfg)
  <2>1. SUFFICES ASSUME EntryArgs[e].md_type = 2
                 PROVE  EntryReady(ents, e, cfg)
    OBVIOUS
  <2>2. Handled(e, cfg) = Len(kept) /\ ents[e].tlvs = kept
    BY <1>4, <2>1 DEF Handled, args
  <2>3. Len(kept) \in Nat
    BY <1>2
  <2> HIDE DEF kept
  <2> QED
    BY <2>2, <2>3 DEF EntryReady
<1>6. CASE EntryArgs[e].md_type = 1
  <2>1. ents[e] = Rewrite(<< >>, MD1_HEADER_LEN)
    BY <1>6 DEF nsh_header_rewrite
  <2>2. ents[e].rewrite_size = MD1_HEADER_LEN /\ ents[e].length = MD1_HEADER_LEN
    BY <2>1 DEF Rewrite, MD1_HEADER_LEN
  <2> QED
    BY <1>5, <1>6, <2>2 DEF EntryTrue
<1>7. CASE EntryArgs[e].md_type = 2
  <2>1. ents[e] = Rewrite(kept, BASE_HEADER_LEN + TlvBytes(kept))
    BY <1>7 DEF nsh_header_rewrite, args
  <2>2. SUFFICES ASSUME MetadataFits
                 PROVE  EntryTrue(ents, e)
    BY <1>5
  <2>3. BASE_HEADER_LEN + TlvBytes(args) < MAX_NSH_HEADER_LEN
    BY <1>7, <2>2 DEF MetadataFits, args
  <2> HIDE DEF kept
  <2>4. BASE_HEADER_LEN + TlvBytes(kept) < MAX_NSH_HEADER_LEN
    BY <1>2, <1>3, <2>3 DEF BASE_HEADER_LEN, MAX_NSH_HEADER_LEN
  <2>5. /\ ents[e].rewrite_size = BASE_HEADER_LEN + TlvBytes(kept)
        /\ ents[e].length = BASE_HEADER_LEN + TlvBytes(kept)
        /\ ents[e].tlvs = kept
    BY <1>2, <2>1, <2>4, RewriteTrue
  <2> QED
    BY <1>7, <2>5 DEF EntryTrue
<1> QED
  BY <1>1, <1>6, <1>7

\* An entry that did not change is as good as it was.
LEMMA SameEntry ==
  ASSUME NEW ents, NEW new, NEW e, new[e] = ents[e]
  PROVE  /\ EntryTrue(ents, e) => EntryTrue(new, e)
         /\ \A cfg : EntryReady(ents, e, cfg) => EntryReady(new, e, cfg)
BY DEF EntryTrue, EntryReady

\* Entries that come, as they are added, and entries that go.
LEMMA OtherEntries ==
  ASSUME NEW ents, EntriesTrue(ents), NEW cfg \in ConfigType, NEW new, DOMAIN new \subseteq DOMAIN EntryArgs,
         \A e \in DOMAIN new : \/ e \in DOMAIN ents /\ new[e] = ents[e]
                               \/ new[e] = nsh_header_rewrite(e, cfg.profile)
  PROVE  EntriesTrue(new)
<1>1. ASSUME MetadataFits, NEW e \in DOMAIN new
      PROVE  EntryTrue(new, e)
  <2>1. CASE e \in DOMAIN ents /\ new[e] = ents[e]
    BY <1>1, <2>1, SameEntry DEF EntriesTrue
  <2>2. CASE new[e] = nsh_header_rewrite(e, cfg.profile)
    BY <1>1, <2>2, NewEntry
  <2> QED
    BY <2>1, <2>2
<1> QED
  BY <1>1 DEF EntriesTrue

\* The entries of the initial states are good, as they were added.
LEMMA InitRound == Init => RoundInv
<1> SUFFICES ASSUME Init
             PROVE  RoundInv
  OBVIOUS
<1>1. from = << >> /\ done = << >> /\ fault = "none" /\ ioam \in ConfigType
      /\ nsh_entries = [e \in DOMAIN EntryArgs |-> nsh_header_rewrite(e, ioam.profile)]
  BY FrameAssumption DEF Init, ConfigType
<1> DEFINE none == [e \in {} |-> nsh_header_rewrite(e, ioam.profile)]
<1>2. DOMAIN none = {}
  OBVIOUS
<1>3. EntriesTrue(none)
  <2> HIDE DEF none
  <2> QED
    BY <1>2 DEF EntriesTrue
<1>4. DOMAIN nsh_entries = DOMAIN EntryArgs
      /\ \A e \in DOMAIN nsh_entries : nsh_entries[e] = nsh_header_rewrite(e, ioam.profile)
  BY <1>1
<1>5. EntriesTrue(nsh_entries)
  <2> HIDE DEF none
  <2> QED
    BY <1>1, <1>3, <1>4, OtherEntries
<1>6. Len(from) <= MaxFrame /\ DOMAIN from = {} /\ DOMAIN done = {}
  BY <1>1, FrameAssumption
<1> QED
  BY <1>1, <1>5, <1>6 DEF RoundInv

\* The effect of a round on the packets of its frame, and on the entries.
OnePacket ==
  \E r :
    /\ from # << >> /\ from' = Tail(from)
    /\ Made(node, Parse(node, from[1]), nsh_entries, ioam, r)
    /\ Len(done') = 1 /\ DOMAIN done' = {1} /\ Tells(done'[1], from[1], r)
    /\ nsh_entries' = r.entries /\ fault' = r.fault
    /\ UNCHANGED << node, ioam >>

TwoPackets ==
  \E r0, r1 :
    /\ Len(from) >= 4 /\ from' = SubSeq(from, 3, Len(from))
    /\ Made(node, Parse(node, from[1]), nsh_entries, ioam, r0)
    /\ Made(node, Parse(node, from[2]), r0.entries, ioam, r1)
    /\ Len(done') = 2 /\ DOMAIN done' = {1, 2}
    /\ Tells(done'[1], from[1], r0) /\ Tells(done'[2], from[2], r1)
    /\ nsh_entries' = r1.entries /\ fault' = FirstFault(r0, r1)
    /\ UNCHANGED << node, ioam >>

\* The single loop handles one packet,
LEMMA SingleRound ==
  ASSUME TypeInv, SingleLoop
  PROVE  OnePacket
<1> DEFINE p == from[1]
           x == Parse(node, p)
           r == SinglePacket(node, p, nsh_entries, ioam)
           d == Round(p, "single", r)
<1>1. /\ node \in NodeTypes /\ EntriesOK(nsh_entries) /\ ioam \in ConfigType
      /\ from \in Seq(PacketType) /\ Len(from) \in Nat
      /\ \A i \in 1 .. Len(from) : Roomy(node, from[i]) /\ from[i] \in PacketType
  BY RoundFinds
<1>2. from # << >>
  BY DEF SingleLoop, SingleGuard
<1>3. Roomy(node, p)
  BY <1>1, <1>2, NotEmpty
<1>4. /\ done' = << d >> /\ nsh_entries' = r.entries /\ fault' = r.fault
      /\ from' = Tail(from) /\ node' = node /\ ioam' = ioam
  BY DEF SingleLoop
<1>5. x = Parse(node, p) /\ r = SinglePacket(node, p, nsh_entries, ioam)
  OBVIOUS
<1>6. Tells(d, p, r)
  BY DEF Tells, Round
<1> HIDE DEF p, r, x, d
<1>7. /\ FateOK(r)
      /\ x.error = "none" => Processed(node, x, x.key, nsh_entries, ioam, r)
      /\ x.error # "none" => /\ r.pkt = x.pkt /\ r.next = "error-drop" /\ r.error = x.error
                             /\ r.entries = nsh_entries /\ r.fault = "none"
  <2>1. FateOK(r)
    BY <1>1, <1>3, <1>5, SingleEffect
  <2>2. x.error = "none" => Processed(node, x, x.key, nsh_entries, ioam, r)
    BY <1>1, <1>3, <1>5, SingleEffect
  <2>3. x.error # "none" => /\ r.pkt = x.pkt /\ r.next = "error-drop" /\ r.error = x.error
                            /\ r.entries = nsh_entries /\ r.fault = "none"
    <3>1. SUFFICES ASSUME x.error # "none"
                   PROVE  /\ r.pkt = x.pkt /\ r.next = "error-drop" /\ r.error = x.error
                          /\ r.entries = nsh_entries /\ r.fault = "none"
      OBVIOUS
    <3>2. r = Fate(x.pkt, "error-drop", x.error, nsh_entries, "none")
      BY <1>5, <3>1 DEF SinglePacket
    <3> QED
      BY <3>2 DEF Fate
  <2> QED
    BY <2>1, <2>2, <2>3
<1>8. x.key \in DOMAIN Maps => RxInterface(x.key) # NoInterface
  BY MapParts
<1>9. Made(node, x, nsh_entries, ioam, r)
  BY <1>7, <1>8 DEF Made
<1>10. Len(done') = 1 /\ DOMAIN done' = {1} /\ done'[1] = d
  BY <1>4
<1> QED
  BY <1>2, <1>4, <1>6, <1>9, <1>10 DEF OnePacket, x, p

\* The first two packets of a frame the dual loop takes have a key and a map.
LEMMA PairUndisturbed ==
  ASSUME Undisturbed, TypeInv, RoundInv, DualGuard, NEW i \in {1, 2},
         NEW x, x = Parse(node, from[i])
  PROVE  /\ Known(node, from[i]) /\ x.error = "none"
         /\ node \in InputNodes => x.key \in DOMAIN Maps
<1>1. Len(from) >= 4 /\ Len(from) \in Nat /\ DOMAIN from = 1 .. Len(from)
  BY RoundFinds DEF DualGuard
<1>2. Known(node, from[i])
  <2>1. i \in DOMAIN from
    BY <1>1
  <2> QED
    BY <2>1 DEF RoundInv
<1>3. CASE node = "nsh-eth-output"
  <2>1. node \in NodeTypes /\ Roomy(node, from[i])
    BY DualFinds
  <2> DEFINE p == from[i]
  <2>2. x = Parse(node, p)
    OBVIOUS
  <2> HIDE DEF p
  <2>3. node \in NodeTypes /\ Roomy(node, p)
    BY <2>1 DEF p
  <2>4. node \notin {"nsh-input", "nsh-proxy"} => x.error = "none"
    BY <2>2, <2>3, ParseEffect
  <2> QED
    BY <1>2, <1>3, <2>4 DEF InputNodes
<1>4. CASE node # "nsh-eth-output"
  <2>1. ~(MaxFrame < 4)
    BY <1>1, <1>4, FrameAssumption DEF RoundInv
  <2>2. node \in DOMAIN Arrivals /\ from[i] \in Arrivals[node]
    BY <1>2, <1>4 DEF Known
  <2> QED
    BY <1>2, <2>1, <2>2 DEF Undisturbed
<1> QED
  BY <1>3, <1>4

\* and the dual loop two, the second with the entries the first leaves.
LEMMA DualRound ==
  ASSUME Undisturbed, TypeInv, RoundInv, DualLoop
  PROVE  TwoPackets
<1>1. DualGuard /\ Len(from) >= 4
  BY DEF DualLoop, DualGuard
<1>2. PICK x0, x1, r0, r1 :
           /\ x0 = Parse(node, from[1]) /\ x1 = Parse(node, from[2])
           /\ x0.error = "none" /\ x1.error = "none"
           /\ FateOK(r0) /\ Processed(node, x0, x0.key, nsh_entries, ioam, r0)
           /\ FateOK(r1) /\ Processed(node, x1, x0.key, r0.entries, ioam, r1)
           /\ EndDual(r0, r1)
  BY DualLoopEffect
<1>3. node \in InputNodes => x0.key \in DOMAIN Maps
  BY <1>1, <1>2, PairUndisturbed
<1>4. node \in InputNodes => RxInterface(x0.key) # NoInterface
  BY <1>3, MapParts
<1>5. Made(node, x0, nsh_entries, ioam, r0)
  BY <1>2, <1>4 DEF Made
<1>6. Made(node, x1, r0.entries, ioam, r1)
  BY <1>2, <1>4 DEF Made
<1> DEFINE d0 == Round(from[1], "first", r0)
           d1 == Round(from[2], "second", r1)
<1>7. /\ done' = << d0, d1 >> /\ nsh_entries' = r1.entries /\ fault' = FirstFault(r0, r1)
      /\ from' = SubSeq(from, 3, Len(from)) /\ node' = node /\ ioam' = ioam
  BY <1>2 DEF EndDual
<1>8. Tells(d0, from[1], r0) /\ Tells(d1, from[2], r1)
  BY DEF Tells, Round
<1> HIDE DEF d0, d1
<1>9. Len(done') = 2 /\ DOMAIN done' = {1, 2} /\ done'[1] = d0 /\ done'[2] = d1
  BY <1>7
<1> QED
  BY <1>1, <1>2, <1>5, <1>6, <1>7, <1>8, <1>9 DEF TwoPackets

\* Frames of less than four packets are never disturbed.
LEMMA NoneDisturbed ==
  ASSUME Undisturbed, TypeInv, RoundInv
  PROVE  ~DualSecondFails /\ ~DualFirstFails
<1>1. ASSUME DualGuard
      PROVE  Parse(node, from[1]).error = "none" /\ Parse(node, from[2]).error = "none"
  BY <1>1, PairUndisturbed
<1> QED
  BY <1>1 DEF DualSecondFails, DualFirstFails

\* What is left of a sequence when its first k elements are taken off.
LEMMA Dropped ==
  ASSUME NEW s \in Seq(PacketType), NEW k \in 1 .. Len(s),
         NEW t, t = SubSeq(s, k + 1, Len(s))
  PROVE  /\ t \in Seq(PacketType) /\ Len(t) \in Nat /\ Len(t) <= Len(s)
         /\ \A i \in 1 .. Len(t) : i + k \in 1 .. Len(s) /\ t[i] = s[i + k]
<1>1. Len(s) \in Nat
  OBVIOUS
<1>2. Len(t) = Len(s) - k /\ t \in Seq(PacketType)
  BY <1>1
<1>3. ASSUME NEW i \in 1 .. Len(t)
      PROVE  i + k \in 1 .. Len(s) /\ t[i] = s[i + k]
  <2>1. i \in 1 .. Len(s) - k /\ i + k \in 1 .. Len(s)
    BY <1>1, <1>2
  <2> QED
    BY <1>1, <2>1
<1> QED
  BY <1>1, <1>2, <1>3

\* The packets that are left of a frame.
LEMMA LeftOver ==
  ASSUME TypeInv, RoundInv, NEW k \in 1 .. Len(from),
         from' = SubSeq(from, k + 1, Len(from)), node' = node
  PROVE  /\ \A i \in DOMAIN from' : Known(node', from'[i])
         /\ Len(from') <= MaxFrame \/ (node' = "nsh-eth-output" /\ Len(from') <= 2)
<1>1. from \in Seq(PacketType) /\ Len(from) \in Nat /\ DOMAIN from = 1 .. Len(from)
  BY RoundFinds
<1> DEFINE t == from'
<1>2. t = SubSeq(from, k + 1, Len(from))
  OBVIOUS
<1> HIDE DEF t
<1>3. /\ t \in Seq(PacketType) /\ Len(t) \in Nat /\ Len(t) <= Len(from)
      /\ \A i \in 1 .. Len(t) : i + k \in 1 .. Len(from) /\ t[i] = from[i + k]
  BY <1>1, <1>2, Dropped
<1>4. ASSUME NEW i \in DOMAIN t
      PROVE  Known(node, t[i])
  <2>1. i \in 1 .. Len(t)
    BY <1>3
  <2>2. i + k \in DOMAIN from /\ t[i] = from[i + k]
    BY <1>1, <1>3, <2>1
  <2> QED
    BY <2>2 DEF RoundInv
<1>5. Len(t) <= MaxFrame \/ (node = "nsh-eth-output" /\ Len(t) <= 2)
  <2>1. Len(from) <= MaxFrame \/ (node = "nsh-eth-output" /\ Len(from) <= 2)
    BY DEF RoundInv
  <2> QED
    BY <1>1, <1>3, <2>1, FrameAssumption
<1> QED
  BY <1>4, <1>5 DEF t

\* A round of one packet keeps the invariant.
LEMMA OneKeeps ==
  ASSUME TypeInv, RoundInv, OnePacket
  PROVE  RoundInv'
<1>1. PICK r :
        /\ from # << >> /\ from' = Tail(from)
        /\ Made(node, Parse(node, from[1]), nsh_entries, ioam, r)
        /\ Len(done') = 1 /\ DOMAIN done' = {1} /\ Tells(done'[1], from[1], r)
        /\ nsh_entries' = r.entries /\ fault' = r.fault
        /\ UNCHANGED << node, ioam >>
  BY DEF OnePacket
<1>2. /\ node \in NodeTypes /\ EntriesOK(nsh_entries) /\ ioam \in ConfigType
      /\ from \in Seq(PacketType) /\ Len(from) \in Nat
      /\ \A i \in 1 .. Len(from) : Roomy(node, from[i])
  BY RoundFinds
<1>3. Len(from) >= 1
  BY <1>1, <1>2, NotEmpty
<1> DEFINE p == from[1]
           x == Parse(node, p)
           d == done'[1]
<1>4. Known(node, p) /\ Roomy(node, p)
  <2>1. 1 \in DOMAIN from /\ 1 \in 1 .. Len(from)
    BY <1>2, <1>3
  <2> QED
    BY <1>2, <2>1 DEF RoundInv
<1>5. EntriesTrue(nsh_entries)
  BY DEF RoundInv
<1>6. x = Parse(node, p) /\ Made(node, x, nsh_entries, ioam, r) /\ Tells(d, p, r)
  BY <1>1
<1> HIDE DEF p, x, d
<1>7. /\ Good(node, d, ioam)
      /\ EntriesTrue(r.entries)
  BY <1>2, <1>4, <1>5, <1>6, MadeGood
<1>8. \A i \in DOMAIN done' : Good(node', done'[i], ioam')
  BY <1>1, <1>7 DEF d
<1>9. from' = SubSeq(from, 1 + 1, Len(from)) /\ 1 \in 1 .. Len(from)
  BY <1>1, <1>2, <1>3
<1>10. /\ \A i \in DOMAIN from' : Known(node', from'[i])
       /\ Len(from') <= MaxFrame \/ (node' = "nsh-eth-output" /\ Len(from') <= 2)
  BY <1>1, <1>9, LeftOver
<1> QED
  BY <1>1, <1>7, <1>8, <1>10 DEF RoundInv

\* A round of two packets keeps the invariant.
LEMMA TwoKeep ==
  ASSUME TypeInv, RoundInv, TwoPackets
  PROVE  RoundInv'
<1>1. PICK r0, r1 :
        /\ Len(from) >= 4 /\ from' = SubSeq(from, 3, Len(from))
        /\ Made(node, Parse(node, from[1]), nsh_entries, ioam, r0)
        /\ Made(node, Parse(node, from[2]), r0.entries, ioam, r1)
        /\ Len(done') = 2 /\ DOMAIN done' = {1, 2}
        /\ Tells(done'[1], from[1], r0) /\ Tells(done'[2], from[2], r1)
        /\ nsh_entries' = r1.entries /\ fault' = FirstFault(r0, r1)
        /\ UNCHANGED << node, ioam >>
  BY DEF TwoPackets
<1>2. /\ node \in NodeTypes /\ EntriesOK(nsh_entries) /\ ioam \in ConfigType
      /\ from \in Seq(PacketType) /\ Len(from) \in Nat
      /\ \A i \in 1 .. Len(from) : Roomy(node, from[i])
  BY RoundFinds
<1> DEFINE p0 == from[1]
           x0 == Parse(node, p0)
           d0 == done'[1]
           p1 == from[2]
           x1 == Parse(node, p1)
           d1 == done'[2]
           ents == r0.entries
<1>3. Known(node, p0) /\ Roomy(node, p0) /\ Known(node, p1) /\ Roomy(node, p1)
  <2>1. /\ 1 \in DOMAIN from /\ 1 \in 1 .. Len(from)
        /\ 2 \in DOMAIN from /\ 2 \in 1 .. Len(from)
    BY <1>1, <1>2
  <2> QED
    BY <1>2, <2>1 DEF RoundInv
<1>4. EntriesTrue(nsh_entries)
  BY DEF RoundInv
<1>5. /\ x0 = Parse(node, p0) /\ Made(node, x0, nsh_entries, ioam, r0) /\ Tells(d0, p0, r0)
      /\ x1 = Parse(node, p1) /\ Made(node, x1, ents, ioam, r1) /\ Tells(d1, p1, r1)
  BY <1>1
<1> HIDE DEF p0, x0, d0, p1, x1, d1
<1>6. /\ Good(node, d0, ioam)
      /\ EntriesOK(ents) /\ EntriesTrue(ents)
  BY <1>2, <1>3, <1>4, <1>5, MadeGood
<1> HIDE DEF ents
<1>7. /\ Good(node, d1, ioam)
      /\ EntriesTrue(r1.entries)
  BY <1>2, <1>3, <1>5, <1>6, MadeGood
<1>8. \A i \in DOMAIN done' : Good(node', done'[i], ioam')
  BY <1>1, <1>6, <1>7 DEF d0, d1
<1>10. from' = SubSeq(from, 2 + 1, Len(from)) /\ 2 \in 1 .. Len(from)
  BY <1>1, <1>2
<1>11. /\ \A i \in DOMAIN from' : Known(node', from'[i])
       /\ Len(from') <= MaxFrame \/ (node' = "nsh-eth-output" /\ Len(from') <= 2)
  BY <1>1, <1>10, LeftOver
<1> QED
  BY <1>1, <1>7, <1>8, <1>11 DEF RoundInv

\* A frame that is dispatched holds packets that arrive at its node.
LEMMA DispatchKeeps ==
  ASSUME TypeInv, RoundInv, Dispatch
  PROVE  RoundInv'
<1>0. PICK n \in DOMAIN Arrivals, k \in 1 .. MaxFrame :
        node' = n /\ \E f \in [1 .. k -> Arrivals[n]] : from' = f
  BY DEF Dispatch
<1>1. PICK f \in [1 .. k -> Arrivals[n]] : node' = n /\ from' = f
  BY <1>0
<1>2. k \in Nat /\ k <= MaxFrame
  BY FrameAssumption
<1>3. DOMAIN f = 1 .. k /\ \A i \in 1 .. k : f[i] \in Arrivals[n]
  OBVIOUS
<1>4. Len(from') = k
  BY <1>1, <1>2, <1>3
<1>5. \A i \in DOMAIN from' : Known(node', from'[i])
  BY <1>1, <1>3 DEF Known
<1>6. /\ done' = << >> /\ nsh_entries' = nsh_entries /\ ioam' = ioam /\ fault' = fault
  BY DEF Dispatch
<1>7. Len(from') <= MaxFrame /\ DOMAIN done' = {}
  BY <1>2, <1>4, <1>6
<1>8. EntriesTrue(nsh_entries)'
  BY <1>6 DEF RoundInv
<1>9. \A i \in DOMAIN done' : Good(node', done'[i], ioam')
  BY <1>7
<1> QED
  BY <1>5, <1>7, <1>8, <1>9 DEF RoundInv

\* One packet or two are handed over.
LEMMA HandoverKeeps ==
  ASSUME TypeInv, RoundInv, Handover
  PROVE  RoundInv'
<1>1. /\ from' \in Seq(PacketType)
      /\ \A k \in DOMAIN from' : \E i \in DOMAIN done :
           from'[k] = done[i].pkt /\ done[i].next = "nsh-eth-output"
      /\ node' = "nsh-eth-output" /\ done' = << >>
      /\ UNCHANGED << n_left_to_next, nsh_entries, ioam, fault >>
  BY HandoverPackets
<1>2. Len(from') <= 2
  <2>1. PICK sent \in {<< 1 >>, << 2 >>, << 1, 2 >>} :
          from' = [k \in DOMAIN sent |-> done[sent[k]].pkt]
    BY DEF Handover
  <2>2. DOMAIN from' = DOMAIN sent
    BY <2>1
  <2>3. DOMAIN sent = 1 .. 1 \/ DOMAIN sent = 1 .. 2
    <3>1. DOMAIN << 1 >> = 1 .. 1 /\ DOMAIN << 2 >> = 1 .. 1 /\ DOMAIN << 1, 2 >> = 1 .. 2
      OBVIOUS
    <3> QED
      BY <3>1
  <2> DEFINE t == from'
  <2>4. t \in Seq(PacketType) /\ (DOMAIN t = 1 .. 1 \/ DOMAIN t = 1 .. 2)
    BY <1>1, <2>2, <2>3
  <2> HIDE DEF t
  <2>5. Len(t) <= 2
    <3>1. Len(t) \in Nat /\ DOMAIN t = 1 .. Len(t)
      BY <2>4
    <3>2. 3 \notin DOMAIN t
      BY <2>4
    <3> QED
      BY <3>1, <3>2
  <2> QED
    BY <2>5 DEF t
<1>3. \A k \in DOMAIN from' : Known(node', from'[k])
  BY <1>1 DEF Known
<1> QED
  BY <1>1, <1>2, <1>3 DEF RoundInv

\* Another frame for the next node changes no packet.
LEMMA GetNextFrameKeeps ==
  ASSUME TypeInv, RoundInv, GetNextFrame
  PROVE  RoundInv'
BY DEF GetNextFrame, RoundInv

\* Entries that are added or deleted between frames.
LEMMA AddEntryKeeps ==
  ASSUME TypeInv, RoundInv, AddEntry
  PROVE  RoundInv'
<1>1. PICK e \in DOMAIN EntryArgs \ DOMAIN nsh_entries :
        nsh_entries' =
          [f \in DOMAIN nsh_entries \cup {e} |->
             IF f = e THEN nsh_header_rewrite(e, ioam.profile) ELSE nsh_entries[f]]
  BY DEF AddEntry
<1> DEFINE new == nsh_entries'
<1>2. EntriesOK(nsh_entries) /\ ioam \in ConfigType
  BY RoundFinds
<1>3. DOMAIN new = DOMAIN nsh_entries \cup {e}
  BY <1>1
<1>4. \A f \in DOMAIN new : \/ f \in DOMAIN nsh_entries /\ new[f] = nsh_entries[f]
                            \/ new[f] = nsh_header_rewrite(f, ioam.profile)
  BY <1>1, <1>3
<1>5. DOMAIN new \subseteq DOMAIN EntryArgs
  BY <1>2, <1>3 DEF EntriesOK
<1> HIDE DEF new
<1>6. EntriesTrue(new)
  BY <1>2, <1>4, <1>5, OtherEntries DEF RoundInv
<1> QED
  BY <1>6 DEF AddEntry, RoundInv, new

LEMMA DelEntryKeeps ==
  ASSUME TypeInv, RoundInv, DelEntry
  PROVE  RoundInv'
<1>1. PICK e \in DOMAIN nsh_entries :
        nsh_entries' = [f \in DOMAIN nsh_entries \ {e} |-> nsh_entries[f]]
  BY DEF DelEntry
<1> DEFINE new == nsh_entries'
<1>2. EntriesOK(nsh_entries) /\ ioam \in ConfigType
  BY RoundFinds
<1>3. DOMAIN new = DOMAIN nsh_entries \ {e}
  BY <1>1
<1>4. \A f \in DOMAIN new : f \in DOMAIN nsh_entries /\ new[f] = nsh_entries[f]
  BY <1>1, <1>3
<1>5. DOMAIN new \subseteq DOMAIN EntryArgs
  BY <1>2, <1>3 DEF EntriesOK
<1> HIDE DEF new
<1>6. EntriesTrue(new)
  BY <1>2, <1>4, <1>5, OtherEntries DEF RoundInv
<1> QED
  BY <1>6 DEF DelEntry, RoundInv, new

\* No entry depends on iOAM export.
LEMMA OverrideKeeps ==
  ASSUME TypeInv, RoundInv, nsh_md2_set_next_ioam_export_override
  PROVE  RoundInv'
<1>4. DOMAIN done' = {}
  BY DEF nsh_md2_set_next_ioam_export_override
<1> QED
  BY <1>4 DEF nsh_md2_set_next_ioam_export_override, RoundInv

\* Every step keeps the invariant, unless a dual loop is disturbed.
LEMMA NextKeeps ==
  ASSUME Undisturbed, TypeInv, RoundInv, [Next]_vars
  PROVE  RoundInv'
<1>1. CASE Dispatch
  BY <1>1, DispatchKeeps
<1>2. CASE Handover
  BY <1>2, HandoverKeeps
<1>3. CASE GetNextFrame
  BY <1>3, GetNextFrameKeeps
<1>4. CASE SingleLoop
  BY <1>4, SingleRound, OneKeeps
<1>5. CASE DualLoop
  BY <1>5, DualRound, TwoKeep
<1>6. CASE DualSecondFails \/ DualFirstFails
  BY <1>6, NoneDisturbed
<1>7. CASE AddEntry
  BY <1>7, AddEntryKeeps
<1>8. CASE DelEntry
  BY <1>8, DelEntryKeeps
<1>9. CASE nsh_md2_set_next_ioam_export_override
  BY <1>9, OverrideKeeps
<1>10. CASE UNCHANGED vars
  BY <1>10 DEF vars, frameVars, RoundInv
<1> QED
  BY <1>1, <1>2, <1>3, <1>4, <1>5, <1>6, <1>7, <1>8, <1>9, <1>10 DEF Next, NodeStep

\* The invariant of rounds and entries.
LEMMA AlwaysRoundInv ==
  ASSUME Undisturbed
  PROVE  Spec => [](TypeInv /\ RoundInv)
<1>1. Init => TypeInv /\ RoundInv
  BY InitType, InitRound
<1>2. TypeInv /\ RoundInv /\ [Next]_vars => (TypeInv /\ RoundInv)'
  BY NextType, NextKeeps
<1> QED
  BY <1>1, <1>2, PTL DEF Spec

\* The length of an NSH header that is sent on is that of the base header and the
\* metadata in it, whatever packets went through the entry before.
THEOREM LengthsStayTrue ==
  ASSUME Undisturbed, HeadersTrue, MetadataFits
  PROVE  Spec => []LengthsTrue
<1>1. TypeInv /\ RoundInv => LengthsTrue
  BY DEF RoundInv, Good, LengthTrue, LengthsTrue
<1> QED
  BY <1>1, AlwaysRoundInv, PTL

\* A swap gives a packet its own metadata, all that is understood of it.
THEOREM MetadataIsOwn ==
  ASSUME Undisturbed, HeadersTrue
  PROVE  Spec => []OwnMetadata
<1>1. TypeInv /\ RoundInv => OwnMetadata
  BY DEF RoundInv, Good, OwnOnly, OwnMetadata, MapOf
<1> QED
  BY <1>1, AlwaysRoundInv, PTL

\* A packet leaves with the one NSH header its map gives it, or with none, and
\* with the payload it came with.
THEOREM HeaderIsOne ==
  ASSUME Undisturbed, HeadersTrue, NoSecondHeader, ExportsTrue
  PROVE  Spec => []OneHeader
<1>1. TypeInv /\ RoundInv => OneHeader
  BY DEF RoundInv, Good, OneNsh, OneHeader, MapOf
<1> QED
  BY <1>1, AlwaysRoundInv, PTL

-----------------------------------------------------------------------------
\* Reasons and causes, whatever is configured and whatever comes

\* An entry no map swaps to still has a TLV for each handler that will run.
OwnTlvs(ents, cfg) ==
  \A e \in DOMAIN ents :
    EntryArgs[e].md_type = 2 /\ e \notin SwappedTo => EntryReady(ents, e, cfg)

\* An entry that is pushed keeps its TLVs while no swap gets at it.
LEMMA StayReady ==
  ASSUME NEW x, ParsedOK(x), x.key \in DOMAIN Maps, NEW rx_key,
         NEW cfg \in ConfigType, NEW ents, EntriesOK(ents), OwnTlvs(ents, cfg),
         NEW r, Mapped(x, rx_key, ents, cfg, r)
  PROVE  OwnTlvs(r.entries, cfg)
<1> DEFINE e == MappedOf(x)
<1>1. CASE r.entries = ents
  BY <1>1
<1>2. CASE e \in DOMAIN ents /\ Maps[x.key].nsh_action = "swap" /\ Swapped(x, ents, cfg, r)
           /\ r.entries # ents
  <2> DEFINE kept == Understood(TlvsOf(x), cfg.profile)
             new == r.entries
  <2>1. new = Refill(ents, e, kept)
    BY <1>2 DEF Swapped, SwapEntries
  <2>2. kept \in Seq(Option)
    BY TlvsType, UnderstoodLemma DEF TlvsOf, ConfigType
  <2>3. e \in SwappedTo
    BY <1>2 DEF SwappedTo, MappedOf
  <2> HIDE DEF kept, new, e
  <2>4. DOMAIN new = DOMAIN ents /\ \A f \in DOMAIN ents : f # e => new[f] = ents[f]
    BY <1>2, <2>1, <2>2, RefillEffect
  <2>5. ASSUME NEW f \in DOMAIN new, EntryArgs[f].md_type = 2, f \notin SwappedTo
        PROVE  EntryReady(new, f, cfg)
    <3>1. f \in DOMAIN ents /\ new[f] = ents[f] /\ EntryReady(ents, f, cfg)
      BY <2>3, <2>4, <2>5 DEF OwnTlvs
    <3> QED
      BY <3>1 DEF EntryReady
  <2> QED
    BY <2>5 DEF OwnTlvs, new
<1>3. CASE e \in DOMAIN ents /\ Maps[x.key].nsh_action = "push" /\ Pushed(x, ents, cfg, r)
           /\ r.entries # ents
  <2> DEFINE old == ents[e].tlvs
             h == Handled(e, cfg)
             t == FirstOf(old, h)
             new == r.entries
             w == Rewrite(t, BASE_HEADER_LEN + TlvBytes(t))
  <2>1. EntryArgs[e].md_type = 2 /\ new = Refill(ents, e, t)
    BY <1>3 DEF Pushed, PushEntries
  <2>2. e \in DOMAIN EntryArgs /\ ents[e] \in RewriteType
    BY <1>3 DEF EntriesOK
  <2>3. old \in Seq(Option) /\ h \in Nat /\ Len(old) \in Nat
    BY <2>2, RewriteParts, HandledType, LenProperties
  <2>4. t \in Seq(Option) /\ Len(t) = IF h < Len(old) THEN h ELSE Len(old)
    <3> HIDE DEF old, h
    <3> QED
      BY <2>3, FirstOfType
  <2> HIDE DEF t, new
  <2>5. /\ DOMAIN new = DOMAIN ents /\ new[e] = w
        /\ \A f \in DOMAIN ents : f # e => new[f] = ents[f]
    <3> HIDE DEF e, old
    <3> QED
      BY <1>3, <2>1, <2>4, RefillEffect
  <2>6. new[e].tlvs = t
    BY <2>5 DEF Rewrite
  <2>7. e \notin SwappedTo => EntryReady(new, e, cfg)
    <3>1. e \notin SwappedTo => h <= Len(old)
      BY <1>3, <2>1 DEF OwnTlvs, EntryReady
    <3> HIDE DEF e, old
    <3> QED
      BY <2>3, <2>4, <2>6, <3>1 DEF EntryReady
  <2> HIDE DEF w, e, old, h
  <2>8. ASSUME NEW f \in DOMAIN new, EntryArgs[f].md_type = 2, f \notin SwappedTo
        PROVE  EntryReady(new, f, cfg)
    <3>1. CASE f = e
      BY <2>7, <2>8, <3>1
    <3>2. CASE f # e
      <4>1. f \in DOMAIN ents /\ new[f] = ents[f] /\ EntryReady(ents, f, cfg)
        BY <2>5, <2>8, <3>2 DEF OwnTlvs
      <4> QED
        BY <4>1 DEF EntryReady
    <3> QED
      BY <3>1, <3>2
  <2> QED
    BY <2>8 DEF OwnTlvs, new
<1> QED
  BY <1>1, <1>2, <1>3 DEF Mapped

\* Entries that come, as they are added, and entries that go.
LEMMA OthersReady ==
  ASSUME NEW ents, NEW cfg \in ConfigType, OwnTlvs(ents, cfg),
         NEW new, DOMAIN new \subseteq DOMAIN EntryArgs,
         \A e \in DOMAIN new : \/ e \in DOMAIN ents /\ new[e] = ents[e]
                               \/ new[e] = nsh_header_rewrite(e, cfg.profile)
  PROVE  OwnTlvs(new, cfg)
<1>1. ASSUME NEW e \in DOMAIN new, EntryArgs[e].md_type = 2, e \notin SwappedTo
      PROVE  EntryReady(new, e, cfg)
  <2>1. CASE e \in DOMAIN ents /\ new[e] = ents[e]
    <3>1. EntryReady(ents, e, cfg)
      BY <1>1, <2>1 DEF OwnTlvs
    <3> QED
      BY <2>1, <3>1, SameEntry
  <2>2. CASE new[e] = nsh_header_rewrite(e, cfg.profile)
    BY <1>1, <2>2, NewEntry
  <2> QED
    BY <2>1, <2>2
<1> QED
  BY <1>1 DEF OwnTlvs

\* What a map does to a packet, by its error and by its fault.
LEMMA MappedFate ==
  ASSUME NEW x, x.key \in DOMAIN Maps, NEW rx_key, NEW ents, NEW cfg,
         NEW r, Mapped(x, rx_key, ents, cfg, r)
  PROVE  /\ r.error \in {"none", "NO_ENTRY", "INVALID_OPTIONS"}
         /\ r.next = "error-drop" <=> r.error = "INVALID_OPTIONS"
         /\ r.error # "none" => r.pkt.hdrs = x.pkt.hdrs
         /\ r.fault = "none" /\ r.error # "INVALID_OPTIONS" =>
              \/ r.next = NextOf(x)
              \/ r.next = "ioam-export" /\ cfg.export /\ Maps[x.key].nsh_action = "pop"
         /\ r.fault \in {"none", "overrun", "null_map"}
         /\ r.fault = "null_map" =>
              RxInterface(rx_key) = NoInterface /\ Maps[x.key].nsh_action = "pop"
         /\ r.fault = "overrun" =>
              \/ /\ Maps[x.key].nsh_action = "swap" /\ MappedOf(x) \in DOMAIN ents
                 /\ r.error = "none" /\ Swapped(x, ents, cfg, r)
              \/ /\ Maps[x.key].nsh_action = "push" /\ MappedOf(x) \in DOMAIN ents
                 /\ r.error = "none" /\ Pushed(x, ents, cfg, r)
<1>1. NextOf(x) # "error-drop"
  BY MapParts DEF NextOf, MapNextNodes
<1>2. CASE Maps[x.key].nsh_action = "pop" /\ Popped(x, rx_key, cfg, r)
  BY <1>1, <1>2 DEF Popped
<1>3. CASE Unchanged(x, r)
  BY <1>1, <1>3 DEF Unchanged
<1>4. CASE Maps[x.key].nsh_action = "swap" /\ MappedOf(x) \in DOMAIN ents /\ Swapped(x, ents, cfg, r)
  <2>1. r.next = NextOf(x) /\ r.error = "none" /\ r.fault \in {"none", "overrun"}
    BY <1>4 DEF Swapped
  <2> QED
    BY <1>1, <1>4, <2>1
<1>5. CASE Maps[x.key].nsh_action = "push" /\ MappedOf(x) \in DOMAIN ents /\ Pushed(x, ents, cfg, r)
  <2>1. r.next = NextOf(x) /\ r.error = "none" /\ r.fault \in {"none", "overrun"}
    BY <1>5 DEF Pushed
  <2> QED
    BY <1>1, <1>5, <2>1
<1> QED
  BY <1>2, <1>3, <1>4, <1>5 DEF Mapped

\* The entry that a handler ran over, and why it did.
LEMMA OverrunCause ==
  ASSUME NEW x, ParsedOK(x), x.key \in DOMAIN Maps, NEW rx_key,
         NEW cfg \in ConfigType, NEW ents, EntriesOK(ents), OwnTlvs(ents, cfg),
         NEW r, Mapped(x, rx_key, ents, cfg, r), EntriesOK(r.entries),
         DOMAIN r.entries = DOMAIN ents, r.fault = "overrun"
  PROVE  /\ r.error = "none"
         /\ \E e \in DOMAIN EntryArgs :
              /\ Head(r.pkt.hdrs).path = e
              /\ \/ /\ Maps[x.key].nsh_action = "swap"
                    /\ Overrun(e, Understood(TlvsOf(x), cfg.profile))
                 \/ e \in SwappedTo \cap PushedBy
<1> DEFINE e == MappedOf(x)
           old == x.pkt.hdrs
           rest == Advanced(old, x.header_len)
<1>1. /\ e \in DOMAIN ents /\ r.error = "none"
      /\ \/ Maps[x.key].nsh_action = "swap" /\ Swapped(x, ents, cfg, r)
         \/ Maps[x.key].nsh_action = "push" /\ Pushed(x, ents, cfg, r)
  BY MappedFate
<1>2. e \in DOMAIN EntryArgs
  BY <1>1 DEF EntriesOK
<1>3. old \in Seq(HeaderType) /\ old # << >>
  BY TlvsType
<1>4. rest \in Seq(HeaderType)
  BY <1>3, TakeOff DEF Advanced
<1>5. CASE Maps[x.key].nsh_action = "swap" /\ Swapped(x, ents, cfg, r)
  <2> DEFINE h == NshHeader(r.entries, e)
  <2>1. h \in HeaderType /\ h.path = e
    BY <1>1, NshHeaderType DEF NshHeader
  <2>2. r.pkt.hdrs = << h >> \o rest
    BY <1>5 DEF Swapped
  <2>3. Overrun(e, Understood(TlvsOf(x), cfg.profile))
    BY <1>5 DEF Swapped
  <2> HIDE DEF h, rest, e
  <2>4. Head(r.pkt.hdrs) = h
    BY <1>4, <2>1, <2>2, PutInFront
  <2> QED
    BY <1>1, <1>2, <1>5, <2>1, <2>3, <2>4
<1>6. CASE Maps[x.key].nsh_action = "push" /\ Pushed(x, ents, cfg, r)
  <2> DEFINE h == NshHeader(ents, e)
  <2>1. h \in HeaderType /\ h.path = e
    BY <1>1, NshHeaderType DEF NshHeader
  <2>2. r.pkt.hdrs = << h >> \o old
    BY <1>6 DEF Pushed
  <2>3. EntryArgs[e].md_type = 2 /\ Handled(e, cfg) > Len(ents[e].tlvs)
    BY <1>6 DEF Pushed
  <2>4. e \in PushedBy
    BY <1>6 DEF PushedBy, MappedOf
  <2>5. e \in SwappedTo
    <3>1. ents[e].tlvs \in Seq(Option) /\ Handled(e, cfg) \in Nat
      BY <1>1, <1>2, RewriteParts, HandledType DEF EntriesOK
    <3>2. Len(ents[e].tlvs) \in Nat
      BY <3>1, LenProperties
    <3> HIDE DEF e
    <3> QED
      BY <1>1, <2>3, <3>1, <3>2 DEF OwnTlvs, EntryReady
  <2> HIDE DEF h, old, e
  <2>6. Head(r.pkt.hdrs) = h
    BY <1>3, <2>1, <2>2, PutInFront
  <2> QED
    BY <1>1, <1>2, <2>1, <2>4, <2>5, <2>6
<1> QED
  BY <1>1, <1>5, <1>6

\* The errors a packet is dropped with.
Drops == {"NO_MAPPING", "NO_PROXY", "INVALID_OPTIONS", "INVALID_TTL", "MTU_EXCEEDED"}

\* What FateHasReason says of a packet that was parsed, in a round without fault.
ItsReason(n, d, cfg) ==
  /\ d.error # "unset"
  /\ d.next = "error-drop" <=> d.error \in Drops
  /\ d.error # "none" => d.pkt.hdrs = Parse(n, d.was).pkt.hdrs
  /\ d.error = "INVALID_TTL" <=> n = "nsh-input" /\ Head(d.was.hdrs).ttl = 1
  /\ n \in InputNodes /\ d.error \in {"none", "NO_ENTRY"} =>
       \/ d.next = NextOf(Parse(n, d.was))
       \/ /\ d.next = "ioam-export" /\ cfg.export
          /\ Maps[Parse(n, d.was).key].nsh_action = "pop"

\* What the handlers of a packet may have run over.
ItsOverrun(n, d, cfg) ==
  /\ d.error = "none"
  /\ \E e \in DOMAIN EntryArgs :
       /\ Head(d.pkt.hdrs).path = e
       /\ \/ Overrun(e, Understood(TlvsOf(Parse(n, d.was)), cfg.profile))
          \/ e \in SwappedTo \cap PushedBy

\* What FaultsHaveCauses says of a packet that was parsed, rx_key being the key
\* its receiving interface comes from.
ItsCause(n, d, flt, rx_key, cfg) ==
  /\ flt # "null_header"
  /\ flt = "overrun" => ItsOverrun(n, d, cfg)
  /\ flt = "null_map" => rx_key \notin DOMAIN Maps /\ Parse(n, d.was).key \in DOMAIN Maps
  /\ flt = "no_adjacency" => n \in OutputNodes /\ d.was.adj \notin DOMAIN Adjacency
  /\ flt = "no_next" => n = "nsh-midchain"

\* Only nsh-input looks at the ttl, and only a ttl of one is refused.
LEMMA RefusedTtl ==
  ASSUME NEW n \in NodeTypes, NEW p
  PROVE  Parse(n, p).error = "INVALID_TTL" <=> n = "nsh-input" /\ Head(p.hdrs).ttl = 1
BY DEF Parse, ParseInput, ParsePop, ParseProxy, Parsed, NodeTypes

\* One packet that has been refused,
LEMMA RefusedFate ==
  ASSUME NEW n \in NodeTypes, NEW p, Roomy(n, p), NEW x, x = Parse(n, p), x.error # "none",
         NEW r, r.pkt = x.pkt, r.next = "error-drop", r.error = x.error,
         NEW d, Tells(d, p, r), NEW cfg
  PROVE  ItsReason(n, d, cfg)
<1>1. x.error \in {"INVALID_TTL", "NO_PROXY"}
  BY ParseEffect
<1>2. x.error = "INVALID_TTL" <=> n = "nsh-input" /\ Head(p.hdrs).ttl = 1
  BY RefusedTtl
<1> QED
  BY <1>1, <1>2 DEF ItsReason, Tells, Drops

\* and one that the node has gone on with.
LEMMA ProcessedFate ==
  ASSUME NEW n \in NodeTypes, NEW p, Roomy(n, p), NEW x, x = Parse(n, p), x.error = "none",
         NEW rx_key, NEW cfg \in ConfigType, NEW ents, EntriesOK(ents), OwnTlvs(ents, cfg),
         NEW r, FateOK(r), Processed(n, x, rx_key, ents, cfg, r), NEW d, Tells(d, p, r)
  PROVE  /\ r.fault = "none" => ItsReason(n, d, cfg)
         /\ ItsCause(n, d, r.fault, rx_key, cfg)
         /\ OwnTlvs(r.entries, cfg)
<1>1. /\ ParsedOK(x) /\ x.pkt.adj = p.adj
      /\ ~(n = "nsh-input" /\ Head(p.hdrs).ttl = 1)
  BY ParseEffect, RefusedTtl
<1>2. d.was = p /\ d.pkt = r.pkt /\ d.next = r.next /\ d.error = r.error
  BY DEF Tells
<1>3. x.key \in DOMAIN Maps => NextOf(x) # "error-drop"
  BY MapParts DEF NextOf, MapNextNodes
<1>4. CASE n = "nsh-pop"
  <2>1. r.entries = ents /\ PopOnly(x, ents, r)
    BY <1>4 DEF Processed, OutputNodes
  <2>2. /\ r.fault = "none"
        /\ r.error \in {"none", "NO_ENTRY", "NO_MAPPING"}
        /\ r.next = "error-drop" <=> r.error = "NO_MAPPING"
        /\ r.error # "none" => r.pkt = x.pkt
    BY <1>3, <2>1 DEF PopOnly, Unmapped
  <2>3. ItsReason(n, d, cfg)
    BY <1>1, <1>2, <1>4, <2>2 DEF ItsReason, Drops, InputNodes
  <2> QED
    BY <2>1, <2>2, <2>3 DEF ItsCause
<1>5. CASE n \in OutputNodes
  <2>1. r.entries = ents /\ Output(n, x.pkt, r)
    BY <1>5 DEF Processed, OutputNodes
  <2>2. ItsCause(n, d, r.fault, rx_key, cfg)
    BY <1>1, <1>2, <1>5, <2>1 DEF Output, ItsCause
  <2>3. r.fault = "none" => ItsReason(n, d, cfg)
    <3>1. /\ r.fault = "none" => r.error \in {"none", "MTU_EXCEEDED"}
          /\ r.fault = "none" => (r.next = "error-drop" <=> r.error = "MTU_EXCEEDED")
          /\ r.fault = "none" /\ r.error # "none" => r.pkt = x.pkt
      BY <2>1 DEF Output
    <3> QED
      BY <1>1, <1>2, <1>5, <3>1 DEF ItsReason, Drops, InputNodes, OutputNodes
  <2> QED
    BY <2>1, <2>2, <2>3
<1>6. CASE n = "nsh-adj-incomplete"
  <2>1. /\ r.entries = ents /\ r.next # "error-drop" /\ r.error = "none" /\ r.fault = "none"
    BY <1>6 DEF Processed, OutputNodes
  <2>2. ItsReason(n, d, cfg)
    BY <1>1, <1>2, <1>6, <2>1 DEF ItsReason, Drops, InputNodes
  <2> QED
    BY <2>1, <2>2 DEF ItsCause
<1>7. CASE /\ n \notin OutputNodes \cup {"nsh-pop", "nsh-adj-incomplete"}
           /\ x.key \notin DOMAIN Maps
  <2>1. r.entries = ents /\ Unmapped(x, r)
    BY <1>7 DEF Processed
  <2>2. ItsReason(n, d, cfg)
    BY <1>1, <1>2, <2>1 DEF ItsReason, Drops, Unmapped
  <2> QED
    BY <2>1, <2>2 DEF ItsCause, Unmapped
<1>8. CASE /\ n \notin OutputNodes \cup {"nsh-pop", "nsh-adj-incomplete"}
           /\ x.key \in DOMAIN Maps
  <2>1. Mapped(x, rx_key, ents, cfg, r) /\ DOMAIN r.entries = DOMAIN ents
    BY <1>8 DEF Processed
  <2>2. EntriesOK(r.entries)
    BY DEF FateOK
  <2>3. OwnTlvs(r.entries, cfg)
    BY <1>1, <1>8, <2>1, StayReady
  <2>4. /\ r.error \in {"none", "NO_ENTRY", "INVALID_OPTIONS"}
        /\ r.next = "error-drop" <=> r.error = "INVALID_OPTIONS"
        /\ r.error # "none" => r.pkt.hdrs = x.pkt.hdrs
        /\ r.fault = "none" /\ r.error # "INVALID_OPTIONS" =>
             \/ r.next = NextOf(x)
             \/ r.next = "ioam-export" /\ cfg.export /\ Maps[x.key].nsh_action = "pop"
        /\ r.fault \in {"none", "overrun", "null_map"}
        /\ r.fault = "null_map" => RxInterface(rx_key) = NoInterface
    BY <1>8, <2>1, MappedFate
  <2>5. r.fault = "none" => ItsReason(n, d, cfg)
    BY <1>1, <1>2, <2>4 DEF ItsReason, Drops
  <2>6. r.fault = "overrun" => ItsOverrun(n, d, cfg)
    <3>1. SUFFICES ASSUME r.fault = "overrun"
                   PROVE  ItsOverrun(n, d, cfg)
      OBVIOUS
    <3>2. /\ r.error = "none"
          /\ \E e \in DOMAIN EntryArgs :
               /\ Head(r.pkt.hdrs).path = e
               /\ \/ /\ Maps[x.key].nsh_action = "swap"
                     /\ Overrun(e, Understood(TlvsOf(x), cfg.profile))
                  \/ e \in SwappedTo \cap PushedBy
      BY <1>1, <1>8, <2>1, <2>2, <3>1, OverrunCause
    <3> QED
      BY <1>2, <3>2 DEF ItsOverrun
  <2>7. r.fault = "null_map" => rx_key \notin DOMAIN Maps
    BY <2>4, MapParts
  <2> QED
    BY <1>2, <1>8, <2>3, <2>4, <2>5, <2>6, <2>7 DEF ItsCause
<1> QED
  BY <1>4, <1>5, <1>6, <1>7, <1>8

\* What FateHasReason says of the round i of those done.
RoundReason(n, ds, i, cfg) ==
  LET r    == ds[i]
      x    == Parse(n, r.was)
      late == r.loop = "second" /\ Parse(n, ds[1].was).error # "none"
  IN  /\ r.next = "error-drop" <=>
           r.error \in {"NO_MAPPING", "NO_PROXY", "INVALID_OPTIONS", "INVALID_TTL",
                        "MTU_EXCEEDED", "unset"}
      /\ r.error = "unset" <=> /\ r.loop = "first" /\ x.error = "none"
                               /\ Parse(n, ds[2].was).error # "none"
      /\ r.error # "none" =>
           r.pkt.hdrs = IF late THEN r.was.hdrs ELSE x.pkt.hdrs
      /\ ~late =>
           /\ r.error = "INVALID_TTL" <=> n = "nsh-input" /\ Head(r.was.hdrs).ttl = 1
           /\ n \in InputNodes /\ r.error \in {"none", "NO_ENTRY"} =>
                \/ r.next = Maps[x.key].next_node
                \/ r.next = "ioam-export" /\ cfg.export /\ Maps[x.key].nsh_action = "pop"

\* It follows from what is true of the packet alone, unless the first packet of
\* the round was refused before the second was parsed.
LEMMA OwnReason ==
  ASSUME NEW n, NEW ds, NEW i, NEW cfg, ItsReason(n, ds[i], cfg),
         \/ ds[i].loop = "single"
         \/ ds[i].loop = "second" /\ Parse(n, ds[1].was).error = "none"
         \/ /\ ds[i].loop = "first"
            /\ Parse(n, ds[i].was).error # "none" \/ Parse(n, ds[2].was).error = "none"
  PROVE  RoundReason(n, ds, i, cfg)
<1> DEFINE r == ds[i]
           x == Parse(n, r.was)
<1>1. /\ r.error # "unset"
      /\ r.next = "error-drop" <=> r.error \in Drops
      /\ r.error # "none" => r.pkt.hdrs = x.pkt.hdrs
      /\ r.error = "INVALID_TTL" <=> n = "nsh-input" /\ Head(r.was.hdrs).ttl = 1
      /\ n \in InputNodes /\ r.error \in {"none", "NO_ENTRY"} =>
           \/ r.next = Maps[x.key].next_node
           \/ r.next = "ioam-export" /\ cfg.export /\ Maps[x.key].nsh_action = "pop"
  BY DEF ItsReason, NextOf
<1>2. ~(r.loop = "second" /\ Parse(n, ds[1].was).error # "none")
  OBVIOUS
<1>3. ~(r.loop = "first" /\ x.error = "none" /\ Parse(n, ds[2].was).error # "none")
  OBVIOUS
<1> QED
  BY <1>1, <1>2, <1>3 DEF RoundReason, Drops

\* The invariant: no premise on the maps, the entries or the packets.
FateInv ==
  /\ OwnTlvs(nsh_entries, ioam)
  /\ fault = "none" => \A i \in DOMAIN done : RoundReason(node, done, i, ioam)
  /\ FaultsHaveCauses

\* A round of one packet.
LEMMA SingleFate ==
  ASSUME TypeInv, FateInv, SingleLoop
  PROVE  FateInv'
<1> DEFINE p == from[1]
           x == Parse(node, p)
           key == x.key
           r == SinglePacket(node, p, nsh_entries, ioam)
           d == Round(p, "single", r)
<1>1. /\ node \in NodeTypes /\ EntriesOK(nsh_entries) /\ ioam \in ConfigType
      /\ from \in Seq(PacketType) /\ Len(from) \in Nat
      /\ \A i \in 1 .. Len(from) : Roomy(node, from[i]) /\ from[i] \in PacketType
  BY RoundFinds
<1>2. from # << >>
  BY DEF SingleLoop, SingleGuard
<1>3. Roomy(node, p)
  BY <1>1, <1>2, NotEmpty
<1>4. /\ done' = << d >> /\ nsh_entries' = r.entries /\ fault' = r.fault
      /\ node' = node /\ ioam' = ioam
  BY DEF SingleLoop
<1>5. x = Parse(node, p) /\ r = SinglePacket(node, p, nsh_entries, ioam)
  OBVIOUS
<1>6. Tells(d, p, r) /\ d.loop = "single" /\ d.was = p
  BY DEF Tells, Round
<1>7. key = x.key
  OBVIOUS
<1> HIDE DEF p, r, x, d, key
<1>8. OwnTlvs(nsh_entries, ioam)
  BY DEF FateInv
<1>9. /\ r.fault = "none" => ItsReason(node, d, ioam)
      /\ ItsCause(node, d, r.fault, key, ioam) \/ r.fault = "none"
      /\ OwnTlvs(r.entries, ioam)
  <2>1. CASE x.error = "none"
    <3>1. FateOK(r)
      BY <1>1, <1>3, <1>5, SingleEffect
    <3>2. Processed(node, x, key, nsh_entries, ioam, r)
      <4>1. Processed(node, x, x.key, nsh_entries, ioam, r)
        BY <1>1, <1>3, <1>5, <2>1, SingleEffect
      <4> QED
        BY <1>7, <4>1
    <3> QED
      BY <1>1, <1>3, <1>5, <1>6, <1>8, <2>1, <3>1, <3>2, ProcessedFate
  <2>2. CASE x.error # "none"
    <3>1. r = Fate(x.pkt, "error-drop", x.error, nsh_entries, "none")
      BY <1>5, <2>2 DEF SinglePacket
    <3>2. /\ r.pkt = x.pkt /\ r.next = "error-drop" /\ r.error = x.error
          /\ r.entries = nsh_entries /\ r.fault = "none"
      BY <3>1 DEF Fate
    <3>3. ItsReason(node, d, ioam)
      BY <1>1, <1>3, <1>5, <1>6, <2>2, <3>2, RefusedFate
    <3> QED
      BY <1>8, <3>2, <3>3
  <2> QED
    BY <2>1, <2>2
<1>10. DOMAIN done' = {1} /\ done'[1] = d
  BY <1>4
<1>11. fault' = "none" => \A i \in DOMAIN done' : RoundReason(node', done', i, ioam')
  <2>1. SUFFICES ASSUME fault' = "none"
                 PROVE  RoundReason(node, done', 1, ioam)
    BY <1>4, <1>10
  <2> DEFINE ds == done'
  <2>2. ItsReason(node, ds[1], ioam) /\ ds[1].loop = "single"
    BY <1>4, <1>6, <1>9, <1>10, <2>1
  <2> HIDE DEF ds
  <2>3. RoundReason(node, ds, 1, ioam)
    BY <2>2, OwnReason
  <2> QED
    BY <2>3 DEF ds
<1>12. FaultsHaveCauses'
  <2>1. fault' = "overrun" => ItsOverrun(node, done'[1], ioam)
    BY <1>4, <1>9, <1>10 DEF ItsCause
  <2>2. fault' # "null_header" /\ fault' # "null_map"
    BY <1>4, <1>5, <1>6, <1>7, <1>9 DEF ItsCause
  <2>3. /\ fault' = "no_adjacency" =>
             node \in OutputNodes /\ done'[1].was.adj \notin DOMAIN Adjacency
        /\ fault' = "no_next" => node = "nsh-midchain"
    BY <1>4, <1>9, <1>10 DEF ItsCause
  <2> QED
    BY <1>4, <1>10, <2>1, <2>2, <2>3 DEF FaultsHaveCauses, ItsOverrun, TlvsOf
<1> QED
  BY <1>4, <1>9, <1>11, <1>12 DEF FateInv

\* What a round of two leaves, with the packets of its fates.
LEMMA PairEnds ==
  ASSUME NEW r0, NEW r1, EndDual(r0, r1)
  PROVE  /\ Tells(done'[1], from[1], r0) /\ done'[1].loop = "first"
         /\ Tells(done'[2], from[2], r1) /\ done'[2].loop = "second"
         /\ Len(done') = 2 /\ DOMAIN done' = {1, 2}
         /\ nsh_entries' = r1.entries /\ fault' = FirstFault(r0, r1)
         /\ node' = node /\ ioam' = ioam
<1> DEFINE d0 == Round(from[1], "first", r0)
           d1 == Round(from[2], "second", r1)
<1>1. /\ done' = << d0, d1 >> /\ nsh_entries' = r1.entries /\ fault' = FirstFault(r0, r1)
      /\ node' = node /\ ioam' = ioam
  BY DEF EndDual
<1>2. /\ Tells(d0, from[1], r0) /\ d0.loop = "first"
      /\ Tells(d1, from[2], r1) /\ d1.loop = "second"
  BY DEF Tells, Round
<1> HIDE DEF d0, d1
<1> QED
  BY <1>1, <1>2

\* Two packets that have a key.
LEMMA DualFate ==
  ASSUME TypeInv, FateInv, DualLoop
  PROVE  FateInv'
<1>1. DualGuard
  BY DEF DualLoop
<1>2. PICK x0, x1, r0, r1 :
           /\ x0 = Parse(node, from[1]) /\ x1 = Parse(node, from[2])
           /\ x0.error = "none" /\ x1.error = "none"
           /\ FateOK(r0) /\ Processed(node, x0, x0.key, nsh_entries, ioam, r0)
           /\ FateOK(r1) /\ Processed(node, x1, x0.key, r0.entries, ioam, r1)
           /\ EndDual(r0, r1)
  BY DualLoopEffect
<1> DEFINE p0 == from[1]
           p1 == from[2]
           key == x0.key
           ents == r0.entries
           ds == done'
           d0 == ds[1]
           d1 == ds[2]
<1>3. /\ node \in NodeTypes /\ EntriesOK(nsh_entries) /\ ioam \in ConfigType
      /\ Roomy(node, p0) /\ Roomy(node, p1)
  BY <1>1, DualFinds
<1>4. /\ x0 = Parse(node, p0) /\ Processed(node, x0, key, nsh_entries, ioam, r0)
      /\ x1 = Parse(node, p1) /\ Processed(node, x1, key, ents, ioam, r1)
  BY <1>2
<1>5. /\ Tells(d0, p0, r0) /\ d0.loop = "first"
      /\ Tells(d1, p1, r1) /\ d1.loop = "second"
      /\ Len(ds) = 2 /\ DOMAIN ds = {1, 2}
      /\ nsh_entries' = r1.entries /\ fault' = FirstFault(r0, r1)
      /\ node' = node /\ ioam' = ioam
  BY <1>2, PairEnds
<1>6. OwnTlvs(nsh_entries, ioam)
  BY DEF FateInv
<1>7. EntriesOK(ents)
  BY <1>2 DEF FateOK
<1> HIDE DEF p0, p1, ents, key
<1>8. d0.was = p0 /\ d1.was = p1
  BY <1>5 DEF Tells
<1> HIDE DEF ds, d0, d1
<1>9. /\ r0.fault = "none" => ItsReason(node, d0, ioam)
      /\ ItsCause(node, d0, r0.fault, key, ioam)
      /\ OwnTlvs(ents, ioam)
  <2>1. ents = r0.entries
    BY DEF ents
  <2> QED
    BY <1>2, <1>3, <1>4, <1>5, <1>6, <2>1, ProcessedFate
<1>10. /\ r1.fault = "none" => ItsReason(node, d1, ioam)
       /\ ItsCause(node, d1, r1.fault, key, ioam)
       /\ OwnTlvs(r1.entries, ioam)
  BY <1>2, <1>3, <1>4, <1>5, <1>7, <1>9, ProcessedFate
<1>11. \/ r0.fault = "none" /\ fault' = r1.fault
       \/ r0.fault # "none" /\ fault' = r0.fault
  BY <1>5 DEF FirstFault
<1>12. /\ Parse(node, d0.was).error = "none" /\ Parse(node, d0.was).key = key
       /\ Parse(node, d1.was).error = "none"
  BY <1>2, <1>4, <1>8 DEF key
<1>13. fault' = "none" => \A i \in DOMAIN ds : RoundReason(node, ds, i, ioam)
  <2>1. SUFFICES ASSUME fault' = "none"
                 PROVE  RoundReason(node, ds, 1, ioam) /\ RoundReason(node, ds, 2, ioam)
    BY <1>5
  <2>2. /\ ItsReason(node, ds[1], ioam) /\ ds[1].loop = "first"
        /\ ItsReason(node, ds[2], ioam) /\ ds[2].loop = "second"
        /\ Parse(node, ds[1].was).error = "none" /\ Parse(node, ds[2].was).error = "none"
    BY <1>5, <1>9, <1>10, <1>11, <1>12, <2>1 DEF d0, d1
  <2> QED
    BY <2>2, OwnReason
<1>14. FaultsHaveCauses'
  <2>1. fault' = "overrun" => ItsOverrun(node, ds[1], ioam) \/ ItsOverrun(node, ds[2], ioam)
    BY <1>9, <1>10, <1>11 DEF ItsCause, d0, d1
  <2>2. fault' # "null_header"
    BY <1>9, <1>10, <1>11 DEF ItsCause
  <2>3. fault' = "null_map" => key \notin DOMAIN Maps
    BY <1>9, <1>10, <1>11 DEF ItsCause
  <2>4. /\ fault' = "no_adjacency" =>
             /\ node \in OutputNodes
             /\ ds[1].was.adj \notin DOMAIN Adjacency \/ ds[2].was.adj \notin DOMAIN Adjacency
        /\ fault' = "no_next" => node = "nsh-midchain"
    BY <1>9, <1>10, <1>11 DEF ItsCause, d0, d1
  <2>5. Parse(node, ds[1].was).error = "none" /\ Parse(node, ds[1].was).key = key
    BY <1>12 DEF d0
  <2>6. ds = done' /\ 1 \in DOMAIN ds /\ 2 \in DOMAIN ds
    BY <1>5 DEF ds
  <2> QED
    BY <1>5, <2>1, <2>2, <2>3, <2>4, <2>5, <2>6 DEF FaultsHaveCauses, ItsOverrun, TlvsOf
<1> QED
  BY <1>5, <1>10, <1>13, <1>14 DEF FateInv, ds

\* The second packet is refused: the first is dropped without an error of its own.
LEMMA SecondFailsFate ==
  ASSUME TypeInv, FateInv, DualSecondFails
  PROVE  FateInv'
<1> DEFINE p0 == from[1]
           p1 == from[2]
           x0 == Parse(node, p0)
           x1 == Parse(node, p1)
           r0 == Fate(x0.pkt, "error-drop", "unset", nsh_entries, "none")
           r1 == Fate(x1.pkt, "error-drop", x1.error, nsh_entries, "none")
           ds == done'
           d0 == ds[1]
           d1 == ds[2]
<1>1. DualGuard /\ x0.error = "none" /\ x1.error # "none" /\ EndDual(r0, r1)
  BY DEF DualSecondFails
<1>2. /\ node \in NodeTypes /\ Roomy(node, p0) /\ Roomy(node, p1)
  BY <1>1, DualFinds
<1>3. /\ Tells(d0, p0, r0) /\ d0.loop = "first"
      /\ Tells(d1, p1, r1) /\ d1.loop = "second"
      /\ Len(ds) = 2 /\ DOMAIN ds = {1, 2}
      /\ nsh_entries' = r1.entries /\ fault' = FirstFault(r0, r1)
      /\ node' = node /\ ioam' = ioam
  BY <1>1, PairEnds
<1>4. /\ r0.pkt = x0.pkt /\ r0.next = "error-drop" /\ r0.error = "unset" /\ r0.fault = "none"
      /\ r1.pkt = x1.pkt /\ r1.next = "error-drop" /\ r1.error = x1.error
      /\ r1.entries = nsh_entries /\ r1.fault = "none"
  BY DEF Fate
<1>5. x0 = Parse(node, p0) /\ x1 = Parse(node, p1)
  OBVIOUS
<1> HIDE DEF p0, p1, x0, x1, r0, r1, ds, d0, d1
<1>6. d0.was = p0 /\ d1.was = p1
  BY <1>3 DEF Tells
<1>7. RoundReason(node, ds, 1, ioam)
  <2>1. /\ ds[1].next = "error-drop" /\ ds[1].error = "unset" /\ ds[1].loop = "first"
        /\ ds[1].pkt.hdrs = Parse(node, ds[1].was).pkt.hdrs
        /\ Parse(node, ds[1].was).error = "none" /\ Parse(node, ds[2].was).error # "none"
    BY <1>1, <1>3, <1>4, <1>5, <1>6 DEF Tells, d0, d1
  <2>2. ~(node = "nsh-input" /\ Head(ds[1].was.hdrs).ttl = 1)
    BY <1>2, <2>1, RefusedTtl
  <2> QED
    BY <2>1, <2>2 DEF RoundReason
<1>8. RoundReason(node, ds, 2, ioam)
  <2>1. ItsReason(node, d1, ioam)
    BY <1>1, <1>2, <1>3, <1>4, <1>5, RefusedFate
  <2>2. /\ ItsReason(node, ds[2], ioam) /\ ds[2].loop = "second"
        /\ Parse(node, ds[1].was).error = "none"
    BY <1>1, <1>3, <1>5, <1>6, <2>1 DEF d0, d1
  <2> QED
    BY <2>2, OwnReason
<1>9. fault' = "none"
  BY <1>3, <1>4 DEF FirstFault
<1>10. FaultsHaveCauses'
  BY <1>9 DEF FaultsHaveCauses
<1>11. \A i \in DOMAIN ds : RoundReason(node, ds, i, ioam)
  BY <1>3, <1>7, <1>8
<1>12. OwnTlvs(nsh_entries, ioam)'
  BY <1>3, <1>4 DEF FateInv
<1> QED
  BY <1>3, <1>10, <1>11, <1>12 DEF FateInv, ds

\* The first packet is refused: the second is given some map's treatment.
LEMMA FirstFailsFate ==
  ASSUME TypeInv, FateInv, DualFirstFails
  PROVE  FateInv'
<1> DEFINE p0 == from[1]
           p1 == from[2]
           x0 == Parse(node, p0)
           err0 == x0.error
           r0 == Fate(x0.pkt, "error-drop", err0, nsh_entries, "none")
           ds == done'
           d0 == ds[1]
           d1 == ds[2]
<1>1. DualGuard /\ x0.error # "none"
  BY DEF DualFirstFails
<1>2. PICK key \in Path :
        LET r  == Forward(Parsed(p1, "none", key, 0), FALSE, NoPath, nsh_entries, ioam)
            r1 == IF key \in DOMAIN Maps
                     /\ \/ Maps[key].nsh_action = "pop"
                        \/ Maps[key].nsh_action = "swap" /\ r.error # "NO_ENTRY"
                    THEN Fate(r.pkt, r.next, r.error, r.entries, "null_header") ELSE r
        IN  EndDual(r0, r1)
  BY DEF DualFirstFails
<1> DEFINE x == Parsed(p1, "none", key, 0)
           r == Forward(x, FALSE, NoPath, nsh_entries, ioam)
           s == Fate(r.pkt, r.next, r.error, r.entries, "null_header")
           null == /\ key \in DOMAIN Maps
                   /\ \/ Maps[key].nsh_action = "pop"
                      \/ Maps[key].nsh_action = "swap" /\ r.error # "NO_ENTRY"
           r1 == IF null THEN s ELSE r
<1>3. EndDual(r0, r1)
  BY <1>2
<1>4. /\ node \in NodeTypes /\ EntriesOK(nsh_entries) /\ ioam \in ConfigType
      /\ Roomy(node, p0) /\ Roomy(node, p1)
  BY <1>1, DualFinds
<1>5. ParsedOK(x) /\ x.key = key /\ x.pkt = p1
  BY <1>4 DEF Parsed, ParsedOK, Roomy
<1>6. x0 = Parse(node, p0)
  OBVIOUS
<1>7. /\ r0.pkt = x0.pkt /\ r0.next = "error-drop" /\ r0.error = x0.error
      /\ r0.entries = nsh_entries /\ r0.fault = "none"
  BY DEF Fate
<1>8. /\ s.pkt = r.pkt /\ s.next = r.next /\ s.error = r.error /\ s.entries = r.entries
      /\ s.fault = "null_header"
  <2> HIDE DEF r
  <2> QED
    BY FateParts
<1>9. OwnTlvs(nsh_entries, ioam)
  BY DEF FateInv
<1>10. /\ Tells(d0, p0, r0) /\ d0.loop = "first"
       /\ Tells(d1, p1, r1) /\ d1.loop = "second"
       /\ Len(ds) = 2 /\ DOMAIN ds = {1, 2}
       /\ nsh_entries' = r1.entries /\ fault' = FirstFault(r0, r1)
       /\ node' = node /\ ioam' = ioam
  <2> HIDE DEF r0, r1
  <2> QED
    BY <1>3, PairEnds
\* What Forward makes of the second packet.
<1>11. /\ OwnTlvs(r.entries, ioam)
       /\ r.error \in {"none", "NO_MAPPING", "NO_ENTRY", "INVALID_OPTIONS"}
       /\ ~null => /\ r.next = "error-drop" <=> r.error = "NO_MAPPING"
                   /\ r.error # "none" => r.pkt.hdrs = p1.hdrs
                   /\ r.fault \in {"none", "overrun"}
                   /\ r.error # "INVALID_OPTIONS"
                   /\ r.fault = "overrun" =>
                        /\ r.error = "none"
                        /\ \E e \in DOMAIN EntryArgs :
                             Head(r.pkt.hdrs).path = e /\ e \in SwappedTo \cap PushedBy
  <2> DEFINE set_rx == FALSE
             rx_key == NoPath
  <2>1. r = Forward(x, set_rx, rx_key, nsh_entries, ioam) /\ set_rx \in BOOLEAN
    OBVIOUS
  <2> HIDE DEF x, r, s, r1, set_rx, rx_key
  <2>2. CASE key \notin DOMAIN Maps
    <3>1. r.entries = nsh_entries /\ Unmapped(x, r)
      BY <1>5, <2>1, <2>2, ForwardUnmapped
    <3> QED
      BY <1>5, <1>9, <3>1 DEF Unmapped
  <2>3. CASE key \in DOMAIN Maps
    <3>1. /\ r.pkt \in PacketType
          /\ EntriesOK(r.entries) /\ DOMAIN r.entries = DOMAIN nsh_entries
          /\ Mapped(x, rx_key, nsh_entries, ioam, r)
      BY <1>4, <1>5, <2>1, <2>3, ForwardMapped
    <3>2. OwnTlvs(r.entries, ioam)
      BY <1>4, <1>5, <1>9, <2>3, <3>1, StayReady
    <3>3. /\ r.error \in {"none", "NO_ENTRY", "INVALID_OPTIONS"}
          /\ r.next = "error-drop" <=> r.error = "INVALID_OPTIONS"
          /\ r.error # "none" => r.pkt.hdrs = x.pkt.hdrs
          /\ r.fault \in {"none", "overrun", "null_map"}
          /\ r.fault = "null_map" => Maps[key].nsh_action = "pop"
      BY <1>5, <2>3, <3>1, MappedFate
    <3>4. ~null => r.fault # "null_map" /\ r.error # "INVALID_OPTIONS"
      <4>1. r.error = "INVALID_OPTIONS" => Maps[key].nsh_action = "pop"
        BY <1>5, <3>1 DEF Mapped, Unchanged, Swapped, Pushed
      <4> QED
        BY <2>3, <3>3, <4>1
    <3>5. ASSUME ~null, r.fault = "overrun"
          PROVE  /\ r.error = "none"
                 /\ \E e \in DOMAIN EntryArgs :
                      Head(r.pkt.hdrs).path = e /\ e \in SwappedTo \cap PushedBy
      <4>1. /\ r.error = "none"
            /\ \E e \in DOMAIN EntryArgs :
                 /\ Head(r.pkt.hdrs).path = e
                 /\ \/ /\ Maps[x.key].nsh_action = "swap"
                       /\ Overrun(e, Understood(TlvsOf(x), ioam.profile))
                    \/ e \in SwappedTo \cap PushedBy
        BY <1>4, <1>5, <1>9, <2>3, <3>1, <3>5, OverrunCause
      <4>2. Maps[x.key].nsh_action # "swap"
        BY <1>5, <2>3, <3>5, <4>1
      <4> QED
        BY <4>1, <4>2
    <3> QED
      BY <1>5, <3>2, <3>3, <3>4, <3>5
  <2> QED
    BY <2>2, <2>3
<1> HIDE DEF p0, p1, x0, err0, r0, ds, d0, d1, x, r, s, null
<1>12. d0.was = p0 /\ d1.was = p1
  BY <1>10 DEF Tells
<1>13. fault' = r1.fault
  BY <1>7, <1>10 DEF FirstFault
<1>14. fault' = "none" => \A i \in DOMAIN ds : RoundReason(node, ds, i, ioam)
  <2>1. SUFFICES ASSUME fault' = "none"
                 PROVE  RoundReason(node, ds, 1, ioam) /\ RoundReason(node, ds, 2, ioam)
    BY <1>10
  <2>2. RoundReason(node, ds, 1, ioam)
    <3>1. ItsReason(node, d0, ioam)
      BY <1>1, <1>4, <1>6, <1>7, <1>10, RefusedFate
    <3>2. /\ ItsReason(node, ds[1], ioam) /\ ds[1].loop = "first"
          /\ Parse(node, ds[1].was).error # "none"
      BY <1>1, <1>6, <1>10, <1>12, <3>1 DEF d0
    <3> QED
      BY <3>2, OwnReason
  <2>3. RoundReason(node, ds, 2, ioam)
    <3>1. ~null /\ r1 = r
      BY <1>8, <1>13, <2>1
    <3>2. /\ ds[2].loop = "second" /\ Parse(node, ds[1].was).error # "none"
          /\ ds[2].was = p1 /\ ds[2].pkt = r.pkt /\ ds[2].next = r.next
          /\ ds[2].error = r.error
      BY <1>1, <1>6, <1>10, <1>12, <3>1 DEF d0, d1, Tells
    <3>3. /\ r.error \in {"none", "NO_MAPPING", "NO_ENTRY"}
          /\ r.next = "error-drop" <=> r.error = "NO_MAPPING"
          /\ r.error # "none" => r.pkt.hdrs = p1.hdrs
      BY <1>11, <3>1
    <3> QED
      BY <3>2, <3>3 DEF RoundReason
  <2> QED
    BY <2>2, <2>3
<1>15. FaultsHaveCauses'
  <2>1. CASE null
    <3>1. fault' = "null_header"
      BY <1>8, <1>13, <2>1
    <3>2. Len(done') = 2 /\ Parse(node, done'[1].was).error # "none"
      BY <1>1, <1>6, <1>10, <1>12 DEF d0, ds
    <3> QED
      BY <1>10, <3>1, <3>2 DEF FaultsHaveCauses
  <2>2. CASE ~null
    <3>1. /\ fault' \in {"none", "overrun"} /\ r1 = r
          /\ fault' = "overrun" =>
               /\ r.error = "none"
               /\ \E e \in DOMAIN EntryArgs :
                    Head(r.pkt.hdrs).path = e /\ e \in SwappedTo \cap PushedBy
      BY <1>11, <1>13, <2>2
    <3>2. 2 \in DOMAIN done' /\ done'[2].pkt = r.pkt /\ done'[2].error = r.error
      BY <1>10, <3>1 DEF Tells, d1, ds
    <3> QED
      BY <3>1, <3>2 DEF FaultsHaveCauses
  <2> QED
    BY <2>1, <2>2
<1>16. OwnTlvs(nsh_entries, ioam)'
  <2>1. r1.entries = r.entries
    BY <1>8
  <2> QED
    BY <1>10, <1>11, <2>1
<1> QED
  BY <1>10, <1>14, <1>15, <1>16 DEF FateInv, ds

\* Between frames nothing has been done yet.
LEMMA IdleFate ==
  ASSUME TypeInv, FateInv, done' = << >>, fault' = fault, fault = "none",
         OwnTlvs(nsh_entries, ioam)'
  PROVE  FateInv'
<1>1. DOMAIN done' = {}
  OBVIOUS
<1>2. FaultsHaveCauses'
  BY DEF FaultsHaveCauses
<1> QED
  BY <1>1, <1>2 DEF FateInv

\* The other steps.
LEMMA OtherFate ==
  ASSUME TypeInv, FateInv,
         \/ Dispatch \/ Handover \/ GetNextFrame \/ AddEntry \/ DelEntry
         \/ nsh_md2_set_next_ioam_export_override
  PROVE  FateInv'
<1>1. done' = << >> /\ fault' = fault /\ fault = "none"
  BY DEF Dispatch, Handover, GetNextFrame, AddEntry, DelEntry,
         nsh_md2_set_next_ioam_export_override
<1>2. EntriesOK(nsh_entries) /\ ioam \in ConfigType /\ OwnTlvs(nsh_entries, ioam)
  BY RoundFinds DEF FateInv
<1> DEFINE new == nsh_entries'
<1>3. CASE Dispatch \/ Handover \/ GetNextFrame
  <2>1. nsh_entries' = nsh_entries /\ ioam' = ioam
    BY <1>3 DEF Dispatch, Handover, GetNextFrame
  <2> QED
    BY <1>1, <1>2, <2>1, IdleFate
<1>4. CASE AddEntry \/ DelEntry
  <2>1. /\ DOMAIN new \subseteq DOMAIN EntryArgs
        /\ \A e \in DOMAIN new : \/ e \in DOMAIN nsh_entries /\ new[e] = nsh_entries[e]
                                 \/ new[e] = nsh_header_rewrite(e, ioam.profile)
        /\ ioam' = ioam
    <3>1. CASE AddEntry
      <4>1. PICK e \in DOMAIN EntryArgs \ DOMAIN nsh_entries :
              nsh_entries' =
                [f \in DOMAIN nsh_entries \cup {e} |->
                   IF f = e THEN nsh_header_rewrite(e, ioam.profile) ELSE nsh_entries[f]]
        BY <3>1 DEF AddEntry
      <4>2. DOMAIN new = DOMAIN nsh_entries \cup {e} /\ ioam' = ioam
        BY <3>1, <4>1 DEF AddEntry
      <4> QED
        BY <1>2, <4>1, <4>2 DEF EntriesOK
    <3>2. CASE DelEntry
      <4>1. PICK e \in DOMAIN nsh_entries :
              nsh_entries' = [f \in DOMAIN nsh_entries \ {e} |-> nsh_entries[f]]
        BY <3>2 DEF DelEntry
      <4>2. DOMAIN new = DOMAIN nsh_entries \ {e} /\ ioam' = ioam
        BY <3>2, <4>1 DEF DelEntry
      <4> QED
        BY <1>2, <4>1, <4>2 DEF EntriesOK
    <3> QED
      BY <1>4, <3>1, <3>2
  <2> HIDE DEF new
  <2>2. OwnTlvs(new, ioam)
    BY <1>2, <2>1, OthersReady
  <2> QED
    BY <1>1, <2>1, <2>2, IdleFate DEF new
<1>5. CASE nsh_md2_set_next_ioam_export_override
  <2>1. nsh_entries' = nsh_entries /\ ioam'.profile = ioam.profile
    BY <1>2, <1>5 DEF nsh_md2_set_next_ioam_export_override, ConfigType
  <2>2. OwnTlvs(nsh_entries, ioam)'
    BY <1>2, <2>1 DEF OwnTlvs, EntryReady, Handled
  <2> QED
    BY <1>1, <2>2, IdleFate
<1> QED
  BY <1>3, <1>4, <1>5

\* The entries of the initial states have the TLVs they were added with.
LEMMA InitFate == Init => FateInv
<1> SUFFICES ASSUME Init
             PROVE  FateInv
  OBVIOUS
<1>1. done = << >> /\ fault = "none" /\ ioam \in ConfigType
      /\ nsh_entries = [e \in DOMAIN EntryArgs |-> nsh_header_rewrite(e, ioam.profile)]
  BY FrameAssumption DEF Init, ConfigType
<1>2. ASSUME NEW e \in DOMAIN nsh_entries, EntryArgs[e].md_type = 2
      PROVE  EntryReady(nsh_entries, e, ioam)
  BY <1>1, <1>2, NewEntry
<1>3. OwnTlvs(nsh_entries, ioam)
  BY <1>2 DEF OwnTlvs
<1>4. DOMAIN done = {} /\ FaultsHaveCauses
  BY <1>1 DEF FaultsHaveCauses
<1> QED
  BY <1>3, <1>4 DEF FateInv

\* The invariant of fates, for all that is configured and all that comes.
LEMMA AlwaysFateInv == Spec => [](TypeInv /\ FateInv)
<1>1. Init => TypeInv /\ FateInv
  BY InitType, InitFate
<1>2. TypeInv /\ FateInv /\ [Next]_vars => FateInv'
  <2> SUFFICES ASSUME TypeInv, FateInv, [Next]_vars
               PROVE  FateInv'
    OBVIOUS
  <2>1. CASE SingleLoop
    BY <2>1, SingleFate
  <2>2. CASE DualLoop
    BY <2>2, DualFate
  <2>3. CASE DualSecondFails
    BY <2>3, SecondFailsFate
  <2>4. CASE DualFirstFails
    BY <2>4, FirstFailsFate
  <2>5. CASE \/ Dispatch \/ Handover \/ GetNextFrame \/ AddEntry \/ DelEntry
             \/ nsh_md2_set_next_ioam_export_override
    BY <2>5, OtherFate
  <2>6. CASE UNCHANGED vars
    BY <2>6 DEF vars, frameVars, FateInv, FaultsHaveCauses
  <2> QED
    BY <2>1, <2>2, <2>3, <2>4, <2>5, <2>6 DEF Next, NodeStep
<1>3. TypeInv /\ [Next]_vars => TypeInv'
  BY NextType
<1> QED
  BY <1>1, <1>2, <1>3, PTL DEF Spec

\* Every packet has the fate its error says, in rounds of one and of two, whatever
\* the maps, the entries and the packets are: what is dropped is dropped for an
\* error of its own or for that of the packet behind it, what is not goes where
\* the map of its key says, and a ttl of zero is not refused.
THEOREM FatesHaveReasons == Spec => []FateHasReason
<1>1. FateInv => FateHasReason
  BY DEF FateInv, RoundReason, FateHasReason, Unparsed, MapOf
<1> QED
  BY <1>1, AlwaysFateInv, PTL

\* The nodes run over memory or follow a wrong pointer for the causes named and for
\* no other, whatever the maps, the entries and the packets are.
THEOREM FaultsAreCaused == Spec => []FaultsHaveCauses
<1>1. FateInv => FaultsHaveCauses
  BY DEF FateInv
<1> QED
  BY <1>1, AlwaysFateInv, PTL

-----------------------------------------------------------------------------
\* The detour

\* A packet iOAM export has sent to nsh-pop.
Exported(p, cfg) ==
  /\ cfg.profile = TRUE
  /\ "nsh-pop" \in DOMAIN Arrivals /\ p \in Arrivals["nsh-pop"]

\* It goes where its map says, without its NSH header.
Straight(p, hdrs, next) ==
  hdrs = Tail(p.hdrs) /\ next = Maps[Head(p.hdrs).path].next_node

LEMMA ExportedHeader ==
  ASSUME ExportsTrue, NEW cfg, NEW p, Exported(p, cfg)
  PROVE  /\ Roomy("nsh-pop", p) /\ Roomy("nsh-input", p) /\ p.hdrs # << >>
         /\ Head(p.hdrs) \in HeaderType
         /\ Head(p.hdrs).path \in DOMAIN Maps /\ Maps[Head(p.hdrs).path].nsh_action = "pop"
         /\ Head(p.hdrs).md_type = 2
         /\ Understood(Head(p.hdrs).tlvs, TRUE) = Head(p.hdrs).tlvs
         /\ Head(p.hdrs).ttl % 4 = 0 /\ Head(p.hdrs).ttl # 1
         /\ Head(p.hdrs).bytes = Head(p.hdrs).length /\ Head(p.hdrs).length # 0
<1>1. Roomy("nsh-pop", p)
  BY ArrivalRoomy DEF Exported
<1>2. Roomy("nsh-input", p) /\ p.hdrs # << >> /\ p.hdrs \in Seq(HeaderType)
  BY <1>1, PacketParts DEF Roomy
<1>3. Head(p.hdrs) \in HeaderType
  BY <1>2, TakeOff
<1> DEFINE h == Head(p.hdrs)
<1>4. /\ h.path \in DOMAIN Maps /\ Maps[h.path].nsh_action = "pop"
      /\ h.md_type = 2 /\ Understood(h.tlvs, TRUE) = h.tlvs
      /\ h.ttl % 4 = 0 /\ h.bytes = h.length /\ h.length > 0
  BY DEF ExportsTrue, Exported
<1> HIDE DEF h
<1>5. h.ttl # 1
  BY <1>4
<1>6. h.length # 0
  BY <1>4
<1> QED
  BY <1>1, <1>2, <1>3, <1>4, <1>5, <1>6 DEF h

LEMMA PoppedStraight ==
  ASSUME ExportsTrue, NEW cfg, NEW p, Exported(p, cfg), NEW x, x = Parse("nsh-pop", p),
         NEW ents, NEW r, PopOnly(x, ents, r)
  PROVE  Straight(p, r.pkt.hdrs, r.next)
<1> DEFINE h == Head(p.hdrs)
<1>1. /\ Roomy("nsh-pop", p) /\ h \in HeaderType
      /\ h.path \in DOMAIN Maps /\ Maps[h.path].nsh_action = "pop"
      /\ h.ttl % 4 = 0 /\ h.bytes = h.length
  BY ExportedHeader
<1>2. "nsh-pop" \in NodeTypes
  BY DEF NodeTypes
<1>3. x.pkt = p /\ x.key = h.path /\ x.header_len = h.length + 256 * (h.ttl % 4)
  BY <1>1 DEF Parse, ParsePop, Parsed
<1> HIDE DEF h
<1>4. h.length \in Nat
  BY <1>1, HeaderParts
<1>5. x.header_len = h.bytes /\ x.header_len \in Nat
  BY <1>1, <1>3, <1>4
<1>6. r.pkt = AdvanceBytes(p, x.header_len) /\ r.next = Maps[h.path].next_node
  BY <1>1, <1>3 DEF PopOnly, NextOf
<1>7. p \in PacketType /\ Len(p.hdrs) >= 2
  BY <1>1 DEF Roomy
<1>8. r.pkt.hdrs = Tail(p.hdrs)
  BY <1>5, <1>6, <1>7, AdvanceBytesEffect DEF h
<1> QED
  BY <1>6, <1>8 DEF Straight, h

\* nsh-input pops it the same way when export is off.
LEMMA DirectStraight ==
  ASSUME ExportsTrue, NEW cfg \in ConfigType, NEW p, Exported(p, cfg),
         NEW ents, EntriesOK(ents), NEW off \in ConfigType,
         off.profile = cfg.profile, off.export = FALSE,
         NEW r, r = SinglePacket("nsh-input", p, ents, off)
  PROVE  Straight(p, r.pkt.hdrs, r.next)
<1> DEFINE h == Head(p.hdrs)
           x == Parse("nsh-input", p)
<1>1. /\ Roomy("nsh-input", p) /\ h \in HeaderType /\ p.hdrs # << >>
      /\ h.path \in DOMAIN Maps /\ Maps[h.path].nsh_action = "pop"
      /\ h.md_type = 2 /\ Understood(h.tlvs, TRUE) = h.tlvs
      /\ h.ttl # 1 /\ h.length # 0
  BY ExportedHeader
<1>2. "nsh-input" \in NodeTypes
  BY DEF NodeTypes
<1>3. x.pkt = p /\ x.key = h.path /\ x.header_len = h.length /\ x.error = "none"
  BY <1>1 DEF Parse, ParseInput, Parsed
<1>4. x = Parse("nsh-input", p)
  OBVIOUS
<1> HIDE DEF x
<1>5. Processed("nsh-input", x, x.key, ents, off, r)
  BY <1>1, <1>2, <1>3, <1>4, SingleEffect
<1>6. Popped(x, x.key, off, r)
  BY <1>1, <1>3, <1>5 DEF Processed, Mapped, OutputNodes
<1>7. IsMd2(x) /\ TlvsOf(x) = h.tlvs
  BY <1>1, <1>3 DEF IsMd2, TlvsOf, Tlvs
<1>8. Understood(TlvsOf(x), off.profile) = TlvsOf(x)
  BY <1>1, <1>7 DEF Exported
<1>9. RxInterface(x.key) # NoInterface
  BY <1>1, <1>3, MapParts
<1>10. r.pkt.hdrs = Advanced(x.pkt.hdrs, x.header_len) /\ r.next = NextOf(x)
  BY <1>6, <1>7, <1>8, <1>9 DEF Popped
<1> QED
  BY <1>1, <1>3, <1>10 DEF Straight, Advanced, NextOf

\* The packets at nsh-pop are there with a trace profile, and are popped.
DetourInv ==
  node = "nsh-pop" =>
    /\ \A i \in DOMAIN from : Exported(from[i], ioam)
    /\ \A i \in DOMAIN done : /\ Exported(done[i].was, ioam)
                              /\ Straight(done[i].was, done[i].pkt.hdrs, done[i].next)

LEMMA DetourDispatch ==
  ASSUME TypeInv, DetourInv, Dispatch
  PROVE  DetourInv'
<1>0. PICK n \in DOMAIN Arrivals, k \in 1 .. MaxFrame :
        /\ n = "nsh-pop" => ioam.export /\ ioam.profile
        /\ node' = n /\ \E f \in [1 .. k -> Arrivals[n]] : from' = f
  BY DEF Dispatch
<1>1. PICK f \in [1 .. k -> Arrivals[n]] : node' = n /\ from' = f
  BY <1>0
<1>2. DOMAIN done' = {} /\ ioam' = ioam
  BY DEF Dispatch
<1>3. ioam.profile \in BOOLEAN
  BY RoundFinds DEF ConfigType
<1>4. SUFFICES ASSUME n = "nsh-pop", NEW i \in DOMAIN from'
               PROVE  Exported(from'[i], ioam)
  BY <1>1, <1>2 DEF DetourInv
<1>5. from'[i] \in Arrivals[n]
  BY <1>1, <1>4
<1>6. ioam.profile = TRUE
  BY <1>0, <1>3, <1>4
<1> QED
  BY <1>4, <1>5, <1>6 DEF Exported

LEMMA DetourOne ==
  ASSUME ExportsTrue, TypeInv, DetourInv, SingleLoop
  PROVE  DetourInv'
<1>1. PICK r :
        /\ from # << >> /\ from' = Tail(from)
        /\ Made(node, Parse(node, from[1]), nsh_entries, ioam, r)
        /\ Len(done') = 1 /\ DOMAIN done' = {1} /\ Tells(done'[1], from[1], r)
        /\ UNCHANGED << node, ioam >>
  BY SingleRound DEF OnePacket
<1>2. /\ from \in Seq(PacketType) /\ Len(from) \in Nat
      /\ \A i \in 1 .. Len(from) : Roomy(node, from[i])
  BY RoundFinds
<1>3. Len(from) >= 1
  BY <1>1, <1>2, NotEmpty
<1>4. SUFFICES ASSUME node = "nsh-pop"
               PROVE  /\ \A i \in DOMAIN from' : Exported(from'[i], ioam)
                      /\ Exported(done'[1].was, ioam)
                      /\ Straight(done'[1].was, done'[1].pkt.hdrs, done'[1].next)
  BY <1>1 DEF DetourInv
<1> DEFINE p == from[1]
           x == Parse("nsh-pop", p)
<1>5. Exported(p, ioam) /\ Roomy("nsh-pop", p)
  <2>1. 1 \in DOMAIN from /\ 1 \in 1 .. Len(from)
    BY <1>2, <1>3
  <2> QED
    BY <1>2, <1>4, <2>1 DEF DetourInv
<1>6. x = Parse("nsh-pop", p) /\ Made("nsh-pop", x, nsh_entries, ioam, r)
  BY <1>1, <1>4
<1> HIDE DEF p, x
<1>7. x.error = "none"
  BY <1>6 DEF Parse, ParsePop, Parsed
<1>8. PopOnly(x, nsh_entries, r)
  BY <1>6, <1>7 DEF Made, Processed, OutputNodes
<1>9. Straight(p, r.pkt.hdrs, r.next)
  BY <1>5, <1>6, <1>8, PoppedStraight
<1>10. done'[1].was = p /\ done'[1].pkt = r.pkt /\ done'[1].next = r.next
  BY <1>1 DEF Tells, p
<1>11. \A i \in DOMAIN from' : Exported(from'[i], ioam)
  <2>1. 1 \in 1 .. Len(from) /\ from' = SubSeq(from, 1 + 1, Len(from))
    BY <1>1, <1>2, <1>3
  <2> DEFINE t == from'
             k == 1
  <2>2. t = SubSeq(from, k + 1, Len(from)) /\ k \in 1 .. Len(from)
    BY <2>1
  <2> HIDE DEF t, k
  <2>3. /\ t \in Seq(PacketType)
        /\ \A i \in 1 .. Len(t) : i + k \in 1 .. Len(from) /\ t[i] = from[i + k]
    BY <1>2, <2>2, Dropped
  <2>4. DOMAIN t = 1 .. Len(t) /\ DOMAIN from = 1 .. Len(from)
    BY <1>2, <2>3
  <2> QED
    BY <1>4, <2>3, <2>4 DEF DetourInv, t
<1> QED
  BY <1>5, <1>9, <1>10, <1>11

LEMMA DetourTwo ==
  ASSUME ExportsTrue, TypeInv, DetourInv, DualLoop
  PROVE  DetourInv'
<1>1. PICK x0, x1, r0, r1 :
           /\ x0 = Parse(node, from[1]) /\ x1 = Parse(node, from[2])
           /\ Processed(node, x0, x0.key, nsh_entries, ioam, r0)
           /\ Processed(node, x1, x0.key, r0.entries, ioam, r1)
           /\ EndDual(r0, r1)
  BY DualLoopEffect
<1>2. /\ from \in Seq(PacketType) /\ Len(from) \in Nat
  BY RoundFinds
<1>3. Len(from) >= 4
  BY DEF DualLoop, DualGuard
<1> DEFINE d0 == Round(from[1], "first", r0)
           d1 == Round(from[2], "second", r1)
<1>4. /\ done' = << d0, d1 >> /\ from' = SubSeq(from, 3, Len(from))
      /\ node' = node /\ ioam' = ioam
  BY <1>1 DEF EndDual
<1>5. Tells(d0, from[1], r0) /\ Tells(d1, from[2], r1)
  BY DEF Tells, Round
<1> HIDE DEF d0, d1
<1>6. DOMAIN done' = {1, 2} /\ done'[1] = d0 /\ done'[2] = d1
  BY <1>4
<1>7. SUFFICES ASSUME node = "nsh-pop"
               PROVE  /\ \A i \in DOMAIN from' : Exported(from'[i], ioam)
                      /\ Exported(d0.was, ioam) /\ Straight(d0.was, d0.pkt.hdrs, d0.next)
                      /\ Exported(d1.was, ioam) /\ Straight(d1.was, d1.pkt.hdrs, d1.next)
  BY <1>4, <1>6 DEF DetourInv
<1> DEFINE p0 == from[1]
           p1 == from[2]
<1>8. Exported(p0, ioam) /\ Exported(p1, ioam)
  <2>1. 1 \in DOMAIN from /\ 2 \in DOMAIN from
    BY <1>2, <1>3
  <2> QED
    BY <1>7, <2>1 DEF DetourInv
<1>9. /\ x0 = Parse("nsh-pop", p0) /\ x1 = Parse("nsh-pop", p1)
      /\ Tells(d0, p0, r0) /\ Tells(d1, p1, r1)
  BY <1>1, <1>5, <1>7
<1> HIDE DEF p0, p1
<1> DEFINE ents == r0.entries
<1>10. PopOnly(x0, nsh_entries, r0) /\ PopOnly(x1, ents, r1)
  BY <1>1, <1>7 DEF Processed, OutputNodes
<1> HIDE DEF ents
<1>11. Straight(p0, r0.pkt.hdrs, r0.next)
  BY <1>8, <1>9, <1>10, PoppedStraight
<1>12. Straight(p1, r1.pkt.hdrs, r1.next)
  BY <1>8, <1>9, <1>10, PoppedStraight
<1>13. \A i \in DOMAIN from' : Exported(from'[i], ioam)
  <2> DEFINE t == from'
             k == 2
  <2>1. k + 1 = 3 /\ k \in 1 .. Len(from)
    BY <1>2, <1>3
  <2>2. t = SubSeq(from, k + 1, Len(from))
    BY <1>4, <2>1
  <2> HIDE DEF t, k
  <2>3. /\ t \in Seq(PacketType)
        /\ \A i \in 1 .. Len(t) : i + k \in 1 .. Len(from) /\ t[i] = from[i + k]
    BY <1>2, <2>1, <2>2, Dropped
  <2>4. DOMAIN t = 1 .. Len(t) /\ DOMAIN from = 1 .. Len(from)
    BY <1>2, <2>3
  <2> QED
    BY <1>7, <2>3, <2>4 DEF DetourInv, t
<1> QED
  BY <1>8, <1>9, <1>11, <1>12, <1>13 DEF Tells

LEMMA DetourNext ==
  ASSUME ExportsTrue, TypeInv, DetourInv, [Next]_vars
  PROVE  DetourInv'
<1>1. CASE Dispatch
  BY <1>1, DetourDispatch
<1>2. CASE Handover
  BY <1>2, HandoverPackets DEF DetourInv
<1>3. CASE GetNextFrame
  BY <1>3 DEF GetNextFrame, DetourInv
<1>4. CASE SingleLoop
  BY <1>4, DetourOne
<1>5. CASE DualLoop
  BY <1>5, DetourTwo
<1>6. CASE DualSecondFails \/ DualFirstFails
  <2>1. ASSUME node = "nsh-pop"
        PROVE  Parse(node, from[1]).error = "none" /\ Parse(node, from[2]).error = "none"
    BY <2>1 DEF Parse, ParsePop, Parsed
  <2>2. node' = node
    BY <1>6 DEF DualSecondFails, DualFirstFails, EndDual
  <2> QED
    BY <1>6, <2>1, <2>2 DEF DualSecondFails, DualFirstFails, DetourInv
<1>7. CASE AddEntry
  BY <1>7 DEF AddEntry, DetourInv
<1>8. CASE DelEntry
  BY <1>8 DEF DelEntry, DetourInv
<1>9. CASE nsh_md2_set_next_ioam_export_override
  <2>1. DOMAIN from' = {} /\ DOMAIN done' = {}
    BY <1>9 DEF nsh_md2_set_next_ioam_export_override
  <2> QED
    BY <2>1 DEF DetourInv
<1>10. CASE UNCHANGED vars
  BY <1>10 DEF vars, frameVars, DetourInv
<1> QED
  BY <1>1, <1>2, <1>3, <1>4, <1>5, <1>6, <1>7, <1>8, <1>9, <1>10 DEF Next, NodeStep

\* A packet that was sent by way of iOAM export leaves nsh-pop as nsh-input would
\* have sent it, for frames of any length, when the ttl bits nsh-pop takes for
\* bits of the length are zero.
THEOREM DetourChangesNothing ==
  ASSUME ExportsTrue
  PROVE  Spec => []ExportDetour
<1>1. Init => TypeInv /\ DetourInv
  <2>1. Init => DetourInv
    <3>1. ASSUME Init
          PROVE  DOMAIN from = {} /\ DOMAIN done = {}
      BY <3>1 DEF Init
    <3> QED
      BY <3>1 DEF DetourInv
  <2> QED
    BY <2>1, InitType
<1>2. TypeInv /\ DetourInv /\ [Next]_vars => (TypeInv /\ DetourInv)'
  BY NextType, DetourNext
<1>3. TypeInv /\ DetourInv => ExportDetour
  <2>1. SUFFICES ASSUME TypeInv, DetourInv, node = "nsh-pop", NEW i \in DOMAIN done
                 PROVE  LET direct == SinglePacket("nsh-input", done[i].was, nsh_entries,
                                                   [ioam EXCEPT !.export = FALSE])
                        IN  /\ done[i].next = direct.next
                            /\ done[i].pkt.hdrs = direct.pkt.hdrs
    BY DEF ExportDetour
  <2> DEFINE p == done[i].was
             off == [ioam EXCEPT !.export = FALSE]
             r == SinglePacket("nsh-input", p, nsh_entries, off)
  <2>2. Exported(p, ioam) /\ Straight(p, done[i].pkt.hdrs, done[i].next)
    BY <2>1 DEF DetourInv
  <2>3. EntriesOK(nsh_entries) /\ ioam \in ConfigType
    BY <2>1, RoundFinds
  <2>4. off \in ConfigType /\ off.profile = ioam.profile /\ off.export = FALSE
    BY <2>3 DEF ConfigType
  <2>5. r = SinglePacket("nsh-input", p, nsh_entries, off)
    OBVIOUS
  <2> HIDE DEF p, off, r
  <2>6. Straight(p, r.pkt.hdrs, r.next)
    BY <2>2, <2>3, <2>4, <2>5, DirectStraight
  <2> QED
    BY <2>2, <2>6 DEF Straight, r, off, p
<1> QED
  BY <1>1, <1>2, <1>3, PTL DEF Spec
=============================================================================
