-------------------------- MODULE NshWorkersProofs --------------------------
(***************************************************************************)
(* Proofs about NshWorkers, for any number of workers and of packets, any  *)
(* entries and any options: however the loads and stores of the workers    *)
(* mix, one that had the entry to itself sends the right header.           *)
(***************************************************************************)
EXTENDS NshWorkers, SharedLemmas

-----------------------------------------------------------------------------
\* Options

Lists == OptionLists \cup {<< >>}

LEMMA ListType ==
  ASSUME NEW sizes \in Lists
  PROVE  /\ sizes \in Seq(1 .. 61) /\ Len(sizes) \in Nat
         /\ \A k \in 1 .. Len(sizes) : sizes[k] \in Sizes /\ sizes[k] \in 1 .. 61
<1>1. sizes \in Seq(1 .. 61)
  BY OptionAssumption, EmptySeq DEF Lists
<1>2. \A k \in 1 .. Len(sizes) : sizes[k] \in 1 .. 61
  BY <1>1, ElementOfSeq
<1>3. ASSUME NEW k \in 1 .. Len(sizes)
      PROVE  sizes[k] \in Sizes
  <2>1. sizes \in OptionLists
    <3>1. sizes # << >>
      BY <1>1
    <3> QED
      BY <3>1 DEF Lists
  <2>2. k \in DOMAIN sizes
    BY <1>1
  <2>3. sizes[k] \in ToSet(sizes)
    BY <2>2 DEF ToSet
  <2> QED
    BY <2>1, <2>3 DEF Sizes
<1> QED
  BY <1>1, <1>2, <1>3

LEMMA SizesType == Sizes \subseteq 1 .. 61
<1> SUFFICES ASSUME NEW sizes \in OptionLists, NEW s \in ToSet(sizes)
             PROVE  s \in 1 .. 61
  BY DEF Sizes
<1>1. sizes \in Lists
  BY DEF Lists
<1>2. PICK k \in DOMAIN sizes : s = sizes[k]
  BY DEF ToSet
<1>3. k \in 1 .. Len(sizes)
  BY <1>1, ListType
<1> QED
  BY <1>1, <1>2, <1>3, ListType

\* What FirstSizes computes.
LEMMA FirstSizesSteps ==
  ASSUME NEW sizes \in Lists
  PROVE  /\ FirstSizes(sizes)[0] = 0
         /\ \A k \in 1 .. Len(sizes) :
              FirstSizes(sizes)[k] = FirstSizes(sizes)[k - 1] + sizes[k]
         /\ \A k \in 0 .. Len(sizes) : FirstSizes(sizes)[k] \in Nat
<1> DEFINE n == Len(sizes)
           Is(f) == f = [k \in 0 .. n |-> IF k = 0 THEN 0 ELSE f[k - 1] + sizes[k]]
           step == [k \in 1 .. n |-> [v \in Nat |-> v + sizes[k]]]
<1>1. n \in Nat /\ \A k \in 1 .. n : sizes[k] \in Nat
  <2>1. \A k \in 1 .. n : sizes[k] \in 1 .. 61
    BY ListType
  <2>2. n \in Nat
    BY ListType
  <2>3. 1 .. 61 \subseteq Nat
    OBVIOUS
  <2> QED
    BY <2>1, <2>2, <2>3, Zenon
<1>2. step \in [1 .. n -> [Nat -> Nat]]
  BY <1>1
<1>3. PICK f \in [0 .. n -> Nat] :
        \A k \in 0 .. n : f[k] = IF k = 0 THEN 0 ELSE step[k][f[k - 1]]
  <2>1. n \in Nat /\ 0 \in Nat
    BY <1>1
  <2> HIDE DEF step, n
  <2>2. \E f \in [0 .. n -> Nat] : BySteps(f, n, 0, step)
    BY <1>2, <2>1, StepsExist
  <2> QED
    BY <2>2 DEF BySteps
<1>4. Is(f)
  <2>1. ASSUME NEW k \in 0 .. n
        PROVE  f[k] = IF k = 0 THEN 0 ELSE f[k - 1] + sizes[k]
    <3>1. CASE k = 0
      BY <1>3, <3>1
    <3>2. CASE k # 0
      <4>1. k \in 1 .. n /\ k - 1 \in 0 .. n
        BY <3>2, <1>1
      <4>2. f[k - 1] \in Nat
        BY <4>1
      <4> QED
        BY <1>3, <3>2, <4>1, <4>2
    <3> QED
      BY <3>1, <3>2
  <2> QED
    BY <2>1
<1>5. FirstSizes(sizes) = CHOOSE g : Is(g)
  BY DEF FirstSizes
<1>6. Is(FirstSizes(sizes))
  BY <1>4, <1>5
<1> DEFINE s == FirstSizes(sizes)
           G == {k \in 0 .. n : s[k] \in Nat}
<1>7. s[0] = 0 /\ \A k \in 1 .. n : s[k] = s[k - 1] + sizes[k]
  BY <1>1, <1>6
<1> HIDE DEF Is, step, s
<1>8. 0 \in G
  BY <1>1, <1>7
<1>9. \A k \in 1 .. n : k - 1 \in G => k \in G
  BY <1>1, <1>7
<1> HIDE DEF G
<1>10. \A k \in 0 .. n : k \in G
  BY <1>1, <1>8, <1>9, UpTo, Zenon
<1> QED
  BY <1>7, <1>10 DEF G, s

\* The options before one, and it, are no longer than all of them.
LEMMA FirstSizesGrow ==
  ASSUME NEW sizes \in Lists
  PROVE  /\ SumOf(sizes) \in Nat
         /\ \A k \in 0 .. Len(sizes) : FirstSizes(sizes)[k] <= SumOf(sizes)
<1> DEFINE n == Len(sizes)
           s == FirstSizes(sizes)
           G == {m \in 0 .. n : \A k \in 0 .. m : s[k] <= s[m]}
<1>1. n \in Nat /\ \A k \in 1 .. n : sizes[k] \in 1 .. 61
  BY ListType
<1>2. /\ s[0] = 0 /\ \A k \in 1 .. n : s[k] = s[k - 1] + sizes[k]
      /\ \A k \in 0 .. n : s[k] \in Nat
  BY FirstSizesSteps
<1> HIDE DEF s, n
<1>3. 0 \in G
  BY <1>1, <1>2
<1>4. ASSUME NEW m \in 1 .. n, m - 1 \in G
      PROVE  m \in G
  <2> SUFFICES ASSUME NEW k \in 0 .. m
               PROVE  s[k] <= s[m]
    BY <1>1
  <2>1. m - 1 \in 0 .. n /\ s[m] = s[m - 1] + sizes[m] /\ s[m - 1] \in Nat /\ sizes[m] \in Nat
    BY <1>1, <1>2
  <2>2. CASE k = m
    BY <1>2, <2>2
  <2>3. CASE k \in 0 .. m - 1
    <3>1. s[k] <= s[m - 1] /\ s[k] \in Nat
      BY <1>1, <1>2, <1>4, <2>3
    <3> QED
      BY <2>1, <3>1
  <2> QED
    BY <1>1, <2>2, <2>3
<1> HIDE DEF G
<1>5. \A m \in 0 .. n : m \in G
  BY <1>1, <1>3, <1>4, UpTo, Zenon
<1>6. n \in 0 .. n
  BY <1>1
<1> QED
  BY <1>2, <1>5, <1>6 DEF G, SumOf, s, n

LEMMA OptionWordsType ==
  ASSUME NEW n \in 0 .. MaxPackets, NEW size \in Sizes
  PROVE  /\ OptionWords(n, size) \in Seq(WordType)
         /\ Len(OptionWords(n, size)) = size
         /\ size \in 1 .. 61
         /\ OptionWords(n, size)[1].size = size
<1>1. size \in 1 .. 61
  BY SizesType
<1>2. \A i \in 1 .. size : [n |-> n, size |-> IF i = 1 THEN size ELSE 0] \in WordType
  BY DEF WordType
<1>3. OptionWords(n, size) \in Seq(WordType) /\ Len(OptionWords(n, size)) = size
  BY <1>1, <1>2 DEF OptionWords
<1> QED
  BY <1>1, <1>3 DEF OptionWords

\* What FirstWords computes: words, as many as FirstSizes says.
LEMMA FirstWordsSteps ==
  ASSUME NEW n \in 0 .. MaxPackets, NEW sizes \in Lists
  PROVE  /\ FirstWords(n, sizes)[0] = << >>
         /\ \A k \in 1 .. Len(sizes) :
              FirstWords(n, sizes)[k] = FirstWords(n, sizes)[k - 1] \o OptionWords(n, sizes[k])
         /\ \A k \in 0 .. Len(sizes) :
              /\ FirstWords(n, sizes)[k] \in Seq(WordType)
              /\ Len(FirstWords(n, sizes)[k]) = FirstSizes(sizes)[k]
<1> DEFINE l == Len(sizes)
           W == Seq(WordType)
           o(k) == OptionWords(n, sizes[k])
           Is(f) == f = [k \in 0 .. l |-> IF k = 0 THEN << >> ELSE f[k - 1] \o o(k)]
           step == [k \in 1 .. l |-> [v \in W |-> v \o o(k)]]
<1>1. /\ l \in Nat /\ << >> \in W
      /\ \A k \in 1 .. l : o(k) \in W /\ Len(o(k)) = sizes[k] /\ sizes[k] \in Nat
  <2>1. \A k \in 1 .. l : sizes[k] \in Sizes /\ sizes[k] \in 1 .. 61
    BY ListType
  <2>2. l \in Nat
    BY ListType
  <2> QED
    BY <2>1, <2>2, OptionWordsType, EmptySeq
<1> HIDE DEF o, W
<1>2. \A k \in 1 .. l : \A v \in W : v \o o(k) \in W /\ Len(v \o o(k)) = Len(v) + sizes[k]
  BY <1>1, ConcatProperties DEF W
<1>3. step \in [1 .. l -> [W -> W]]
  BY <1>2
<1>4. PICK f \in [0 .. l -> W] :
        \A k \in 0 .. l : f[k] = IF k = 0 THEN << >> ELSE step[k][f[k - 1]]
  <2> HIDE DEF step, l
  <2>1. \E f \in [0 .. l -> W] : BySteps(f, l, << >>, step)
    BY <1>1, <1>3, StepsExist
  <2> QED
    BY <2>1 DEF BySteps
<1>5. Is(f)
  <2>1. ASSUME NEW k \in 0 .. l
        PROVE  f[k] = IF k = 0 THEN << >> ELSE f[k - 1] \o o(k)
    <3>1. CASE k = 0
      BY <1>4, <3>1
    <3>2. CASE k # 0
      <4>1. k \in 1 .. l /\ k - 1 \in 0 .. l
        BY <3>2, <1>1
      <4>2. f[k - 1] \in W
        BY <4>1
      <4> QED
        BY <1>4, <3>2, <4>1, <4>2
    <3> QED
      BY <3>1, <3>2
  <2> QED
    BY <2>1
<1>6. FirstWords(n, sizes) = CHOOSE g : Is(g)
  BY Zenon DEF FirstWords, o
<1>7. Is(FirstWords(n, sizes))
  BY <1>5, <1>6
<1> DEFINE w == FirstWords(n, sizes)
           s == FirstSizes(sizes)
           G == {k \in 0 .. l : w[k] \in W /\ Len(w[k]) = s[k]}
<1>8. w[0] = << >> /\ \A k \in 1 .. l : w[k] = w[k - 1] \o o(k)
  <2>1. \A k \in 0 .. l : w[k] = IF k = 0 THEN << >> ELSE w[k - 1] \o o(k)
    BY <1>7
  <2>2. 0 \in 0 .. l /\ \A k \in 1 .. l : k \in 0 .. l /\ k # 0
    BY <1>1
  <2> HIDE DEF w, l
  <2> QED
    BY <2>1, <2>2
<1>9. s[0] = 0 /\ \A k \in 1 .. l : s[k] = s[k - 1] + sizes[k]
  BY FirstSizesSteps
<1> HIDE DEF Is, step, w, s, l
<1>10. 0 \in G
  <2>1. Len(w[0]) = 0
    BY <1>8
  <2> QED
    BY <1>1, <1>8, <1>9, <2>1
<1>11. \A k \in 1 .. l : k - 1 \in G => k \in G
  <2> TAKE k \in 1 .. l
  <2> HAVE k - 1 \in G
  <2>1. w[k - 1] \in W /\ Len(w[k - 1]) = s[k - 1]
    OBVIOUS
  <2>2. k \in 0 .. l /\ w[k] = w[k - 1] \o o(k) /\ s[k] = s[k - 1] + sizes[k]
    BY <1>1, <1>8, <1>9
  <2>3. w[k] \in W /\ Len(w[k]) = s[k]
    BY <1>2, <2>1, <2>2
  <2> QED
    BY <2>2, <2>3
<1> HIDE DEF G
<1>12. \A k \in 0 .. l : k \in G
  BY <1>1, <1>10, <1>11, UpTo, Zenon
<1> QED
  BY <1>8, <1>12 DEF G, w, s, l, W, o

\* Where an option stands among the words of all.
LEMMA WordsPlaced ==
  ASSUME NEW n \in 0 .. MaxPackets, NEW sizes \in Lists
  PROVE  /\ WordsOf(n, sizes) \in Seq(WordType)
         /\ Len(WordsOf(n, sizes)) = SumOf(sizes)
         /\ \A k \in 1 .. Len(sizes) : \A j \in 1 .. sizes[k] :
              WordsOf(n, sizes)[FirstSizes(sizes)[k - 1] + j] = OptionWords(n, sizes[k])[j]
<1> DEFINE l == Len(sizes)
           s == FirstSizes(sizes)
           w == FirstWords(n, sizes)
           o(k) == OptionWords(n, sizes[k])
           Placed(m) == \A k \in 1 .. m : \A j \in 1 .. sizes[k] : w[m][s[k - 1] + j] = o(k)[j]
           G == {m \in 0 .. l : Placed(m)}
<1>1. /\ l \in Nat
      /\ \A k \in 1 .. l : o(k) \in Seq(WordType) /\ Len(o(k)) = sizes[k] /\ sizes[k] \in Nat
  <2>1. \A k \in 1 .. l : sizes[k] \in Sizes /\ sizes[k] \in 1 .. 61
    BY ListType
  <2>2. l \in Nat
    BY ListType
  <2> QED
    BY <2>1, <2>2, OptionWordsType
<1>2. /\ \A k \in 1 .. l : w[k] = w[k - 1] \o o(k)
      /\ \A k \in 0 .. l : w[k] \in Seq(WordType) /\ Len(w[k]) = s[k]
  BY FirstWordsSteps
<1>3. /\ s[0] = 0 /\ \A k \in 1 .. l : s[k] = s[k - 1] + sizes[k]
      /\ \A k \in 0 .. l : s[k] \in Nat
  BY FirstSizesSteps
<1> HIDE DEF l, s, w, o
<1>4. 0 \in G
  BY <1>1
<1>5. ASSUME NEW m \in 1 .. l, m - 1 \in G
      PROVE  m \in G
  <2> SUFFICES ASSUME NEW k \in 1 .. m, NEW j \in 1 .. sizes[k]
               PROVE  w[m][s[k - 1] + j] = o(k)[j]
    BY <1>1
  <2>1. m - 1 \in 0 .. l /\ w[m] = w[m - 1] \o o(m) /\ Len(w[m - 1]) = s[m - 1]
    BY <1>1, <1>2
  <2>2. /\ k \in 1 .. l /\ k - 1 \in 0 .. l /\ s[k - 1] \in Nat /\ s[k] \in Nat
        /\ s[k] = s[k - 1] + sizes[k] /\ sizes[k] \in Nat /\ j \in Nat
        /\ s[m - 1] \in Nat /\ s[m] \in Nat /\ s[m] = s[m - 1] + sizes[m] /\ sizes[m] \in Nat
    BY <1>1, <1>3
  <2> DEFINE u == o(m)
  <2>3. \A i \in 1 .. s[m] :
          w[m][i] = IF i <= s[m - 1] THEN w[m - 1][i] ELSE u[i - s[m - 1]]
    <3>1. w[m - 1] \in Seq(WordType) /\ u \in Seq(WordType) /\ Len(u) = sizes[m]
      BY <1>1, <1>2
    <3> HIDE DEF u
    <3>2. \A i \in 1 .. Len(w[m - 1]) + Len(u) :
            (w[m - 1] \o u)[i] = IF i <= Len(w[m - 1]) THEN w[m - 1][i] ELSE u[i - Len(w[m - 1])]
      BY <3>1, ConcatProperties
    <3>3. w[m] = w[m - 1] \o u
      BY <2>1 DEF u
    <3> QED
      BY <2>1, <2>2, <3>1, <3>2, <3>3
  <2>4. CASE k = m
    <3>1. s[m - 1] + j \in 1 .. s[m] /\ ~(s[m - 1] + j <= s[m - 1]) /\ s[m - 1] + j - s[m - 1] = j
      BY <2>2, <2>4
    <3>2. w[m][s[m - 1] + j] = u[j]
      <4> HIDE DEF u
      <4>1. PICK i \in 1 .. s[m] : i = s[m - 1] + j
        BY <3>1
      <4>2. w[m][i] = u[i - s[m - 1]] /\ i - s[m - 1] = j
        BY <2>2, <2>3, <3>1, <4>1
      <4> QED
        BY <4>1, <4>2
    <3> QED
      BY <2>4, <3>2
  <2>5. CASE k \in 1 .. m - 1
    <3>1. s[k] <= s[m - 1]
      <4> DEFINE H == {i \in 0 .. l : i >= k => s[k] <= s[i]}
      <4>1. 0 \in H
        BY <1>1, <2>2
      <4>2. ASSUME NEW i \in 1 .. l, i - 1 \in H
            PROVE  i \in H
        <5>1. s[i] = s[i - 1] + sizes[i] /\ s[i - 1] \in Nat /\ s[i] \in Nat /\ sizes[i] \in Nat
          BY <1>1, <1>3
        <5>2. CASE i = k
          BY <1>1, <5>1, <5>2
        <5>3. CASE i # k
          <6>1. i >= k => i - 1 >= k
            BY <2>2, <5>3
          <6>2. s[k] \in Nat
            BY <2>2
          <6> QED
            BY <4>2, <5>1, <6>1, <6>2
        <5> QED
          BY <5>2, <5>3
      <4> HIDE DEF H
      <4>3. \A i \in 0 .. l : i \in H
        BY <1>1, <4>1, <4>2, UpTo, Zenon
      <4> QED
        BY <1>1, <2>1, <2>5, <4>3 DEF H
    <3>2. s[k - 1] + j \in 1 .. s[m] /\ s[k - 1] + j <= s[m - 1]
      BY <2>2, <3>1
    <3>3. w[m - 1][s[k - 1] + j] = o(k)[j]
      BY <1>5, <2>5
    <3> QED
      BY <2>3, <3>2, <3>3
  <2> QED
    BY <1>1, <2>4, <2>5
<1> HIDE DEF G
<1>6. \A m \in 0 .. l : m \in G
  BY <1>1, <1>4, <1>5, UpTo, Zenon
<1>7. l \in 0 .. l
  BY <1>1
<1> QED
  BY <1>2, <1>6, <1>7 DEF G, WordsOf, SumOf, l, s, w, o

\* Every entry's options, and every packet's, are lists.
LEMMA ListsOf ==
  /\ << >> \in Lists /\ Packets \subseteq Lists
  /\ \A e \in DOMAIN Pushed : Pushed[e] \in Lists /\ e \in Entry /\ e \notin Swapped
  /\ Swapped \subseteq Entry
  /\ \A e \in Entry : e \notin Swapped => e \in DOMAIN Pushed
  BY OptionAssumption DEF Lists, OptionLists, Entry

\* Words that start with some of others.
Starts(ws, words, m) == \A i \in 1 .. m : i \in DOMAIN ws /\ ws[i] = words[i]

\* What Overlay makes of words: as many as the old ones and the new ones need.
OverlayIs(words, at, new, o) ==
  /\ o \in Seq(WordType)
  /\ Len(o) >= Len(words)
  /\ Len(o) >= at + Len(new) - 1
  /\ \A i \in 1 .. Len(words) : i \notin at .. at + Len(new) - 1 => o[i] = words[i]
  /\ \A j \in 1 .. Len(new) : o[at + j - 1] = new[j]

LEMMA OverlayType ==
  ASSUME NEW words \in Seq(WordType), NEW at \in Nat \ {0}, NEW new \in Seq(WordType)
  PROVE  OverlayIs(words, at, new, Overlay(words, at, new))
<1> DEFINE a == Len(words)
           b == at + Len(new) - 1
           m == Max({a, b})
           item(i) == IF i \in at .. b THEN new[i - at + 1]
                      ELSE IF i \in DOMAIN words THEN words[i] ELSE [n |-> 0, size |-> 0]
           o == [i \in 1 .. m |-> item(i)]
<1>1. a \in Nat /\ b \in Nat /\ Len(new) \in Nat /\ DOMAIN words = 1 .. a
  OBVIOUS
<1>2. m \in Nat /\ m >= a /\ m >= b
  <2> HIDE DEF a, b
  <2>1. {a, b} \in SUBSET Nat /\ {a, b} # {} /\ a + b \in Nat /\ \A s \in {a, b} : s <= a + b
    BY <1>1
  <2>2. m \in {a, b} /\ \A y \in {a, b} : m >= y
    BY <2>1, MaxLemma
  <2> QED
    BY <1>1, <2>2
<1>3. Overlay(words, at, new) = o
  BY DEF Overlay
<1>4. \A i \in 1 .. m : item(i) \in WordType
  <2> TAKE i \in 1 .. m
  <2>1. CASE i \in at .. b
    <3>1. i - at + 1 \in 1 .. Len(new)
      BY <1>1, <2>1
    <3> QED
      BY <2>1, <3>1, ElementOfSeq
  <2>2. CASE i \notin at .. b /\ i \in DOMAIN words
    BY <2>2, ElementOfSeq
  <2>3. CASE i \notin at .. b /\ i \notin DOMAIN words
    <3>1. 0 \in 0 .. MaxPackets
      BY OptionAssumption
    <3> QED
      BY <2>3, <3>1 DEF WordType
  <2> QED
    BY <2>1, <2>2, <2>3
<1>5. \A j \in 1 .. Len(new) : at + j - 1 \in 1 .. m /\ at + j - 1 \in at .. b /\ at + j - 1 - at + 1 = j
  BY <1>1, <1>2
<1>6. \A i \in 1 .. a : i \in 1 .. m /\ i \in DOMAIN words
  BY <1>1, <1>2
<1>7. o \in Seq(WordType) /\ Len(o) = m /\ \A i \in 1 .. m : o[i] = item(i)
  <2> HIDE DEF m, item
  <2> QED
    BY <1>2, <1>4
<1>8. \A j \in 1 .. Len(new) : o[at + j - 1] = new[j]
  <2> TAKE j \in 1 .. Len(new)
  <2>1. o[at + j - 1] = item(at + j - 1)
    BY <1>5, <1>7
  <2>2. item(at + j - 1) = new[at + j - 1 - at + 1]
    BY <1>5
  <2> QED
    BY <1>5, <2>1, <2>2
<1>9. \A i \in 1 .. a : i \notin at .. b => o[i] = words[i]
  BY <1>6, <1>7
<1> HIDE DEF o, m
<1> QED
  BY <1>2, <1>3, <1>7, <1>8, <1>9 DEF OverlayIs

\* No words, put somewhere: zeros up to there.
LEMMA OverlayNothing ==
  ASSUME NEW words \in Seq(WordType), NEW at \in Nat \ {0}, NEW new, NEW o,
         Len(new) = 0, OverlayIs(words, at, new, o)
  PROVE  /\ o \in Seq(WordType)
         /\ Len(o) >= at - 1
         /\ \A i \in 1 .. Len(words) : i \notin at .. at - 1 => o[i] = words[i]
<1>1. at + Len(new) - 1 = at - 1
  OBVIOUS
<1> QED
  BY <1>1 DEF OverlayIs

\* The first words of a rewrite, and zeros if there are not as many.
LEMMA CopyType ==
  ASSUME NEW words \in Seq(WordType), NEW len \in Nat \ {0, 1}
  PROVE  LET copy == SubSeq(Overlay(words, len - BASE_WORDS + 1, << >>), 1, len - BASE_WORDS)
         IN  /\ copy \in Seq(WordType) /\ Len(copy) = len - BASE_WORDS
             /\ \A i \in 1 .. len - BASE_WORDS : i \in 1 .. Len(words) => copy[i] = words[i]
<1> DEFINE at == len - BASE_WORDS + 1
           o == Overlay(words, at, << >>)
           copy == SubSeq(o, 1, len - BASE_WORDS)
<1>1. at \in Nat \ {0} /\ len - BASE_WORDS \in Nat /\ len - BASE_WORDS = at - 1
  BY DEF BASE_WORDS
<1>2. PICK new \in Seq(WordType) : new = << >> /\ Len(new) = 0
  BY EmptySeq
<1> HIDE DEF at
<1>3. o \in Seq(WordType) /\ Len(o) >= at - 1
      /\ \A i \in 1 .. Len(words) : i \notin at .. at - 1 => o[i] = words[i]
  <2>1. OverlayIs(words, at, new, o)
    BY <1>1, <1>2, OverlayType, Zenon DEF o
  <2> HIDE DEF o
  <2> QED
    BY <1>1, <1>2, <2>1, OverlayNothing
<1> HIDE DEF o
<1>4. SubSeq(o, 1, at - 1) \in Seq(WordType) /\ Len(SubSeq(o, 1, at - 1)) = at - 1
      /\ \A i \in 1 .. at - 1 : SubSeq(o, 1, at - 1)[i] = o[i]
  BY <1>1, <1>3
<1>5. \A i \in 1 .. at - 1 : i \notin at .. at - 1
  BY <1>1
<1>6. copy \in Seq(WordType) /\ Len(copy) = len - BASE_WORDS
      /\ \A i \in 1 .. len - BASE_WORDS : i \in 1 .. Len(words) => copy[i] = words[i]
  BY <1>1, <1>3, <1>4, <1>5
<1> QED
  BY <1>6 DEF copy, o, at

\* New words, put behind the first m, go on with them.
LEMMA StartsOverlay ==
  ASSUME NEW words \in Seq(WordType), NEW new \in Seq(WordType), NEW all, NEW m \in Nat,
         Starts(words, all, m), \A j \in 1 .. Len(new) : all[m + j] = new[j]
  PROVE  Starts(Overlay(words, m + 1, new), all, m + Len(new))
<1> DEFINE o == Overlay(words, m + 1, new)
<1>1. /\ m + 1 \in Nat \ {0} /\ Len(new) \in Nat /\ Len(words) \in Nat
      /\ m + 1 + Len(new) - 1 = m + Len(new)
      /\ \A j \in 1 .. Len(new) : m + 1 + j - 1 = m + j
  OBVIOUS
<1>2. /\ o \in Seq(WordType) /\ Len(o) >= Len(words) /\ Len(o) >= m + 1 + Len(new) - 1
      /\ \A i \in 1 .. Len(words) : i \notin m + 1 .. m + 1 + Len(new) - 1 => o[i] = words[i]
      /\ \A j \in 1 .. Len(new) : o[m + 1 + j - 1] = new[j]
  <2>1. OverlayIs(words, m + 1, new, o)
    BY <1>1, OverlayType, Zenon
  <2> HIDE DEF o
  <2> QED
    BY <2>1 DEF OverlayIs
<1> HIDE DEF o
<1>3. Len(o) \in Nat /\ DOMAIN o = 1 .. Len(o) /\ DOMAIN words = 1 .. Len(words)
  BY <1>2
<1>4. SUFFICES ASSUME NEW i \in 1 .. m + Len(new)
               PROVE  i \in DOMAIN o /\ o[i] = all[i]
  BY DEF Starts, o
<1>5. i \in 1 .. Len(o)
  BY <1>1, <1>2, <1>3
<1>6. CASE i <= m
  <2>1. i \in 1 .. m
    BY <1>1, <1>6
  <2>2. i \in 1 .. Len(words) /\ words[i] = all[i]
    BY <1>3, <2>1 DEF Starts
  <2>3. i \notin m + 1 .. m + 1 + Len(new) - 1
    BY <1>6
  <2> QED
    BY <1>2, <1>3, <1>5, <2>2, <2>3
<1>7. CASE ~(i <= m)
  <2>1. PICK j \in 1 .. Len(new) : i = m + j
    <3>1. i - m \in 1 .. Len(new) /\ i = m + (i - m)
      BY <1>1, <1>7
    <3> QED
      BY <3>1
  <2>2. o[m + 1 + j - 1] = new[j]
    BY <1>2
  <2> QED
    BY <1>1, <1>3, <1>5, <2>1, <2>2
<1> QED
  BY <1>6, <1>7

-----------------------------------------------------------------------------
\* The inductive invariant

Pcs == {"idle", "reset", "option", "load", "store", "read size", "copy"}

LocalType ==
  [pc : Pcs, entry : Entry \cup {"none"}, n : 0 .. MaxPackets, sizes : Lists,
   opt : Nat \ {0}, at : Nat \ {0}, sum : Nat, len : Nat, overlap : BOOLEAN, torn : BOOLEAN]

RewriteType == [size : Nat \ {0, 1}, length : Nat, words : Seq(WordType)]

HeaderType ==
  [size : Nat, length : Nat, words : Seq(WordType), entry : Entry \cup {"none"},
   n : 0 .. MaxPackets, sizes : Lists, overlap : BOOLEAN, torn : BOOLEAN]

TypeInv ==
  /\ rewrite \in [Entry -> RewriteType]
  /\ worker \in [Worker -> LocalType]
  /\ sent \in [Worker -> HeaderType]
  /\ torn \subseteq Entry

\* Below, p are the local variables of a worker, r the rewrite of the entry it
\* is at, and ws the words it copied last.
Swaps(p) == p.entry \in Swapped
All(sizes) == BASE_WORDS + SumOf(sizes)

\* A worker that is at an entry has options that belong there, and its sums have
\* the base header in them.
Sized(p) ==
  /\ p.entry \in Entry
  /\ Swaps(p) => p.sizes \in Packets
  /\ ~Swaps(p) => p.sizes = Pushed[p.entry]
  /\ p.pc = "store" => p.sum >= BASE_WORDS
  /\ p.pc = "copy" => p.len >= BASE_WORDS
  /\ p.pc = "reset" => p.opt = 1 /\ p.at = 1
  /\ ~Swaps(p) /\ p.pc \in {"read size", "copy"} => p.opt = 1 /\ p.at = 1

AllSized == \A w \in Worker : worker[w].pc # "idle" => Sized(worker[w])

\* Of two workers at an entry, each knows of the other.
AtEntry(w, e) == worker[w].pc # "idle" /\ worker[w].entry = e

Alone ==
  \A v, w \in Worker :
    v # w /\ worker[v].pc # "idle" /\ AtEntry(w, worker[v].entry) => worker[v].overlap

\* A push never writes into the rewrite: the options stay what they were.
PushedWords == \A e \in DOMAIN Pushed : rewrite[e].words = WordsOf(0, Pushed[e])

\* An entry that was not left torn, and where nobody is, has its whole size.
Whole(e) == rewrite[e].size = All(Pushed[e]) /\ rewrite[e].length = All(Pushed[e])

LeftWhole ==
  \A e \in DOMAIN Pushed \ torn : (\A v \in Worker : ~AtEntry(v, e)) => Whole(e)

\* The words of the options before the worker's next one.
Before(p) == FirstSizes(p.sizes)[p.opt - 1]

\* A swap has written its first k options into the rewrite; a push has all of
\* them in what it copied.
Written(p, r, ws, k) ==
  IF Swaps(p) THEN Starts(r.words, WordsOf(p.n, p.sizes), FirstSizes(p.sizes)[k])
              ELSE Starts(ws, WordsOf(0, p.sizes), SumOf(p.sizes))

\* While the options are written, the size is that of the base header and of
\* the options so far.
InLoop(p, r, ws) ==
  /\ p.opt \in 1 .. Len(p.sizes) + 1
  /\ p.pc = "load" => p.opt \in 1 .. Len(p.sizes)
  /\ p.at = 1 + Before(p)
  /\ p.pc \in {"option", "load"} => r.size = BASE_WORDS + Before(p)
  /\ p.pc = "store" => p.sum = BASE_WORDS + Before(p)
  /\ p.pc = "load" => Written(p, r, ws, p.opt)
  /\ p.pc # "load" => Written(p, r, ws, p.opt - 1)

\* When the header is copied, size and length are those of all options.
Ends(p, r) ==
  /\ r.length = All(p.sizes)
  /\ p.pc = "read size" => r.size = All(p.sizes)
  /\ p.pc = "copy" => p.len = All(p.sizes)
  /\ Swaps(p) => Starts(r.words, WordsOf(p.n, p.sizes), SumOf(p.sizes))

\* What a worker may count on that has the entry to itself: a push starts with
\* what was left there, and handles the options it copied.
Progress(p, r, ws) ==
  /\ p.pc \in {"read size", "copy"} /\ (Swaps(p) \/ ~p.torn) => Ends(p, r)
  /\ p.pc \in {"reset", "option", "load", "store"} /\ (Swaps(p) \/ Len(ws) >= SumOf(p.sizes))
       => InLoop(p, r, ws)

AllProgress ==
  \A w \in Worker :
    worker[w].pc # "idle" /\ ~worker[w].overlap
      => Progress(worker[w], rewrite[worker[w].entry], sent[w].words)

\* A header is right: what HeaderWhole says of each.
Right(h) ==
  h # NoHeader /\ ~h.overlap /\ (h.entry \in Swapped \/ ~h.torn) =>
    /\ h.size = All(h.sizes) /\ h.length = All(h.sizes)
    /\ h.words = IF h.entry \in Swapped THEN WordsOf(h.n, h.sizes) ELSE WordsOf(0, h.sizes)

AllRight == \A w \in Worker : Right(sent[w])

WorkInv ==
  /\ TypeInv
  /\ AllSized
  /\ Alone
  /\ PushedWords
  /\ LeftWhole
  /\ AllProgress
  /\ AllRight

-----------------------------------------------------------------------------
\* What each step does for the worker that takes it

\* An option and the words before it.
LEMMA SizesAround ==
  ASSUME NEW sizes \in Lists, NEW k \in 1 .. Len(sizes)
  PROVE  /\ Len(sizes) \in Nat /\ k \in Nat /\ k - 1 \in 0 .. Len(sizes)
         /\ sizes[k] \in Sizes /\ sizes[k] \in 1 .. 61 /\ sizes[k] \in Nat \ {0}
         /\ FirstSizes(sizes)[k - 1] \in Nat /\ FirstSizes(sizes)[k] \in Nat
         /\ SumOf(sizes) \in Nat
         /\ FirstSizes(sizes)[k] = FirstSizes(sizes)[k - 1] + sizes[k]
         /\ FirstSizes(sizes)[k] <= SumOf(sizes)
<1>1. Len(sizes) \in Nat /\ sizes[k] \in Sizes /\ sizes[k] \in 1 .. 61
  BY ListType
<1>2. k - 1 \in 0 .. Len(sizes) /\ k \in 0 .. Len(sizes) /\ k \in Nat
  BY <1>1
<1>3. /\ FirstSizes(sizes)[k] = FirstSizes(sizes)[k - 1] + sizes[k]
      /\ FirstSizes(sizes)[k - 1] \in Nat /\ FirstSizes(sizes)[k] \in Nat
  BY <1>2, FirstSizesSteps
<1>4. SumOf(sizes) \in Nat /\ FirstSizes(sizes)[k] <= SumOf(sizes)
  BY <1>2, FirstSizesGrow
<1>5. 1 .. 61 \subseteq Nat \ {0}
  OBVIOUS
<1>6. sizes[k] \in Nat \ {0}
  BY <1>1, <1>5, Zenon
<1> QED
  BY <1>1, <1>2, <1>3, <1>4, <1>6

\* The reset counts the base header, and no option yet.
LEMMA ResetProgress ==
  ASSUME NEW p \in LocalType, p.pc = "reset", Sized(p), NEW r \in RewriteType,
         NEW ws \in Seq(WordType), Progress(p, r, ws)
  PROVE  Progress([p EXCEPT !.pc = "option"], [r EXCEPT !.size = BASE_WORDS], ws)
<1> DEFINE q == [p EXCEPT !.pc = "option"]
           t == [r EXCEPT !.size = BASE_WORDS]
<1>1. /\ q.pc = "option" /\ q.entry = p.entry /\ q.n = p.n /\ q.sizes = p.sizes
      /\ q.opt = p.opt /\ q.at = p.at /\ q.sum = p.sum /\ q.len = p.len
      /\ q.torn = p.torn /\ t.size = BASE_WORDS /\ t.words = r.words
  BY DEF LocalType, RewriteType
<1>2. p.sizes \in Lists /\ p.opt = 1 /\ p.at = 1
  BY DEF Sized, LocalType
<1>3. FirstSizes(p.sizes)[p.opt - 1] = 0
  BY <1>2, FirstSizesSteps
<1> HIDE DEF q, t
<1>4. ASSUME InLoop(p, r, ws)
      PROVE  InLoop(q, t, ws)
  <2>1. Written(q, t, ws, q.opt - 1)
    BY <1>1, <1>4 DEF InLoop, Written, Swaps
  <2> QED
    BY <1>1, <1>2, <1>3, <1>4, <2>1 DEF InLoop, Before, BASE_WORDS
<1>5. Progress(q, t, ws)
  BY <1>1, <1>4 DEF Progress, Swaps
<1> QED
  BY <1>5 DEF q, t

\* An option that a swap writes stands behind those before it.
LEMMA OptionProgress ==
  ASSUME NEW p \in LocalType, p.pc = "option", Sized(p), p.opt <= Len(p.sizes),
         NEW r \in RewriteType, NEW ws \in Seq(WordType), NEW t,
         Swaps(p) => t = [r EXCEPT !.words =
                            Overlay(@, p.at, OptionWords(p.n, p.sizes[p.opt]))],
         ~Swaps(p) => t = r
  PROVE  /\ t \in RewriteType
         /\ Progress(p, r, ws) => Progress([p EXCEPT !.pc = "load"], t, ws)
<1> DEFINE q == [p EXCEPT !.pc = "load"]
           k == p.opt
           n == p.n
           sizes == p.sizes
           s == FirstSizes(sizes)
           new == OptionWords(n, sizes[k])
           o == Overlay(r.words, p.at, new)
<1>1. /\ q.pc = "load" /\ q.entry = p.entry /\ q.n = p.n /\ q.sizes = p.sizes
      /\ q.opt = p.opt /\ q.at = p.at /\ q.torn = p.torn
  BY DEF LocalType
<1>2. /\ sizes \in Lists /\ k \in Nat \ {0} /\ n \in 0 .. MaxPackets /\ p.at \in Nat \ {0}
      /\ r.words \in Seq(WordType) /\ r.size \in Nat
  BY DEF LocalType, RewriteType
<1>3. k \in 1 .. Len(sizes)
  BY <1>2, ListType
<1>4. /\ sizes[k] \in Sizes /\ sizes[k] \in Nat \ {0} /\ s[k - 1] \in Nat /\ s[k] \in Nat
      /\ s[k] = s[k - 1] + sizes[k]
  BY <1>2, <1>3, SizesAround
<1>5. new \in Seq(WordType) /\ Len(new) = sizes[k]
  BY <1>2, <1>4, OptionWordsType
<1> HIDE DEF new
<1>6. /\ o \in Seq(WordType) /\ Len(o) >= Len(r.words) /\ Len(o) >= p.at + Len(new) - 1
      /\ \A i \in 1 .. Len(r.words) : i \notin p.at .. p.at + Len(new) - 1 => o[i] = r.words[i]
      /\ \A j \in 1 .. Len(new) : o[p.at + j - 1] = new[j]
  <2>1. OverlayIs(r.words, p.at, new, o)
    BY <1>2, <1>5, OverlayType, Zenon
  <2> HIDE DEF o
  <2> QED
    BY <2>1 DEF OverlayIs
<1>7. Swaps(p) => t = [r EXCEPT !.words = o]
  BY DEF new
<1> HIDE DEF o
<1>8. t \in RewriteType /\ t.size = r.size /\ (Swaps(p) => t.words = o)
  BY <1>6, <1>7 DEF RewriteType
<1>9. ASSUME Swaps(p), p.at = 1 + s[k - 1], Starts(r.words, WordsOf(n, sizes), s[k - 1])
      PROVE  Starts(o, WordsOf(n, sizes), s[k])
  <2>1. \A j \in 1 .. Len(new) : WordsOf(n, sizes)[s[k - 1] + j] = new[j]
    <3>1. \A j \in 1 .. sizes[k] : WordsOf(n, sizes)[s[k - 1] + j] = OptionWords(n, sizes[k])[j]
      <4> HIDE DEF n, sizes, k
      <4> QED
        BY <1>2, <1>3, WordsPlaced
    <3> QED
      BY <1>5, <3>1, Zenon DEF new
  <2>2. Starts(Overlay(r.words, s[k - 1] + 1, new), WordsOf(n, sizes), s[k - 1] + Len(new))
    <3> HIDE DEF n, sizes, k, s
    <3> QED
      BY <1>2, <1>4, <1>5, <1>9, <2>1, StartsOverlay
  <2>3. s[k - 1] + 1 = p.at /\ s[k - 1] + Len(new) = s[k]
    <3> HIDE DEF n, sizes, k, s
    <3> QED
      BY <1>4, <1>5, <1>9
  <2> QED
    BY <2>2, <2>3 DEF o
<1> HIDE DEF q
<1>10. ASSUME InLoop(p, r, ws)
       PROVE  InLoop(q, t, ws)
  <2>1. /\ p.at = 1 + s[k - 1] /\ r.size = BASE_WORDS + s[k - 1]
        /\ Written(p, r, ws, k - 1)
    BY <1>10 DEF InLoop, Before
  <2>2. CASE Swaps(p)
    <3>1. Starts(o, WordsOf(n, sizes), s[k])
      BY <1>9, <2>1, <2>2 DEF Written
    <3>2. Written(q, t, ws, q.opt)
      BY <1>1, <1>8, <2>2, <3>1 DEF Written, Swaps
    <3> QED
      BY <1>1, <1>3, <1>8, <1>10, <2>1, <3>2 DEF InLoop, Before
  <2>3. CASE ~Swaps(p)
    <3>1. Written(q, t, ws, q.opt)
      BY <1>1, <2>1, <2>3 DEF Written, Swaps
    <3> QED
      BY <1>1, <1>3, <1>8, <1>10, <2>1, <3>1 DEF InLoop, Before
  <2> QED
    BY <2>2, <2>3
<1>11. Progress(p, r, ws) => Progress(q, t, ws)
  BY <1>1, <1>10 DEF Progress, Swaps
<1> QED
  BY <1>8, <1>11 DEF q

\* Whatever is read for the size of an option is the size of one; at the first
\* word of an option it is that one's.
LEMMA SizesAtType ==
  ASSUME NEW words \in Seq(WordType), NEW at
  PROVE  SizesAt(words, at) \subseteq Sizes
<1>1. CASE at \in DOMAIN words /\ words[at].size # 0
  <2>1. words[at] \in WordType
    BY <1>1, ElementOfSeq
  <2> QED
    BY <1>1, <2>1 DEF SizesAt, WordType
<1>2. CASE ~(at \in DOMAIN words /\ words[at].size # 0)
  BY <1>2 DEF SizesAt
<1> QED
  BY <1>1, <1>2

LEMMA SizesAtOption ==
  ASSUME NEW n \in 0 .. MaxPackets, NEW sizes \in Lists, NEW k \in 1 .. Len(sizes),
         NEW words, NEW m \in Nat, FirstSizes(sizes)[k] <= m,
         Starts(words, WordsOf(n, sizes), m), NEW at \in Nat, at = 1 + FirstSizes(sizes)[k - 1]
  PROVE  SizesAt(words, at) = {sizes[k]}
<1> DEFINE at2 == FirstSizes(sizes)[k - 1] + 1
<1>1. /\ sizes[k] \in Sizes /\ sizes[k] \in Nat \ {0}
      /\ FirstSizes(sizes)[k - 1] \in Nat
      /\ FirstSizes(sizes)[k] = FirstSizes(sizes)[k - 1] + sizes[k]
  BY SizesAround
<1>2. at \in 1 .. m /\ at = at2
  BY <1>1
<1>3. 1 \in 1 .. sizes[k]
  BY <1>1
<1>4. WordsOf(n, sizes)[at2] = OptionWords(n, sizes[k])[1]
  BY <1>3, WordsPlaced
<1>5. OptionWords(n, sizes[k])[1].size = sizes[k]
  BY <1>1, OptionWordsType
<1>6. at \in DOMAIN words /\ words[at] = WordsOf(n, sizes)[at]
  BY <1>2 DEF Starts
<1> HIDE DEF at2
<1>7. words[at].size = sizes[k] /\ sizes[k] # 0
  BY <1>1, <1>2, <1>4, <1>5, <1>6
<1> QED
  BY <1>6, <1>7 DEF SizesAt

LEMMA OptionThere ==
  ASSUME NEW p \in LocalType, p.opt \in 1 .. Len(p.sizes), NEW n \in 0 .. MaxPackets,
         NEW words, NEW m \in Nat, FirstSizes(p.sizes)[p.opt] <= m,
         Starts(words, WordsOf(n, p.sizes), m), p.at = 1 + Before(p)
  PROVE  SizesAt(words, p.at) = {p.sizes[p.opt]}
<1>1. p.at \in Nat /\ p.sizes \in Lists /\ p.opt \in Nat
  BY DEF LocalType
<1>2. PICK sizes \in Lists, k \in Nat : sizes = p.sizes /\ k = p.opt
  BY <1>1
<1>3. /\ k \in 1 .. Len(sizes) /\ FirstSizes(sizes)[k] <= m
      /\ Starts(words, WordsOf(n, sizes), m) /\ p.at = 1 + FirstSizes(sizes)[k - 1]
  BY <1>2 DEF Before
<1>4. SizesAt(words, p.at) = {sizes[k]}
  BY <1>1, <1>3, SizesAtOption
<1> QED
  BY <1>2, <1>4

\* Where an option ends, in the sizes and behind the base header.
LEMMA OptionEnds ==
  ASSUME NEW a \in Nat, NEW b \in Nat, NEW at, at = 1 + a, NEW size, size = BASE_WORDS + a
  PROVE  at + b = 1 + (a + b) /\ size + b = BASE_WORDS + (a + b)
BY DEF BASE_WORDS

\* The size that is read again is that of the option just handled.
LEMMA LoadProgress ==
  ASSUME NEW p \in LocalType, p.pc = "load", Sized(p), NEW r \in RewriteType,
         NEW ws \in Seq(WordType), Progress(p, r, ws),
         NEW x \in SizesAt(IF Swaps(p) THEN r.words ELSE ws, p.at)
  PROVE  Progress([p EXCEPT !.pc = "store", !.sum = r.size + x,
                            !.opt = p.opt + 1, !.at = p.at + x], r, ws)
<1> DEFINE q == [p EXCEPT !.pc = "store", !.sum = r.size + x,
                          !.opt = p.opt + 1, !.at = p.at + x]
           k == p.opt
           sizes == p.sizes
           s == FirstSizes(sizes)
<1>1. /\ q.pc = "store" /\ q.entry = p.entry /\ q.n = p.n /\ q.sizes = sizes
      /\ q.opt = k + 1 /\ q.at = p.at + x /\ q.sum = r.size + x /\ q.torn = p.torn
  BY DEF LocalType
<1>2. /\ sizes \in Lists /\ k \in Nat \ {0} /\ p.n \in 0 .. MaxPackets
      /\ Len(sizes) \in Nat
  BY ListType DEF LocalType
<1> HIDE DEF q
<1>3. ASSUME InLoop(p, r, ws)
      PROVE  InLoop(q, r, ws)
  <2>1. /\ k \in 1 .. Len(sizes) /\ p.at = 1 + s[k - 1] /\ r.size = BASE_WORDS + s[k - 1]
        /\ Written(p, r, ws, k) /\ p.at = 1 + Before(p)
    BY <1>3 DEF InLoop, Before
  <2>2. /\ s[k - 1] \in Nat /\ s[k] \in Nat /\ SumOf(sizes) \in Nat /\ sizes[k] \in Nat
        /\ s[k] = s[k - 1] + sizes[k] /\ s[k] <= SumOf(sizes)
    BY <1>2, <2>1, SizesAround
  <2>3. x = sizes[k]
    <3>1. CASE Swaps(p)
      <4>1. Starts(r.words, WordsOf(p.n, sizes), s[k])
        BY <2>1, <3>1 DEF Written
      <4>2. s[k] <= s[k]
        BY <2>2
      <4>3. SizesAt(r.words, p.at) = {sizes[k]}
        BY <1>2, <2>1, <2>2, <4>1, <4>2, OptionThere
      <4> QED
        BY <2>1, <3>1, <4>3
    <3>2. CASE ~Swaps(p)
      <4>1. Starts(ws, WordsOf(0, sizes), SumOf(sizes))
        BY <2>1, <3>2 DEF Written
      <4>2. 0 \in 0 .. MaxPackets
        BY OptionAssumption
      <4>3. SizesAt(ws, p.at) = {sizes[k]}
        BY <1>2, <2>1, <2>2, <4>1, <4>2, OptionThere
      <4> QED
        BY <2>1, <3>2, <4>3
    <3> QED
      BY <3>1, <3>2
  <2>4. q.opt - 1 = k /\ q.opt \in 1 .. Len(sizes) + 1
    BY <1>1, <1>2, <2>1
  <2>5. q.at = 1 + s[k] /\ q.sum = BASE_WORDS + s[k]
    <3> HIDE DEF k, s, sizes
    <3>1. /\ s[k - 1] \in Nat /\ x \in Nat
          /\ p.at = 1 + s[k - 1] /\ r.size = BASE_WORDS + s[k - 1]
      BY <2>1, <2>2, <2>3, Zenon
    <3>2. p.at + x = 1 + (s[k - 1] + x) /\ r.size + x = BASE_WORDS + (s[k - 1] + x)
      BY <3>1, OptionEnds, Zenon
    <3> QED
      BY <1>1, <2>2, <2>3, <3>2, Zenon
  <2>6. Written(q, r, ws, k)
    BY <1>1, <2>1 DEF Written, Swaps
  <2> QED
    BY <1>1, <2>4, <2>5, <2>6 DEF InLoop, Before
<1>4. Progress(q, r, ws)
  BY <1>1, <1>3 DEF Progress, Swaps
<1> QED
  BY <1>4 DEF q

\* The sum is stored.
LEMMA StoreProgress ==
  ASSUME NEW p \in LocalType, p.pc = "store", NEW r \in RewriteType, NEW ws,
         Progress(p, r, ws)
  PROVE  Progress([p EXCEPT !.pc = "option", !.sum = 0], [r EXCEPT !.size = p.sum], ws)
<1> DEFINE q == [p EXCEPT !.pc = "option", !.sum = 0]
           t == [r EXCEPT !.size = p.sum]
<1>1. /\ q.pc = "option" /\ q.entry = p.entry /\ q.n = p.n /\ q.sizes = p.sizes
      /\ q.opt = p.opt /\ q.at = p.at /\ q.torn = p.torn
      /\ t.size = p.sum /\ t.words = r.words
  BY DEF LocalType, RewriteType
<1> HIDE DEF q, t
<1>2. ASSUME InLoop(p, r, ws)
      PROVE  InLoop(q, t, ws)
  <2>1. Written(q, t, ws, q.opt - 1)
    BY <1>1, <1>2 DEF InLoop, Written, Swaps
  <2> QED
    BY <1>1, <1>2, <2>1 DEF InLoop, Before
<1>3. Progress(q, t, ws)
  BY <1>1, <1>2 DEF Progress, Swaps
<1> QED
  BY <1>3 DEF q, t

\* Behind the last option, everything is counted and written.
LEMMA LoopEnds ==
  ASSUME NEW p \in LocalType, p.pc = "option", p.opt > Len(p.sizes),
         NEW r \in RewriteType, NEW ws, InLoop(p, r, ws)
  PROVE  /\ r.size = All(p.sizes)
         /\ Swaps(p) => Starts(r.words, WordsOf(p.n, p.sizes), SumOf(p.sizes))
<1>1. p.sizes \in Lists /\ Len(p.sizes) \in Nat /\ p.opt \in Nat
  BY ListType DEF LocalType
<1>2. p.opt - 1 = Len(p.sizes)
  BY <1>1 DEF InLoop
<1> QED
  BY <1>2 DEF InLoop, Before, Written, All, SumOf

LEMMA LengthProgress ==
  ASSUME NEW p \in LocalType, p.pc = "option", p.opt > Len(p.sizes), Swaps(p),
         NEW r \in RewriteType, NEW ws, Progress(p, r, ws)
  PROVE  Progress([p EXCEPT !.pc = "read size"], [r EXCEPT !.length = r.size], ws)
<1> DEFINE q == [p EXCEPT !.pc = "read size"]
           t == [r EXCEPT !.length = r.size]
<1>1. /\ q.pc = "read size" /\ q.entry = p.entry /\ q.n = p.n /\ q.sizes = p.sizes
      /\ t.size = r.size /\ t.length = r.size /\ t.words = r.words
  BY DEF LocalType, RewriteType
<1> HIDE DEF q, t
<1>2. /\ r.size = All(p.sizes)
      /\ Starts(r.words, WordsOf(p.n, p.sizes), SumOf(p.sizes))
  BY LoopEnds DEF Progress
<1>3. Progress(q, t, ws)
  BY <1>1, <1>2 DEF Progress, Ends
<1> QED
  BY <1>3 DEF q, t

\* The size is read back.
LEMMA ReadProgress ==
  ASSUME NEW p \in LocalType, p.pc = "read size", NEW r, NEW ws, Progress(p, r, ws)
  PROVE  Progress([p EXCEPT !.pc = "copy", !.len = r.size], r, ws)
<1> DEFINE q == [p EXCEPT !.pc = "copy", !.len = r.size]
<1>1. /\ q.pc = "copy" /\ q.entry = p.entry /\ q.n = p.n /\ q.sizes = p.sizes
      /\ q.torn = p.torn /\ q.len = r.size
  BY DEF LocalType
<1> HIDE DEF q
<1>2. Progress(q, r, ws)
  BY <1>1 DEF Progress, Ends, Swaps
<1> QED
  BY <1>2 DEF q

\* As many words as a header with all options has, copied from a rewrite that
\* starts with them, are those.
LEMMA CopyWords ==
  ASSUME NEW n \in 0 .. MaxPackets, NEW sizes \in Lists, NEW words \in Seq(WordType),
         NEW len \in Nat, len = All(sizes), Starts(words, WordsOf(n, sizes), SumOf(sizes))
  PROVE  SubSeq(Overlay(words, len - BASE_WORDS + 1, << >>), 1, len - BASE_WORDS)
           = WordsOf(n, sizes)
<1> DEFINE copy == SubSeq(Overlay(words, len - BASE_WORDS + 1, << >>), 1, len - BASE_WORDS)
           all == WordsOf(n, sizes)
<1>1. all \in Seq(WordType) /\ Len(all) = SumOf(sizes) /\ SumOf(sizes) \in Nat
  BY WordsPlaced, FirstSizesGrow
<1>2. len \in Nat \ {0, 1} /\ len - BASE_WORDS = SumOf(sizes)
  BY <1>1 DEF All, BASE_WORDS
<1>3. /\ copy \in Seq(WordType) /\ Len(copy) = len - BASE_WORDS
      /\ \A i \in 1 .. len - BASE_WORDS : i \in 1 .. Len(words) => copy[i] = words[i]
  BY <1>2, CopyType
<1> HIDE DEF copy, all
<1>4. \A i \in 1 .. SumOf(sizes) : i \in 1 .. Len(words) /\ words[i] = all[i]
  BY DEF Starts, all
<1>5. Len(copy) = Len(all) /\ \A i \in 1 .. Len(copy) : copy[i] = all[i]
  BY <1>1, <1>2, <1>3, <1>4
<1>6. copy = all
  BY <1>1, <1>3, <1>5, SeqEqual
<1> QED
  BY <1>6 DEF copy, all

\* The header a worker copies is right if the worker had the entry to itself.
Copied(p, r) ==
  [size |-> p.len, length |-> r.length,
   words |-> SubSeq(Overlay(r.words, p.len - BASE_WORDS + 1, << >>), 1, p.len - BASE_WORDS),
   entry |-> p.entry, n |-> p.n, sizes |-> p.sizes, overlap |-> p.overlap, torn |-> p.torn]

LEMMA CopyRight ==
  ASSUME NEW p \in LocalType, p.pc = "copy", Sized(p), NEW r \in RewriteType, NEW ws,
         ~Swaps(p) => r.words = WordsOf(0, p.sizes),
         ~p.overlap => Progress(p, r, ws)
  PROVE  Copied(p, r) \in HeaderType /\ Right(Copied(p, r))
<1> DEFINE h == Copied(p, r)
           words == SubSeq(Overlay(r.words, p.len - BASE_WORDS + 1, << >>), 1, p.len - BASE_WORDS)
<1>1. /\ p.sizes \in Lists /\ p.n \in 0 .. MaxPackets /\ p.len \in Nat \ {0, 1}
      /\ r.words \in Seq(WordType)
  BY DEF LocalType, RewriteType, Sized, BASE_WORDS
<1>2. words \in Seq(WordType)
  BY <1>1, CopyType
<1>3. ASSUME p.len = All(p.sizes), NEW n \in 0 .. MaxPackets,
             Starts(r.words, WordsOf(n, p.sizes), SumOf(p.sizes))
      PROVE  words = WordsOf(n, p.sizes)
  <2>1. PICK len \in Nat, sizes \in Lists, rw \in Seq(WordType) :
          len = p.len /\ sizes = p.sizes /\ rw = r.words
    BY <1>1
  <2>2. len = All(sizes) /\ Starts(rw, WordsOf(n, sizes), SumOf(sizes))
    BY <1>3, <2>1
  <2>3. SubSeq(Overlay(rw, len - BASE_WORDS + 1, << >>), 1, len - BASE_WORDS) = WordsOf(n, sizes)
    BY <2>2, CopyWords
  <2> QED
    BY <2>1, <2>3
<1> HIDE DEF words
<1>4. h = [size |-> p.len, length |-> r.length, words |-> words, entry |-> p.entry, n |-> p.n,
           sizes |-> p.sizes, overlap |-> p.overlap, torn |-> p.torn]
  BY DEF Copied, words
<1>5. h \in HeaderType
  BY <1>2, <1>4 DEF LocalType, RewriteType, HeaderType
<1>6. /\ h.size = p.len /\ h.length = r.length /\ h.words = words /\ h.entry = p.entry
      /\ h.n = p.n /\ h.sizes = p.sizes /\ h.overlap = p.overlap /\ h.torn = p.torn
  BY <1>4
<1> HIDE DEF h
<1>7. ASSUME ~p.overlap, Swaps(p) \/ ~p.torn
      PROVE  /\ p.len = All(p.sizes) /\ r.length = All(p.sizes)
             /\ words = IF Swaps(p) THEN WordsOf(p.n, p.sizes) ELSE WordsOf(0, p.sizes)
  <2>1. Ends(p, r)
    BY <1>7 DEF Progress
  <2>2. p.len = All(p.sizes) /\ r.length = All(p.sizes)
    BY <2>1 DEF Ends
  <2>3. CASE Swaps(p)
    <3>1. Starts(r.words, WordsOf(p.n, p.sizes), SumOf(p.sizes))
      BY <2>1, <2>3 DEF Ends
    <3> QED
      BY <1>1, <1>3, <2>2, <2>3, <3>1
  <2>4. CASE ~Swaps(p)
    <3>1. /\ WordsOf(0, p.sizes) \in Seq(WordType) /\ Len(WordsOf(0, p.sizes)) = SumOf(p.sizes)
          /\ 0 \in 0 .. MaxPackets
      <4>1. 0 \in 0 .. MaxPackets
        BY OptionAssumption
      <4> QED
        BY <1>1, <4>1, WordsPlaced
    <3>2. Starts(r.words, WordsOf(0, p.sizes), SumOf(p.sizes))
      BY <2>4, <3>1 DEF Starts
    <3>3. words = WordsOf(0, p.sizes)
      BY <1>3, <2>2, <3>1, <3>2
    <3> QED
      BY <2>2, <2>4, <3>3
  <2> QED
    BY <2>3, <2>4
<1>8. Right(h)
  BY <1>6, <1>7 DEF Right, Swaps
<1> QED
  BY <1>5, <1>8 DEF h

\* A push goes on with what it copied: if that is long enough, all options are
\* there.
LEMMA CopyProgress ==
  ASSUME NEW p \in LocalType, p.pc = "copy", Sized(p), ~Swaps(p), NEW r \in RewriteType,
         r.words = WordsOf(0, p.sizes)
  PROVE  Progress([p EXCEPT !.pc = "reset"], r, Copied(p, r).words)
<1> DEFINE q == [p EXCEPT !.pc = "reset"]
           words == SubSeq(Overlay(r.words, p.len - BASE_WORDS + 1, << >>), 1, p.len - BASE_WORDS)
<1>1. /\ p.sizes \in Lists /\ p.opt = 1 /\ p.at = 1 /\ p.len \in Nat \ {0, 1}
      /\ r.words \in Seq(WordType) /\ 0 \in 0 .. MaxPackets
  BY OptionAssumption DEF LocalType, RewriteType, Sized, BASE_WORDS
<1>2. /\ q.pc = "reset" /\ q.entry = p.entry /\ q.n = p.n /\ q.sizes = p.sizes
      /\ q.opt = 1 /\ q.at = 1
  BY <1>1 DEF LocalType
<1>3. Len(r.words) = SumOf(p.sizes) /\ SumOf(p.sizes) \in Nat
  BY <1>1, WordsPlaced, FirstSizesGrow
<1>4. /\ words \in Seq(WordType) /\ Len(words) = p.len - BASE_WORDS
      /\ \A i \in 1 .. p.len - BASE_WORDS : i \in 1 .. Len(r.words) => words[i] = r.words[i]
  BY <1>1, CopyType
<1>5. Copied(p, r).words = words
  BY DEF Copied
<1> HIDE DEF q, words
<1>6. ASSUME Len(words) >= SumOf(p.sizes)
      PROVE  InLoop(q, r, words)
  <2>1. Starts(words, WordsOf(0, p.sizes), SumOf(p.sizes))
    <3>1. p.len - BASE_WORDS \in Nat /\ Len(words) \in Nat
      BY <1>1 DEF BASE_WORDS
    <3>2. SUFFICES ASSUME NEW i \in 1 .. SumOf(p.sizes)
                   PROVE  i \in DOMAIN words /\ words[i] = r.words[i]
      BY DEF Starts
    <3>3. i \in 1 .. Len(words) /\ i \in 1 .. Len(r.words)
      BY <1>3, <1>4, <1>6, <3>1
    <3> QED
      BY <1>4, <3>3
  <2>2. FirstSizes(p.sizes)[0] = 0 /\ Len(p.sizes) \in Nat
    BY <1>1, FirstSizesSteps, ListType
  <2>3. Written(q, r, words, q.opt - 1)
    BY <1>2, <2>1 DEF Written, Swaps
  <2> QED
    BY <1>2, <2>2, <2>3 DEF InLoop, Before
<1>7. Progress(q, r, words)
  BY <1>2, <1>6 DEF Progress, Swaps
<1> QED
  BY <1>5, <1>7 DEF q

-----------------------------------------------------------------------------
\* The initial states

LEMMA InitInv == Init => WorkInv
<1> SUFFICES ASSUME Init
             PROVE  WorkInv
  OBVIOUS
<1>1. 0 \in 0 .. MaxPackets /\ << >> \in Seq(WordType) /\ << >> \in Lists
  BY OptionAssumption, EmptySeq, ListsOf
<1>2. \A w \in Worker : worker[w] = Idle /\ sent[w] = NoHeader
  BY DEF Init
<1>3. ASSUME NEW e \in Entry, NEW sizes \in Lists,
             sizes = IF e \in Swapped THEN << >> ELSE Pushed[e]
      PROVE  /\ rewrite[e] = [size |-> All(sizes), length |-> All(sizes), words |-> WordsOf(0, sizes)]
             /\ rewrite[e] \in RewriteType
  <2>1. All(sizes) \in Nat \ {0, 1} /\ WordsOf(0, sizes) \in Seq(WordType)
    BY <1>1, FirstSizesGrow, WordsPlaced DEF All, BASE_WORDS
  <2>2. rewrite[e] = [size |-> All(sizes), length |-> All(sizes), words |-> WordsOf(0, sizes)]
    BY <1>3 DEF Init, All
  <2> QED
    BY <2>1, <2>2 DEF RewriteType
<1>4. TypeInv
  <2>1. rewrite \in [Entry -> RewriteType]
    <3>1. \A e \in Entry : rewrite[e] \in RewriteType
      <4> TAKE e \in Entry
      <4>1. (IF e \in Swapped THEN << >> ELSE Pushed[e]) \in Lists
        BY ListsOf
      <4> QED
        BY <1>3, <4>1
    <3>2. rewrite = [e \in Entry |-> rewrite[e]]
      BY DEF Init
    <3> QED
      BY <3>1, <3>2
  <2>2. worker \in [Worker -> LocalType]
    <3>1. Idle \in LocalType
      BY <1>1 DEF Idle, LocalType, Pcs
    <3> QED
      BY <3>1 DEF Init
  <2>3. sent \in [Worker -> HeaderType]
    <3>1. NoHeader \in HeaderType
      BY <1>1 DEF NoHeader, HeaderType
    <3> QED
      BY <3>1 DEF Init
  <2> QED
    BY <2>1, <2>2, <2>3 DEF TypeInv, Init
<1>5. \A w \in Worker : worker[w].pc = "idle"
  BY <1>2 DEF Idle
<1>6. AllSized /\ Alone /\ AllProgress
  BY <1>5 DEF AllSized, Alone, AllProgress
<1>7. PushedWords /\ LeftWhole
  <2>1. ASSUME NEW e \in DOMAIN Pushed
        PROVE  rewrite[e].words = WordsOf(0, Pushed[e]) /\ Whole(e)
    <3>1. Pushed[e] \in Lists /\ e \in Entry /\ e \notin Swapped
      BY ListsOf
    <3>2. rewrite[e] = [size |-> All(Pushed[e]), length |-> All(Pushed[e]),
                        words |-> WordsOf(0, Pushed[e])]
      BY <1>3, <3>1
    <3> QED
      BY <3>2 DEF Whole
  <2> QED
    BY <2>1 DEF PushedWords, LeftWhole
<1>8. AllRight
  BY <1>2 DEF AllRight, Right
<1> QED
  BY <1>4, <1>6, <1>7, <1>8 DEF WorkInv

-----------------------------------------------------------------------------
\* The steps

\* What is known of a worker at an entry.
Knows(w, p, r, h) ==
  /\ p = worker[w] /\ r = rewrite[p.entry] /\ h = sent[w]
  /\ p.pc # "idle" /\ p.entry \in Entry /\ Sized(p)
  /\ rewrite = [rewrite EXCEPT ![p.entry] = r]
  /\ sent = [sent EXCEPT ![w] = h]
  /\ ~Swaps(p) => p.entry \in DOMAIN Pushed /\ p.sizes = Pushed[p.entry]
  /\ ~Swaps(p) => r.words = WordsOf(0, p.sizes)
  /\ ~p.overlap => Progress(p, r, h.words)
  /\ Right(h)

LEMMA AtWork ==
  ASSUME WorkInv, NEW w \in Worker, worker[w].pc # "idle"
  PROVE  \E p \in LocalType, r \in RewriteType, h \in HeaderType : Knows(w, p, r, h)
<1> DEFINE p == worker[w]
           r == rewrite[p.entry]
           h == sent[w]
<1>1. p \in LocalType /\ h \in HeaderType /\ Sized(p) /\ p.entry \in Entry
  BY DEF WorkInv, TypeInv, AllSized, Sized
<1>2. r \in RewriteType
  BY <1>1 DEF WorkInv, TypeInv
<1>3. rewrite = [rewrite EXCEPT ![p.entry] = r] /\ sent = [sent EXCEPT ![w] = h]
  BY <1>1 DEF WorkInv, TypeInv
<1>4. ~Swaps(p) => p.entry \in DOMAIN Pushed /\ p.sizes = Pushed[p.entry]
  BY <1>1, ListsOf DEF Swaps, Sized
<1>5. ~Swaps(p) => r.words = WordsOf(0, p.sizes)
  BY <1>4 DEF WorkInv, PushedWords
<1>6. ~p.overlap => Progress(p, r, h.words)
  BY DEF WorkInv, AllProgress
<1>7. Right(h)
  BY DEF WorkInv, AllRight
<1>8. Knows(w, p, r, h)
  BY <1>1, <1>3, <1>4, <1>5, <1>6, <1>7 DEF Knows
<1> QED
  BY <1>1, <1>2, <1>8

\* No other entry is torn or mended.
TornAt(e) == torn' \subseteq Entry /\ \A f \in Entry : f # e => (f \in torn' <=> f \in torn)

\* A step of a worker concerns its entry, its header and no other worker: what
\* has to be shown is about those alone.
LEMMA StepKeeps ==
  ASSUME WorkInv, NEW w \in Worker,
         NEW p \in LocalType, NEW r \in RewriteType, NEW g \in HeaderType, Knows(w, p, r, g),
         NEW q \in LocalType, NEW t \in RewriteType, NEW h \in HeaderType,
         worker' = [worker EXCEPT ![w] = q],
         rewrite' = [rewrite EXCEPT ![p.entry] = t],
         sent' = [sent EXCEPT ![w] = h],
         TornAt(p.entry),
         q.pc # "idle" => q.entry = p.entry /\ (q.overlap <=> p.overlap) /\ Sized(q),
         ~Swaps(p) => t.words = r.words,
         q.pc # "idle" /\ ~q.overlap => Progress(q, t, h.words),
         ~Swaps(p) /\ q.pc = "idle" /\ p.entry \notin torn'
           => t.size = All(p.sizes) /\ t.length = All(p.sizes),
         Right(h)
  PROVE  WorkInv'
<1> DEFINE e == p.entry
<1>1. TypeInv /\ e \in Entry /\ p = worker[w] /\ r = rewrite[e] /\ p.pc # "idle"
  BY DEF WorkInv, Knows
<1>2. /\ worker'[w] = q /\ sent'[w] = h /\ rewrite'[e] = t
      /\ \A v \in Worker : v # w => worker'[v] = worker[v] /\ sent'[v] = sent[v]
      /\ \A f \in Entry : f # e => rewrite'[f] = rewrite[f]
  BY <1>1 DEF TypeInv
<1>3. TypeInv'
  BY <1>1 DEF TypeInv, TornAt
<1>4. AllSized'
  BY <1>2 DEF WorkInv, AllSized
<1>5. ASSUME NEW v \in Worker, v # w, worker[v].pc # "idle", worker[v].entry = e
      PROVE  worker[v].overlap /\ p.overlap
  BY <1>1, <1>5 DEF WorkInv, Alone, AtEntry
<1>6. Alone'
  <2> SUFFICES ASSUME NEW u \in Worker, NEW v \in Worker, u # v, worker'[u].pc # "idle",
                      worker'[v].pc # "idle", worker'[v].entry = worker'[u].entry
               PROVE  worker'[u].overlap
    BY DEF Alone, AtEntry
  <2>1. CASE u = w
    BY <1>2, <1>5, <2>1
  <2>2. CASE v = w
    BY <1>2, <1>5, <2>2
  <2>3. CASE u # w /\ v # w
    BY <1>2, <2>3 DEF WorkInv, Alone, AtEntry
  <2> QED
    BY <2>1, <2>2, <2>3
<1>7. PushedWords'
  <2> SUFFICES ASSUME NEW f \in DOMAIN Pushed
               PROVE  rewrite'[f].words = WordsOf(0, Pushed[f])
    BY DEF PushedWords
  <2>1. f \in Entry /\ f \notin Swapped /\ rewrite[f].words = WordsOf(0, Pushed[f])
    BY ListsOf DEF WorkInv, PushedWords
  <2> QED
    BY <1>1, <1>2, <2>1 DEF Swaps
<1>8. LeftWhole'
  <2> SUFFICES ASSUME NEW f \in DOMAIN Pushed, f \notin torn',
                      \A v \in Worker : ~(worker'[v].pc # "idle" /\ worker'[v].entry = f)
               PROVE  rewrite'[f].size = All(Pushed[f]) /\ rewrite'[f].length = All(Pushed[f])
    BY DEF LeftWhole, AtEntry, Whole
  <2>1. f \in Entry /\ f \notin Swapped
    BY ListsOf
  <2>2. CASE f = e
    <3>1. q.pc = "idle"
      BY <1>2, <2>2
    <3>2. ~Swaps(p) /\ p.sizes = Pushed[f]
      BY <2>1, <2>2 DEF Swaps, Knows
    <3> QED
      BY <1>2, <2>2, <3>1, <3>2
  <2>3. CASE f # e
    <3>1. \A v \in Worker : ~AtEntry(v, f)
      BY <1>1, <1>2, <2>3 DEF AtEntry
    <3>2. f \notin torn
      BY <2>1, <2>3 DEF TornAt
    <3> QED
      BY <1>2, <2>1, <2>3, <3>1, <3>2 DEF WorkInv, LeftWhole, Whole
  <2> QED
    BY <2>2, <2>3
<1>9. AllProgress'
  <2> SUFFICES ASSUME NEW v \in Worker, worker'[v].pc # "idle", ~worker'[v].overlap
               PROVE  Progress(worker'[v], rewrite'[worker'[v].entry], sent'[v].words)
    BY DEF AllProgress
  <2>1. CASE v = w
    BY <1>2, <2>1
  <2>2. CASE v # w
    <3>1. worker'[v] = worker[v] /\ sent'[v] = sent[v]
      BY <1>2, <2>2
    <3>2. worker[v].entry # e /\ worker[v].entry \in Entry
      BY <1>5, <2>2, <3>1 DEF WorkInv, AllSized, Sized
    <3>3. rewrite'[worker[v].entry] = rewrite[worker[v].entry]
      BY <1>2, <3>2
    <3>4. Progress(worker[v], rewrite[worker[v].entry], sent[v].words)
      BY <3>1 DEF WorkInv, AllProgress
    <3> QED
      BY <3>1, <3>3, <3>4
  <2> QED
    BY <2>1, <2>2
<1>10. AllRight'
  BY <1>2 DEF WorkInv, AllRight
<1> QED
  BY <1>3, <1>4, <1>6, <1>7, <1>8, <1>9, <1>10 DEF WorkInv

LEMMA ResetKeeps ==
  ASSUME WorkInv, NEW w \in Worker, Reset(w)
  PROVE  WorkInv'
<1>1. worker[w].pc = "reset"
  BY DEF Reset, At
<1>2. PICK p \in LocalType, r \in RewriteType, g \in HeaderType : Knows(w, p, r, g)
  BY <1>1, AtWork
<1>3. /\ p = worker[w] /\ p.pc = "reset" /\ r = rewrite[p.entry] /\ Sized(p)
      /\ p.entry \in Entry
      /\ sent = [sent EXCEPT ![w] = g] /\ Right(g) /\ (~p.overlap => Progress(p, r, g.words))
  BY <1>1, <1>2 DEF Knows
<1> DEFINE q == [p EXCEPT !.pc = "option"]
           t == [r EXCEPT !.size = BASE_WORDS]
<1>4. q \in LocalType /\ q.pc = "option" /\ q.entry = p.entry /\ q.overlap = p.overlap
      /\ q.sizes = p.sizes
  BY DEF LocalType, Pcs
<1>5. t \in RewriteType /\ t.words = r.words
  BY DEF RewriteType, BASE_WORDS
<1>6. Sized(q)
  BY <1>3, <1>4 DEF Sized, Swaps
<1>7. ~p.overlap => Progress(q, t, g.words)
  <2>1. g.words \in Seq(WordType)
    BY DEF HeaderType
  <2> QED
    BY <1>3, <2>1, ResetProgress
<1>8. /\ worker' = [worker EXCEPT ![w] = q]
      /\ rewrite' = [rewrite EXCEPT ![p.entry] = t]
      /\ sent' = [sent EXCEPT ![w] = g] /\ torn' = torn
  BY <1>3 DEF Reset, Goto
<1> HIDE DEF q, t
<1>9. TornAt(p.entry)
  BY <1>8 DEF WorkInv, TypeInv, TornAt
<1> QED
  BY <1>2, <1>3, <1>4, <1>5, <1>6, <1>7, <1>8, <1>9, StepKeeps

LEMMA OptionKeeps ==
  ASSUME WorkInv, NEW w \in Worker, Option(w)
  PROVE  WorkInv'
<1>1. worker[w].pc = "option"
  BY DEF Option, At
<1>2. PICK p \in LocalType, r \in RewriteType, g \in HeaderType : Knows(w, p, r, g)
  BY <1>1, AtWork
<1>3. /\ p = worker[w] /\ p.pc = "option" /\ r = rewrite[p.entry] /\ Sized(p)
      /\ p.entry \in Entry /\ rewrite = [rewrite EXCEPT ![p.entry] = r]
      /\ sent = [sent EXCEPT ![w] = g] /\ Right(g) /\ (~p.overlap => Progress(p, r, g.words))
      /\ p.opt <= Len(p.sizes)
  BY <1>1, <1>2 DEF Knows, Option
<1> DEFINE q == [p EXCEPT !.pc = "load"]
<1>4. q \in LocalType /\ q.pc = "load" /\ q.entry = p.entry /\ q.overlap = p.overlap
      /\ q.sizes = p.sizes
  BY DEF LocalType, Pcs
<1>5. PICK t : /\ rewrite' = [rewrite EXCEPT ![p.entry] = t]
               /\ Swaps(p) => t = [r EXCEPT !.words =
                                     Overlay(@, p.at, OptionWords(p.n, p.sizes[p.opt]))]
               /\ ~Swaps(p) => t = r
  <2> DEFINE t == IF Swaps(p)
                    THEN [r EXCEPT !.words = Overlay(@, p.at, OptionWords(p.n, p.sizes[p.opt]))]
                    ELSE r
  <2>1. rewrite' = [rewrite EXCEPT ![p.entry] = t]
    BY <1>3 DEF Option, IsSwap, Swaps
  <2> QED
    BY <2>1
<1>6. t \in RewriteType /\ (~p.overlap => Progress(q, t, g.words))
  <2>1. g.words \in Seq(WordType)
    BY DEF HeaderType
  <2> QED
    BY <1>3, <1>5, <2>1, OptionProgress
<1>7. Sized(q)
  BY <1>3, <1>4 DEF Sized, Swaps
<1>8. /\ worker' = [worker EXCEPT ![w] = q]
      /\ sent' = [sent EXCEPT ![w] = g] /\ torn' = torn
  BY <1>3 DEF Option, Goto
<1> HIDE DEF q
<1>9. TornAt(p.entry)
  BY <1>8 DEF WorkInv, TypeInv, TornAt
<1>10. /\ q.pc # "idle"
       /\ q.entry = p.entry /\ (q.overlap <=> p.overlap) /\ Sized(q)
       /\ ~Swaps(p) => t.words = r.words
  BY <1>4, <1>5, <1>7
<1>11. rewrite' = [rewrite EXCEPT ![p.entry] = t]
  BY <1>5
<1> QED
  BY <1>2, <1>3, <1>4, <1>6, <1>8, <1>9, <1>10, <1>11, StepKeeps

\* What a load adds stays a count.
LEMMA SumsOfCounts ==
  ASSUME NEW size \in Nat \ {0, 1}, NEW opt \in Nat \ {0}, NEW at \in Nat \ {0},
         NEW x \in 1 .. 61
  PROVE  /\ size + x \in Nat /\ size + x >= BASE_WORDS
         /\ opt + 1 \in Nat \ {0} /\ at + x \in Nat \ {0}
BY DEF BASE_WORDS

LEMMA LoadKeeps ==
  ASSUME WorkInv, NEW w \in Worker, Load(w)
  PROVE  WorkInv'
<1>1. worker[w].pc = "load"
  BY DEF Load, At
<1>2. PICK p \in LocalType, r \in RewriteType, g \in HeaderType : Knows(w, p, r, g)
  BY <1>1, AtWork
<1>3. /\ p = worker[w] /\ p.pc = "load" /\ r = rewrite[p.entry] /\ Sized(p)
      /\ p.entry \in Entry /\ rewrite = [rewrite EXCEPT ![p.entry] = r]
      /\ sent = [sent EXCEPT ![w] = g] /\ Right(g) /\ (~p.overlap => Progress(p, r, g.words))
      /\ g = sent[w]
  BY <1>1, <1>2 DEF Knows
<1>4. g.words \in Seq(WordType) /\ r.words \in Seq(WordType) /\ r.size \in Nat \ {0, 1}
  BY DEF HeaderType, RewriteType
<1>5. PICK x \in SizesAt(IF Swaps(p) THEN r.words ELSE g.words, p.at) :
        worker' = [worker EXCEPT ![w] = [p EXCEPT !.pc = "store", !.sum = r.size + x,
                                                  !.opt = p.opt + 1, !.at = p.at + x]]
  BY <1>3 DEF Load, IsSwap, Swaps, Mine, Goto
<1>6. x \in 1 .. 61
  BY <1>4, SizesAtType, SizesType
<1> DEFINE q == [p EXCEPT !.pc = "store", !.sum = r.size + x, !.opt = p.opt + 1, !.at = p.at + x]
<1>7. q \in LocalType /\ q.pc = "store" /\ q.entry = p.entry /\ q.overlap = p.overlap
      /\ q.sizes = p.sizes /\ q.sum >= BASE_WORDS
  <2>1. p.opt \in Nat \ {0} /\ p.at \in Nat \ {0}
    BY DEF LocalType
  <2>2. /\ r.size + x \in Nat /\ r.size + x >= BASE_WORDS
        /\ p.opt + 1 \in Nat \ {0} /\ p.at + x \in Nat \ {0}
    BY <1>4, <1>6, <2>1, SumsOfCounts, Zenon
  <2>3. q.sum = r.size + x
    BY DEF LocalType
  <2> QED
    BY <2>2, <2>3 DEF LocalType, Pcs
<1>8. ~p.overlap => Progress(q, r, g.words)
  BY <1>3, <1>4, LoadProgress
<1>9. /\ worker' = [worker EXCEPT ![w] = q]
      /\ rewrite' = [rewrite EXCEPT ![p.entry] = r]
      /\ sent' = [sent EXCEPT ![w] = g] /\ torn' = torn
  BY <1>3, <1>5 DEF Load
<1> HIDE DEF q
<1>10. Sized(q)
  BY <1>3, <1>7 DEF Sized, Swaps
<1>11. TornAt(p.entry)
  BY <1>9 DEF WorkInv, TypeInv, TornAt
<1> QED
  BY <1>2, <1>3, <1>7, <1>8, <1>9, <1>10, <1>11, StepKeeps

LEMMA StoreKeeps ==
  ASSUME WorkInv, NEW w \in Worker, Store(w)
  PROVE  WorkInv'
<1>1. worker[w].pc = "store"
  BY DEF Store, At
<1>2. PICK p \in LocalType, r \in RewriteType, g \in HeaderType : Knows(w, p, r, g)
  BY <1>1, AtWork
<1>3. /\ p = worker[w] /\ p.pc = "store" /\ r = rewrite[p.entry] /\ Sized(p)
      /\ p.entry \in Entry
      /\ sent = [sent EXCEPT ![w] = g] /\ Right(g) /\ (~p.overlap => Progress(p, r, g.words))
  BY <1>1, <1>2 DEF Knows
<1> DEFINE q == [p EXCEPT !.pc = "option", !.sum = 0]
           t == [r EXCEPT !.size = p.sum]
<1>4. q \in LocalType /\ q.pc = "option" /\ q.entry = p.entry /\ q.overlap = p.overlap
      /\ q.sizes = p.sizes
  BY DEF LocalType, Pcs
<1>5. t \in RewriteType /\ t.words = r.words
  <2>1. p.sum \in Nat \ {0, 1}
    <3>1. p.sum \in Nat /\ p.sum >= BASE_WORDS
      BY <1>3 DEF LocalType, Sized
    <3> QED
      BY <3>1 DEF BASE_WORDS
  <2> QED
    BY <2>1 DEF RewriteType
<1>6. Sized(q)
  BY <1>3, <1>4 DEF Sized, Swaps
<1>7. ~p.overlap => Progress(q, t, g.words)
  BY <1>3, StoreProgress
<1>8. /\ worker' = [worker EXCEPT ![w] = q]
      /\ rewrite' = [rewrite EXCEPT ![p.entry] = t]
      /\ sent' = [sent EXCEPT ![w] = g] /\ torn' = torn
  BY <1>3 DEF Store, Goto
<1> HIDE DEF q, t
<1>9. TornAt(p.entry)
  BY <1>8 DEF WorkInv, TypeInv, TornAt
<1> QED
  BY <1>2, <1>3, <1>4, <1>5, <1>6, <1>7, <1>8, <1>9, StepKeeps

\* An entry that is left whole was left by a worker that was alone there, and
\* found all options in what it pushed.
LEMMA LeaveEffect ==
  ASSUME WorkInv, NEW w \in Worker, worker[w].entry \in Entry, Leave(w)
  PROVE  /\ TornAt(worker[w].entry)
         /\ worker[w].entry \notin torn' =>
              /\ ~worker[w].overlap
              /\ ~Swaps(worker[w]) => ~(Len(sent[w].words) < SumOf(worker[w].sizes))
  BY DEF WorkInv, TypeInv, Leave, Swaps, TornAt

LEMMA IdleLocal == Idle \in LocalType
<1>1. 0 \in 0 .. MaxPackets /\ << >> \in Lists
  BY OptionAssumption, ListsOf
<1> QED
  BY <1>1 DEF Idle, LocalType, Pcs

LEMMA IdleType ==
  ASSUME NEW n \in 0 .. MaxPackets
  PROVE  [Idle EXCEPT !.n = n] \in LocalType /\ [Idle EXCEPT !.n = n].pc = "idle"
<1>1. Idle.pc = "idle"
  BY DEF Idle
<1> QED
  BY <1>1, IdleLocal DEF LocalType

LEMMA SetLengthKeeps ==
  ASSUME WorkInv, NEW w \in Worker, SetLength(w)
  PROVE  WorkInv'
<1>1. worker[w].pc = "option"
  BY DEF SetLength, At
<1>2. PICK p \in LocalType, r \in RewriteType, g \in HeaderType : Knows(w, p, r, g)
  BY <1>1, AtWork
<1>3. /\ p = worker[w] /\ p.pc = "option" /\ r = rewrite[p.entry] /\ Sized(p)
      /\ p.entry \in Entry /\ g = sent[w]
      /\ sent = [sent EXCEPT ![w] = g] /\ Right(g) /\ (~p.overlap => Progress(p, r, g.words))
      /\ p.opt > Len(p.sizes)
  BY <1>1, <1>2 DEF Knows, SetLength
<1> DEFINE t == [r EXCEPT !.length = r.size]
<1>4. t \in RewriteType /\ t.words = r.words /\ t.size = r.size /\ t.length = r.size
  BY DEF RewriteType
<1>5. /\ rewrite' = [rewrite EXCEPT ![p.entry] = t]
      /\ sent' = [sent EXCEPT ![w] = g]
  BY <1>3 DEF SetLength, Mine
<1>6. CASE Swaps(p)
  <2> DEFINE q == [p EXCEPT !.pc = "read size"]
  <2>1. q \in LocalType /\ q.pc = "read size" /\ q.entry = p.entry /\ q.overlap = p.overlap
        /\ q.sizes = p.sizes
    BY DEF LocalType, Pcs
  <2>2. Sized(q)
    BY <1>3, <1>6, <2>1 DEF Sized, Swaps
  <2>3. ~p.overlap => Progress(q, t, g.words)
    BY <1>3, <1>6, LengthProgress
  <2>4. worker' = [worker EXCEPT ![w] = q] /\ torn' = torn
    BY <1>3, <1>6 DEF SetLength, IsSwap, Swaps, Goto
  <2> HIDE DEF q, t
  <2>5. TornAt(p.entry)
    BY <2>4 DEF WorkInv, TypeInv, TornAt
  <2> QED
    BY <1>2, <1>3, <1>4, <1>5, <2>1, <2>2, <2>3, <2>4, <2>5, StepKeeps
<1>7. CASE ~Swaps(p)
  <2> DEFINE q == [Idle EXCEPT !.n = p.n]
  <2>1. q \in LocalType /\ q.pc = "idle"
    <3>1. p.n \in 0 .. MaxPackets
      BY DEF LocalType
    <3> QED
      BY <3>1, IdleType
  <2>2. worker' = [worker EXCEPT ![w] = q] /\ Leave(w)
    BY <1>3, <1>7 DEF SetLength, IsSwap, Swaps, EndPacket, Goto
  <2>3. /\ TornAt(p.entry)
        /\ p.entry \notin torn' => ~p.overlap /\ ~(Len(g.words) < SumOf(p.sizes))
    BY <1>3, <1>7, <2>2, LeaveEffect
  <2>4. p.entry \notin torn' => t.size = All(p.sizes) /\ t.length = All(p.sizes)
    <3> SUFFICES ASSUME p.entry \notin torn'
                 PROVE  r.size = All(p.sizes)
      BY <1>4
    <3>1. Len(g.words) \in Nat /\ SumOf(p.sizes) \in Nat
      BY FirstSizesGrow DEF HeaderType, LocalType
    <3>2. Len(g.words) >= SumOf(p.sizes)
      BY <2>3, <3>1
    <3>3. InLoop(p, r, g.words)
      BY <1>3, <2>3, <3>2 DEF Progress
    <3> QED
      BY <1>3, <3>3, LoopEnds
  <2>5. /\ q.pc # "idle" => q.entry = p.entry /\ (q.overlap <=> p.overlap) /\ Sized(q)
        /\ q.pc # "idle" /\ ~q.overlap => Progress(q, t, g.words)
    BY <2>1
  <2> HIDE DEF q, t
  <2> QED
    BY <1>2, <1>3, <1>4, <1>5, <2>1, <2>2, <2>3, <2>4, <2>5, StepKeeps
<1> QED
  BY <1>6, <1>7

LEMMA ReadSizeKeeps ==
  ASSUME WorkInv, NEW w \in Worker, ReadSize(w)
  PROVE  WorkInv'
<1>1. worker[w].pc = "read size"
  BY DEF ReadSize, At
<1>2. PICK p \in LocalType, r \in RewriteType, g \in HeaderType : Knows(w, p, r, g)
  BY <1>1, AtWork
<1>3. /\ p = worker[w] /\ p.pc = "read size" /\ r = rewrite[p.entry] /\ Sized(p)
      /\ p.entry \in Entry /\ rewrite = [rewrite EXCEPT ![p.entry] = r]
      /\ sent = [sent EXCEPT ![w] = g] /\ Right(g) /\ (~p.overlap => Progress(p, r, g.words))
  BY <1>1, <1>2 DEF Knows
<1> DEFINE q == [p EXCEPT !.pc = "copy", !.len = r.size]
<1>4. q \in LocalType /\ q.pc = "copy" /\ q.entry = p.entry /\ q.overlap = p.overlap
      /\ q.sizes = p.sizes /\ q.opt = p.opt /\ q.at = p.at /\ q.len >= BASE_WORDS
  <2>1. r.size \in Nat /\ r.size >= BASE_WORDS
    BY DEF RewriteType, BASE_WORDS
  <2>2. q.len = r.size
    BY DEF LocalType
  <2> QED
    BY <2>1, <2>2 DEF LocalType, Pcs
<1>5. ~p.overlap => Progress(q, r, g.words)
  BY <1>3, ReadProgress
<1>6. /\ worker' = [worker EXCEPT ![w] = q]
      /\ rewrite' = [rewrite EXCEPT ![p.entry] = r]
      /\ sent' = [sent EXCEPT ![w] = g] /\ torn' = torn
  BY <1>3 DEF ReadSize, Goto, Mine
<1> HIDE DEF q
<1>7. Sized(q)
  BY <1>3, <1>4 DEF Sized, Swaps
<1>8. TornAt(p.entry)
  BY <1>6 DEF WorkInv, TypeInv, TornAt
<1> QED
  BY <1>2, <1>3, <1>4, <1>5, <1>6, <1>7, <1>8, StepKeeps

LEMMA CopyKeeps ==
  ASSUME WorkInv, NEW w \in Worker, Copy(w)
  PROVE  WorkInv'
<1>1. worker[w].pc = "copy"
  BY DEF Copy, At
<1>2. PICK p \in LocalType, r \in RewriteType, g \in HeaderType : Knows(w, p, r, g)
  BY <1>1, AtWork
<1>3. /\ p = worker[w] /\ p.pc = "copy" /\ r = rewrite[p.entry] /\ Sized(p)
      /\ p.entry \in Entry /\ rewrite = [rewrite EXCEPT ![p.entry] = r]
      /\ (~p.overlap => Progress(p, r, g.words))
      /\ (~Swaps(p) => p.sizes = Pushed[p.entry] /\ r.words = WordsOf(0, p.sizes))
  BY <1>1, <1>2 DEF Knows
<1> DEFINE h == Copied(p, r)
<1>4. h \in HeaderType /\ Right(h)
  BY <1>3, CopyRight
<1>5. /\ sent' = [sent EXCEPT ![w] = h]
      /\ rewrite' = [rewrite EXCEPT ![p.entry] = r]
  BY <1>3 DEF Copy, Mine, Copied
<1>6. CASE Swaps(p)
  <2> DEFINE q == [Idle EXCEPT !.n = p.n]
  <2>1. q \in LocalType /\ q.pc = "idle"
    <3>1. p.n \in 0 .. MaxPackets
      BY DEF LocalType
    <3> QED
      BY <3>1, IdleType
  <2>2. worker' = [worker EXCEPT ![w] = q] /\ Leave(w)
    BY <1>3, <1>6 DEF Copy, IsSwap, Swaps, EndPacket, Goto
  <2>3. TornAt(p.entry)
    BY <1>3, <2>2, LeaveEffect
  <2>4. /\ q.pc # "idle" => q.entry = p.entry /\ (q.overlap <=> p.overlap) /\ Sized(q)
        /\ q.pc # "idle" /\ ~q.overlap => Progress(q, r, h.words)
    BY <2>1
  <2> HIDE DEF q, h
  <2> QED
    BY <1>2, <1>4, <1>5, <1>6, <2>1, <2>2, <2>3, <2>4, StepKeeps
<1>7. CASE ~Swaps(p)
  <2> DEFINE q == [p EXCEPT !.pc = "reset"]
  <2>1. q \in LocalType /\ q.pc = "reset" /\ q.entry = p.entry /\ q.overlap = p.overlap
        /\ q.sizes = p.sizes /\ q.opt = p.opt /\ q.at = p.at
    BY DEF LocalType, Pcs
  <2>2. Sized(q)
    BY <1>3, <1>7, <2>1 DEF Sized, Swaps
  <2>3. Progress(q, r, h.words)
    BY <1>3, <1>7, CopyProgress
  <2>4. worker' = [worker EXCEPT ![w] = q] /\ torn' = torn
    BY <1>3, <1>7 DEF Copy, IsSwap, Swaps, Goto
  <2> HIDE DEF q, h
  <2>5. TornAt(p.entry)
    BY <2>4 DEF WorkInv, TypeInv, TornAt
  <2> QED
    BY <1>2, <1>4, <1>5, <2>1, <2>2, <2>3, <2>4, <2>5, StepKeeps
<1> QED
  BY <1>6, <1>7

\* A packet comes to an idle worker; whoever is at its entry learns of it.
LEMMA BeginKeeps ==
  ASSUME WorkInv, NEW w \in Worker, NEW e \in Entry, NEW sizes \in Lists, Begin(w, e, sizes),
         e \in Swapped => sizes \in Packets, e \notin Swapped => sizes = Pushed[e]
  PROVE  WorkInv'
<1> DEFINE others == {v \in Worker \ {w} : worker[v].pc # "idle" /\ worker[v].entry = e}
           last == Max({worker[v].n : v \in Worker})
           pc == IF e \in Swapped THEN "reset" ELSE "read size"
           overlap == others # {}
           left == e \in torn
           number == last + 1
           q == [Idle EXCEPT !.pc = pc, !.entry = e, !.n = number, !.sizes = sizes,
                             !.overlap = overlap, !.torn = left]
<1>1. TypeInv /\ worker[w].pc = "idle"
  BY DEF WorkInv, Begin, At
<1>2. number \in 0 .. MaxPackets
  <2> DEFINE S == {worker[v].n : v \in Worker}
  <2>1. \A v \in Worker : worker[v].n \in 0 .. MaxPackets
    BY <1>1 DEF TypeInv, LocalType
  <2>2. S \subseteq Nat /\ S # {} /\ \A s \in S : s <= MaxPackets
    BY <1>1, <2>1
  <2>3. MaxPackets \in Nat
    BY OptionAssumption
  <2>4. last \in Nat
    <3> HIDE DEF S
    <3>1. Max(S) \in S
      BY <2>2, <2>3, MaxLemma
    <3> QED
      BY <2>2, <3>1 DEF S
  <2>5. last < MaxPackets
    BY DEF Begin
  <2> HIDE DEF last
  <2> QED
    BY <2>3, <2>4, <2>5
<1>3. /\ q \in LocalType /\ q.entry = e /\ q.pc # "idle" /\ q.sizes = sizes
      /\ q.pc = pc /\ q.opt = 1 /\ q.at = 1 /\ (q.overlap <=> overlap) /\ (q.torn <=> left)
  <2>1. overlap \in BOOLEAN /\ left \in BOOLEAN /\ pc \in Pcs /\ pc # "idle"
    BY DEF Pcs
  <2> HIDE DEF overlap, left, pc, number
  <2>2. /\ q \in LocalType /\ q.pc = pc /\ q.entry = e /\ q.sizes = sizes
        /\ q.opt = 1 /\ q.at = 1 /\ (q.overlap <=> overlap) /\ (q.torn <=> left)
    <3>1. Idle \in LocalType /\ Idle.opt = 1 /\ Idle.at = 1
      BY IdleLocal DEF Idle
    <3>2. q \in LocalType
      BY <1>2, <2>1, <3>1 DEF LocalType
    <3>3. (q.overlap <=> overlap) /\ (q.torn <=> left)
      BY <1>2, <2>1, <3>1 DEF LocalType
    <3> QED
      BY <1>2, <2>1, <3>1, <3>2, <3>3 DEF LocalType
  <2> QED
    BY <2>1, <2>2
<1>4. /\ worker' = [v \in Worker |-> IF v = w THEN q
                    ELSE IF v \in others THEN [worker[v] EXCEPT !.overlap = TRUE]
                    ELSE worker[v]]
      /\ sent' = [sent EXCEPT ![w] = NoHeader] /\ rewrite' = rewrite /\ torn' = torn
  BY DEF Begin
<1> HIDE DEF q
<1>5. /\ q \in LocalType /\ q.entry = e /\ q.pc # "idle" /\ q.sizes = sizes
      /\ q.pc = (IF e \in Swapped THEN "reset" ELSE "read size")
      /\ q.opt = 1 /\ q.at = 1 /\ (q.overlap <=> others # {}) /\ (q.torn <=> e \in torn)
  BY <1>3, Zenon
<1>6. /\ worker'[w] = q
      /\ \A v \in Worker : v # w =>
           /\ worker'[v] = IF v \in others THEN [worker[v] EXCEPT !.overlap = TRUE] ELSE worker[v]
           /\ sent'[v] = sent[v]
      /\ sent'[w] = NoHeader
  BY <1>1, <1>4 DEF TypeInv
<1>7. ASSUME NEW v \in Worker, v # w
      PROVE  /\ worker'[v] \in LocalType
             /\ worker'[v].pc = worker[v].pc /\ worker'[v].entry = worker[v].entry
             /\ v \in others => worker'[v].overlap
             /\ v \notin others => worker'[v] = worker[v]
             /\ worker[v].overlap => worker'[v].overlap
             /\ Sized(worker[v]) => Sized(worker'[v])
  <2>1. worker[v] \in LocalType
    BY <1>1 DEF TypeInv
  <2>2. CASE v \in others
    <3>1. worker'[v] = [worker[v] EXCEPT !.overlap = TRUE]
      BY <1>6, <1>7, <2>2
    <3> QED
      BY <2>1, <2>2, <3>1 DEF LocalType, Sized, Swaps
  <2>3. CASE v \notin others
    BY <1>6, <1>7, <2>1, <2>3
  <2> QED
    BY <2>2, <2>3
<1>8. TypeInv'
  <2>1. worker' \in [Worker -> LocalType]
    <3>1. \A v \in Worker : worker'[v] \in LocalType
      BY <1>5, <1>6, <1>7
    <3>2. worker' = [v \in Worker |-> worker'[v]]
      BY <1>4
    <3> HIDE DEF others
    <3> QED
      BY <3>1, <3>2
  <2>2. sent' \in [Worker -> HeaderType]
    <3>1. NoHeader \in HeaderType
      <4>1. 0 \in 0 .. MaxPackets /\ << >> \in Lists /\ << >> \in Seq(WordType)
        BY OptionAssumption, ListsOf, EmptySeq
      <4> QED
        BY <4>1 DEF NoHeader, HeaderType
    <3> QED
      BY <1>1, <1>4, <3>1 DEF TypeInv
  <2> QED
    BY <1>1, <1>4, <2>1, <2>2 DEF TypeInv
<1>9. AllSized'
  <2>1. Sized(q)
    BY <1>5 DEF Sized, Swaps
  <2> QED
    BY <1>6, <1>7, <2>1 DEF WorkInv, AllSized
<1>10. Alone'
  <2> SUFFICES ASSUME NEW u \in Worker, NEW v \in Worker, u # v, worker'[u].pc # "idle",
                      worker'[v].pc # "idle", worker'[v].entry = worker'[u].entry
               PROVE  worker'[u].overlap
    BY DEF Alone, AtEntry
  <2>1. CASE u = w
    <3>1. v \in others
      BY <1>5, <1>6, <1>7, <2>1
    <3> QED
      BY <1>5, <1>6, <2>1, <3>1
  <2>2. CASE v = w
    <3>1. u \in others
      BY <1>5, <1>6, <1>7, <2>2
    <3> QED
      BY <1>7, <2>2, <3>1
  <2>3. CASE u # w /\ v # w
    BY <1>7, <2>3 DEF WorkInv, Alone, AtEntry
  <2> QED
    BY <2>1, <2>2, <2>3
<1>11. PushedWords'
  BY <1>4 DEF WorkInv, PushedWords
<1>12. LeftWhole'
  <2> SUFFICES ASSUME NEW f \in DOMAIN Pushed, f \notin torn,
                      \A v \in Worker : ~(worker'[v].pc # "idle" /\ worker'[v].entry = f)
               PROVE  Whole(f)
    BY <1>4 DEF LeftWhole, AtEntry, Whole
  <2>1. \A v \in Worker : ~AtEntry(v, f)
    BY <1>1, <1>7 DEF AtEntry
  <2> QED
    BY <2>1 DEF WorkInv, LeftWhole
<1>13. AllProgress'
  <2> SUFFICES ASSUME NEW v \in Worker, worker'[v].pc # "idle", ~worker'[v].overlap
               PROVE  Progress(worker'[v], rewrite[worker'[v].entry], sent'[v].words)
    BY <1>4 DEF AllProgress
  <2>1. CASE v = w
    <3>1. worker'[v] = q /\ others = {}
      BY <1>5, <1>6, <2>1
    <3>2. CASE e \in Swapped
      <4>1. /\ q.pc = "reset" /\ Swaps(q) /\ FirstSizes(sizes)[0] = 0 /\ Len(sizes) \in Nat
        BY <1>5, <3>2, FirstSizesSteps, ListType DEF Swaps
      <4>2. Written(q, rewrite[q.entry], sent'[v].words, 0)
        <5>1. \A ws, words : Starts(ws, words, 0)
          BY DEF Starts
        <5> QED
          BY <1>5, <4>1, <5>1 DEF Written
      <4>3. InLoop(q, rewrite[q.entry], sent'[v].words)
        <5>1. q.opt - 1 = 0 /\ q.opt \in 1 .. Len(sizes) + 1 /\ q.at = 1 + 0
          <6>1. 1 - 1 = 0 /\ 1 \in 1 .. Len(sizes) + 1 /\ 1 = 1 + 0
            BY <4>1
          <6> QED
            BY <1>5, <6>1
        <5> QED
          BY <1>5, <4>1, <4>2, <5>1 DEF InLoop, Before
      <4> QED
        BY <3>1, <4>1, <4>3 DEF Progress
    <3>3. CASE e \notin Swapped
      <4>1. q.pc = "read size" /\ ~Swaps(q) /\ e \in DOMAIN Pushed /\ q.sizes = Pushed[e]
        BY <1>5, <3>3, ListsOf DEF Swaps
      <4>2. \A u \in Worker : ~AtEntry(u, e)
        BY <1>1, <3>1 DEF AtEntry
      <4>3. ~q.torn => Whole(e)
        BY <1>5, <4>1, <4>2 DEF WorkInv, LeftWhole
      <4>4. ~q.torn => Ends(q, rewrite[e])
        BY <4>1, <4>3 DEF Ends, Whole
      <4> QED
        BY <1>5, <3>1, <4>1, <4>4 DEF Progress
    <3> QED
      BY <3>2, <3>3
  <2>2. CASE v # w
    <3>1. worker'[v] = worker[v] /\ sent'[v] = sent[v]
      BY <1>6, <1>7, <2>2
    <3> QED
      BY <3>1 DEF WorkInv, AllProgress
  <2> QED
    BY <2>1, <2>2
<1>14. AllRight'
  <2>1. Right(NoHeader)
    BY DEF Right
  <2> QED
    BY <1>6, <2>1 DEF WorkInv, AllRight
<1> QED
  BY <1>8, <1>9, <1>10, <1>11, <1>12, <1>13, <1>14 DEF WorkInv

LEMMA NextInv == WorkInv /\ [Next]_vars => WorkInv'
<1> SUFFICES ASSUME WorkInv, [Next]_vars
             PROVE  WorkInv'
  OBVIOUS
<1>1. ASSUME NEW w \in Worker, NEW e \in Swapped, NEW sizes \in Packets, Begin(w, e, sizes)
      PROVE  WorkInv'
  BY <1>1, ListsOf, BeginKeeps
<1>2. ASSUME NEW w \in Worker, NEW e \in DOMAIN Pushed, Begin(w, e, Pushed[e])
      PROVE  WorkInv'
  BY <1>2, ListsOf, BeginKeeps
<1>3. ASSUME NEW w \in Worker,
             \/ Reset(w) \/ Option(w) \/ Load(w) \/ Store(w) \/ SetLength(w) \/ ReadSize(w) \/ Copy(w)
      PROVE  WorkInv'
  BY <1>3, ResetKeeps, OptionKeeps, LoadKeeps, StoreKeeps, SetLengthKeeps, ReadSizeKeeps, CopyKeeps
<1>4. CASE UNCHANGED vars
  BY <1>4 DEF vars, WorkInv, TypeInv, AllSized, Alone, AtEntry, PushedWords, LeftWhole, Whole,
              AllProgress, AllRight
<1>5. CASE Next
  BY <1>1, <1>2, <1>3, <1>5 DEF Next
<1> QED
  BY <1>4, <1>5

-----------------------------------------------------------------------------
\* Theorems

LEMMA InvCorrect == Spec => []WorkInv
  BY InitInv, NextInv, PTL DEF Spec

\* However the loads and stores of the workers mix, an entry's size has room
\* for the base header, and only words of options are copied
\* (nsh.c: nsh_md2_encap, nsh_md2_swap).
THEOREM WorkersTypeCorrect == Spec => []TypeOK
<1>1. WorkInv => TypeOK
  <2> SUFFICES ASSUME WorkInv
               PROVE  TypeOK
    OBVIOUS
  <2>1. \A e \in Entry : rewrite[e] \in RewriteType
    BY DEF WorkInv, TypeInv
  <2>2. \A w \in Worker : worker[w] \in LocalType /\ sent[w] \in HeaderType
    BY DEF WorkInv, TypeInv
  <2>3. torn \subseteq Entry
    BY DEF WorkInv, TypeInv
  <2>4. \A e \in Entry : /\ rewrite[e].size \in Nat /\ rewrite[e].size >= BASE_WORDS
                         /\ rewrite[e].length \in Nat /\ rewrite[e].words \in Seq(WordType)
    BY <2>1 DEF RewriteType, BASE_WORDS
  <2> QED
    BY <2>2, <2>3, <2>4 DEF TypeOK, LocalType, Pcs, HeaderType
<1> QED
  BY <1>1, InvCorrect, PTL

\* A worker that had the entry to itself copies a header whose size and length
\* are those of the packet's own options, and those options, however many
\* workers there are and whatever the others do with other entries
\* (nsh.c:1865).
THEOREM HeaderCorrect == Spec => []HeaderWhole
<1>1. WorkInv => HeaderWhole
  BY DEF WorkInv, AllRight, Right, HeaderWhole, All
<1> QED
  BY <1>1, InvCorrect, PTL
=============================================================================
