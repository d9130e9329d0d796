----------------------------- MODULE NshWorkers -----------------------------
(***************************************************************************)
(* Worker threads that forward packets with the same entries at the same   *)
(* time.  nsh_input_map runs on every worker, and the rewrite of an entry, *)
(* which md2 handling refills for each packet, is shared without a lock    *)
(* (nsh.c: nsh_md2_encap, nsh_md2_swap and their use in nsh_input_map).    *)
(*                                                                         *)
(* Here the steps of one packet are apart: the size is reset, each option  *)
(* is written and added to the size (a load and a store), the length field *)
(* is set, the size read back and the header copied.  Maps and entries do  *)
(* not change meanwhile: the main thread holds the workers at a barrier    *)
(* when it runs the command line and the API.  NshForward has what a       *)
(* single worker does.                                                     *)
(*                                                                         *)
(* Everything is measured in words.  Of an option its first word, with the *)
(* size in it, is told from the others; how much of an option a handler    *)
(* copies is a matter of IoamTrace.                                        *)
(***************************************************************************)
EXTENDS Integers, SequencesExt, FiniteSetsExt

CONSTANTS
  Worker,
  Swapped,     \* entries that maps swap in
  Pushed,      \* entries that maps push: entry -> the sizes of its options
  Packets,     \* the sizes of the options of a packet that is swapped
  MaxPackets   \* bound: packets the workers get

Entry == Swapped \cup DOMAIN Pushed
OptionLists == Packets \cup {Pushed[e] : e \in DOMAIN Pushed}

ASSUME OptionAssumption ==
  /\ Worker # {} /\ Swapped \cap DOMAIN Pushed = {}
  /\ OptionLists \subseteq Seq(1 .. 61)
  /\ MaxPackets \in Nat

VARIABLES
  rewrite,   \* entry -> size, length field and words of its rewrite
  worker,    \* worker -> where it is, and its local variables
  sent,      \* worker -> the last header it copied in front of a packet
  torn       \* history: entries that workers left who were at it together

vars == << rewrite, worker, sent, torn >>

BASE_WORDS == 2
Sizes == UNION {ToSet(p) : p \in OptionLists}

\* The words that the first k options take, for each k.
FirstSizes(sizes) ==
  LET sum[k \in 0 .. Len(sizes)] == IF k = 0 THEN 0 ELSE sum[k - 1] + sizes[k]
  IN  sum

SumOf(sizes) == FirstSizes(sizes)[Len(sizes)]

\* The words of an option of packet n.  Those of a rewrite that nobody has been
\* through belong to number 0.
OptionWords(n, size) ==
  [i \in 1 .. size |-> [n |-> n, size |-> IF i = 1 THEN size ELSE 0]]

\* Those of the first k, for each k.
FirstWords(n, sizes) ==
  LET words[k \in 0 .. Len(sizes)] ==
        IF k = 0 THEN << >> ELSE words[k - 1] \o OptionWords(n, sizes[k])
  IN  words

WordsOf(n, sizes) == FirstWords(n, sizes)[Len(sizes)]

\* What is read for the size of an option at a word: anything, if it is not the
\* first of one.
SizesAt(words, at) ==
  IF at \in DOMAIN words /\ words[at].size # 0 THEN {words[at].size} ELSE Sizes

Idle == [pc |-> "idle", entry |-> "none", n |-> 0, sizes |-> << >>, opt |-> 1, at |-> 1,
         sum |-> 0, len |-> 0, overlap |-> FALSE, torn |-> FALSE]

NoHeader ==
  [size |-> 0, length |-> 0, words |-> << >>, entry |-> "none", n |-> 0,
   sizes |-> << >>, overlap |-> FALSE, torn |-> FALSE]

Init ==
  /\ rewrite = [e \in Entry |->
       LET sizes == IF e \in Swapped THEN << >> ELSE Pushed[e]
           all   == BASE_WORDS + SumOf(sizes)
       IN  [size |-> all, length |-> all, words |-> WordsOf(0, sizes)]]
  /\ worker = [w \in Worker |-> Idle]
  /\ sent = [w \in Worker |-> NoHeader]
  /\ torn = {}

-----------------------------------------------------------------------------
At(w, pc) == worker[w].pc = pc
Mine(w) == rewrite[worker[w].entry]
IsSwap(w) == worker[w].entry \in Swapped

\* The worker goes on with these local variables.
Goto(w, p) == worker' = [worker EXCEPT ![w] = p]

\* Only the number of its last packet is left of an idle worker.
EndPacket(w) == Goto(w, [Idle EXCEPT !.n = worker[w].n])

\* A packet's map leads to the entry.  The history notes who else is at it.
Begin(w, e, sizes) ==
  LET others == {v \in Worker \ {w} : worker[v].pc # "idle" /\ worker[v].entry = e}
      last   == Max({worker[v].n : v \in Worker})
  IN  /\ At(w, "idle") /\ last < MaxPackets
      /\ worker' = [v \in Worker |->
           IF v = w
             THEN [Idle EXCEPT !.pc = IF e \in Swapped THEN "reset" ELSE "read size",
                               !.entry = e, !.n = last + 1, !.sizes = sizes,
                               !.overlap = others # {}, !.torn = e \in torn]
           ELSE IF v \in others THEN [worker[v] EXCEPT !.overlap = TRUE]
           ELSE worker[v]]
      /\ sent' = [sent EXCEPT ![w] = NoHeader]
      /\ UNCHANGED << rewrite, torn >>

\* Faulty: the base header is not counted.
ResetToZero(w) ==
  /\ At(w, "reset")
  /\ rewrite' = [rewrite EXCEPT ![worker[w].entry].size = 0]
  /\ Goto(w, [worker[w] EXCEPT !.pc = "option"])
  /\ UNCHANGED << sent, torn >>

Reset(w) ==
  /\ At(w, "reset")
  /\ rewrite' = [rewrite EXCEPT ![worker[w].entry].size = BASE_WORDS]
  /\ Goto(w, [worker[w] EXCEPT !.pc = "option"])
  /\ UNCHANGED << sent, torn >>

\* Words written into the rewrite at a place; those between are zero.
Overlay(words, at, new) ==
  [i \in 1 .. Max({Len(words), at + Len(new) - 1}) |->
     IF i \in at .. at + Len(new) - 1 THEN new[i - at + 1]
     ELSE IF i \in DOMAIN words THEN words[i] ELSE [n |-> 0, size |-> 0]]

\* The handler of an option: a swap writes the option into the rewrite; a push
\* has it in the packet's copy and writes there.
Option(w) ==
  LET p == worker[w]
  IN  /\ At(w, "option") /\ p.opt <= Len(p.sizes)
      /\ rewrite' = IF IsSwap(w)
                      THEN [rewrite EXCEPT ![p.entry].words =
                              Overlay(@, p.at, OptionWords(p.n, p.sizes[p.opt]))]
                      ELSE rewrite
      /\ Goto(w, [p EXCEPT !.pc = "load"])
      /\ UNCHANGED << sent, torn >>

\* The size of the option is read again, from where it was written.
Load(w) ==
  LET p == worker[w]
  IN  /\ At(w, "load")
      /\ \E s \in SizesAt(IF IsSwap(w) THEN Mine(w).words ELSE sent[w].words, p.at) :
           Goto(w, [p EXCEPT !.pc = "store", !.sum = Mine(w).size + s,
                             !.opt = p.opt + 1, !.at = p.at + s])
      /\ UNCHANGED << rewrite, sent, torn >>

Store(w) ==
  /\ At(w, "store")
  /\ rewrite' = [rewrite EXCEPT ![worker[w].entry].size = worker[w].sum]
  /\ Goto(w, [worker[w] EXCEPT !.pc = "option", !.sum = 0])
  /\ UNCHANGED << sent, torn >>

\* Whoever leaves an entry leaves it torn if others were at it, or if not all
\* options could be found in the header it pushed.
Leave(w) ==
  LET p == worker[w]
      short == p.entry \notin Swapped /\ Len(sent[w].words) < SumOf(p.sizes)
  IN  torn' = IF p.overlap \/ short THEN torn \cup {p.entry} ELSE torn \ {p.entry}

\* Faulty: the length field is left as it is.
SetLengthNot(w) ==
  LET p == worker[w]
  IN  /\ At(w, "option") /\ p.opt > Len(p.sizes)
      /\ UNCHANGED << rewrite, sent >>
      /\ IF IsSwap(w) THEN Goto(w, [p EXCEPT !.pc = "read size"]) /\ UNCHANGED torn
                      ELSE EndPacket(w) /\ Leave(w)

\* The end of nsh_md2_swap, and of nsh_md2_encap, which ends the packet.
SetLength(w) ==
  LET p == worker[w]
  IN  /\ At(w, "option") /\ p.opt > Len(p.sizes)
      /\ rewrite' = [rewrite EXCEPT ![p.entry].length = Mine(w).size]
      /\ UNCHANGED sent
      /\ IF IsSwap(w) THEN Goto(w, [p EXCEPT !.pc = "read size"]) /\ UNCHANGED torn
                      ELSE EndPacket(w) /\ Leave(w)

ReadSize(w) ==
  /\ At(w, "read size")
  /\ Goto(w, [worker[w] EXCEPT !.pc = "copy", !.len = Mine(w).size])
  /\ UNCHANGED << rewrite, sent, torn >>

\* The header is copied, as many words as were read; memory behind the options
\* ever written is zero.
Copy(w) ==
  LET p == worker[w]
      m == Mine(w)
  IN  /\ At(w, "copy")
      /\ sent' = [sent EXCEPT ![w] =
           [size |-> p.len, length |-> m.length,
            words |-> SubSeq(Overlay(m.words, p.len - BASE_WORDS + 1, << >>),
                             1, p.len - BASE_WORDS),
            entry |-> p.entry, n |-> p.n, sizes |-> p.sizes, overlap |-> p.overlap,
            torn |-> p.torn]]
      /\ UNCHANGED rewrite
      /\ IF IsSwap(w) THEN EndPacket(w) /\ Leave(w)
                      ELSE Goto(w, [p EXCEPT !.pc = "reset"]) /\ UNCHANGED torn

Next ==
  \E w \in Worker :
    \/ \E e \in Swapped, sizes \in Packets : Begin(w, e, sizes)
    \/ \E e \in DOMAIN Pushed : Begin(w, e, Pushed[e])
    \/ Reset(w)
    \/ Option(w)
    \/ Load(w)
    \/ Store(w)
    \/ SetLength(w)
    \/ ReadSize(w)
    \/ Copy(w)

Spec == Init /\ [][Next]_vars

-----------------------------------------------------------------------------
\* Properties

WordType == [n : 0 .. MaxPackets, size : {0} \cup Sizes]

\* Every variable keeps its type; however the workers' additions to a size mix,
\* it has room for the base header.
TypeOK ==
  /\ \A e \in Entry :
       /\ rewrite[e].size \in Nat /\ rewrite[e].size >= BASE_WORDS
       /\ rewrite[e].length \in Nat
       /\ rewrite[e].words \in Seq(WordType)
  /\ \A w \in Worker :
       /\ worker[w].pc \in {"idle", "reset", "option", "load", "store", "read size", "copy"}
       /\ sent[w].words \in Seq(WordType)
  /\ torn \subseteq Entry

\* "rewrite_size should equal to (encap_hdr0->length * 4)" (nsh.c:1865), and
\* what is copied is the packet's own options: so it is, if no other worker was
\* at the entry between the reset and the copy.  What workers have left that
\* were at it together does no harm to a swap that comes later; to a push it
\* does.
HeaderWhole ==
  \A w \in Worker :
    LET h == sent[w]
        all == BASE_WORDS + SumOf(h.sizes)
    IN  h # NoHeader /\ ~h.overlap /\ (h.entry \in Swapped \/ ~h.torn) =>
          /\ h.size = all /\ h.length = all
          /\ h.words = IF h.entry \in Swapped THEN WordsOf(h.n, h.sizes)
                       ELSE WordsOf(0, h.sizes)
=============================================================================
