--------------------------- MODULE VatClientProofs ---------------------------
(***************************************************************************)
(* Proofs about VatClient, for any tables, keys and number of requests:    *)
(* whichever command a reply is taken for, and however late it comes.      *)
(***************************************************************************)
EXTENDS VatClient, SharedLemmas, FiniteSetTheorems

-----------------------------------------------------------------------------
\* The inductive invariant.

\* The requests the plug-in has done.
Handled == Len(sent) - Len(requests)

IsReply(m) == "details" \notin DOMAIN m

Message == ReplyType \cup [details : Word]

VatType ==
  /\ async_mode \in BOOLEAN /\ async_errors \in Nat
  /\ result_ready \in {0, 1}
  /\ retval \in [value : {0, -1, -2}, of : Nat]
  /\ waiting \in BOOLEAN
  /\ returned \in [value : {0, -1, -2, -3, -99}, of : Nat, before : Nat, fresh : BOOLEAN]
  /\ sent \in Seq(Request) /\ Len(sent) <= MaxRequests
  /\ requests \in Seq(Nat)
  /\ replies \in Seq(Message)
  /\ tables \in [Table -> PoolType(Word)]

\* The queue of the plug-in holds the requests it has not done, in order.
QueueInOrder ==
  /\ Len(requests) <= Len(sent)
  /\ \A i \in 1 .. Len(requests) : requests[i] = Handled + i

\* The replies under way are to requests that are done, in order, and later
\* than the one the client heard last.
RepliesInOrder ==
  /\ retval.of <= Handled
  /\ \A i \in 1 .. Len(replies) :
       IsReply(replies[i]) => retval.of < replies[i].of /\ replies[i].of <= Handled
  /\ \A i, j \in 1 .. Len(replies) :
       i < j /\ IsReply(replies[i]) /\ IsReply(replies[j]) => replies[i].of < replies[j].of

\* What was returned was heard, and what is there for a command that waits was
\* heard after it was sent.
AnswersHeard ==
  /\ returned.of <= retval.of /\ returned.before <= retval.of
  /\ returned.of # 0 => returned.before < returned.of
  /\ waiting => returned.of = 0
  /\ waiting /\ result_ready = 1 => returned.before < retval.of

\* The pools are well formed, and no key is in a table twice.
PoolGood(pool) ==
  /\ PoolOK(pool)
  /\ \A i, j \in Live(pool) : pool.elts[i] = pool.elts[j] => i = j

TablesGood == \A t \in Table : PoolGood(tables[t])

\* A command sent when all was quiet: either the plug-in has not done it, and
\* there is nothing to hear, or the table shows it, and only it is to be heard.
NothingHeard == replies = << >> /\ result_ready = 0 /\ returned.of = 0

Shown(r) ==
  r.op # "dump" => ((ntohl[r.nsp_nsi] \in Keys(tables[r.table])) = (r.op = "add"))

OfLast(n, r) == n = Len(sent) /\ r.op # "dump"

OnlyOfLast(r) ==
  /\ \A i \in 1 .. Len(replies) : IsReply(replies[i]) => OfLast(replies[i].of, r)
  /\ result_ready = 1 => OfLast(retval.of, r)
  /\ returned.of # 0 => OfLast(returned.of, r)

FreshCommand ==
  returned.fresh =>
    /\ sent # << >>
    /\ \/ requests = << Len(sent) >> /\ NothingHeard
       \/ requests = << >> /\ Shown(sent[Len(sent)]) /\ OnlyOfLast(sent[Len(sent)])

VatInv ==
  VatType /\ QueueInOrder /\ RepliesInOrder /\ AnswersHeard /\ TablesGood /\ FreshCommand

-----------------------------------------------------------------------------
\* The keys in a table.

\* pool_get enters a key that is not there.
LEMMA KeyEntered ==
  ASSUME NEW p \in PoolType(Word), PoolGood(p), NEW k \in Word, k \notin Keys(p),
         NEW q, q = PoolGet(p, k)
  PROVE  q \in PoolType(Word) /\ PoolGood(q) /\ Keys(q) = Keys(p) \cup {k}
<1> DEFINE n == NextIndex(p)
<1>1. PoolOK(p) /\ \A i, j \in Live(p) : p.elts[i] = p.elts[j] => i = j
  BY DEF PoolGood
<1>2. /\ n \notin Live(p)
      /\ q \in PoolType(Word) /\ PoolOK(q)
      /\ Live(q) = Live(p) \cup {n}
      /\ q.elts[n] = k
      /\ \A i \in DOMAIN p.elts : i # n => q.elts[i] = p.elts[i]
  BY <1>1, PoolGetLemma
<1> HIDE DEF n
<1>3. \A i \in Live(p) : q.elts[i] = p.elts[i] /\ p.elts[i] # k
  BY <1>2 DEF Live, Keys
<1>4. \A i, j \in Live(q) : q.elts[i] = q.elts[j] => i = j
  BY <1>1, <1>2, <1>3
<1>5. Keys(q) = Keys(p) \cup {k}
  BY <1>2, <1>3 DEF Keys
<1> QED
  BY <1>2, <1>4, <1>5 DEF PoolGood

\* pool_put of the index of a key removes it.
LEMMA KeyRemoved ==
  ASSUME NEW p \in PoolType(Word), PoolGood(p), NEW k \in Keys(p),
         NEW q, q = PoolPut(p, IndexOf(p, k))
  PROVE  q \in PoolType(Word) /\ PoolGood(q) /\ Keys(q) = Keys(p) \ {k}
<1> DEFINE n == IndexOf(p, k)
<1>1. PoolOK(p) /\ \A i, j \in Live(p) : p.elts[i] = p.elts[j] => i = j
  BY DEF PoolGood
<1>2. n \in Live(p) /\ p.elts[n] = k
  <2>1. \E i \in Live(p) : p.elts[i] = k
    BY DEF Keys
  <2> QED
    BY <2>1 DEF IndexOf
<1> HIDE DEF n
<1>3. q = PoolPut(p, n)
  BY DEF n
<1>4. /\ q \in PoolType(Word) /\ PoolOK(q)
      /\ q.elts = p.elts /\ Live(q) = Live(p) \ {n}
  BY <1>1, <1>2, <1>3, PoolPutLemma
<1>5. Keys(q) = Keys(p) \ {k}
  BY <1>1, <1>2, <1>4 DEF Keys
<1> QED
  BY <1>1, <1>4, <1>5 DEF PoolGood

\* What a handler of the plug-in does to its table, and what it says of it.
LEMMA ApplyLemma ==
  ASSUME NEW r \in Request, NEW p \in PoolType(Word), PoolGood(p),
         NEW q, q = Apply(r, p)
  PROVE  /\ q \in PoolType(Word) /\ PoolGood(q)
         /\ Rv(r, p) \in {0, -1, -2}
         /\ r.op # "dump" => ((ntohl[r.nsp_nsi] \in Keys(q)) <=> r.op = "add")
<1> DEFINE k == ntohl[r.nsp_nsi]
<1>1. r.op \in {"add", "del", "dump"} /\ k \in Word
  BY WordAssumption DEF Request
<1> HIDE DEF k
<1>2. CASE r.op = "add" /\ k \in Keys(p)
  <2>1. Rv(r, p) = -1
    BY <1>2 DEF Rv, k
  <2>2. q = p
    BY <2>1 DEF Apply
  <2> QED
    BY <1>2, <2>1, <2>2 DEF k
<1>3. CASE r.op = "del" /\ k \notin Keys(p)
  <2>1. Rv(r, p) = -2
    BY <1>3 DEF Rv, k
  <2>2. q = p
    BY <2>1 DEF Apply
  <2> QED
    BY <1>3, <2>1, <2>2 DEF k
<1>4. CASE r.op = "add" /\ k \notin Keys(p)
  <2>1. Rv(r, p) = 0
    BY <1>4 DEF Rv, k
  <2>2. q = PoolGet(p, k)
    BY <1>4, <2>1 DEF Apply, k
  <2> QED
    BY <1>1, <1>4, <2>1, <2>2, KeyEntered DEF k
<1>5. CASE r.op = "del" /\ k \in Keys(p)
  <2>1. Rv(r, p) = 0
    BY <1>5 DEF Rv, k
  <2>2. q = PoolPut(p, IndexOf(p, k))
    BY <1>5, <2>1 DEF Apply, k
  <2>3. q \in PoolType(Word) /\ PoolGood(q) /\ Keys(q) = Keys(p) \ {k}
    BY <1>5, <2>2, KeyRemoved
  <2> QED
    BY <1>5, <2>1, <2>3 DEF k
<1>6. CASE r.op = "dump"
  <2>1. Rv(r, p) = 0 /\ q = p
    BY <1>6 DEF Rv, Apply
  <2> QED
    BY <1>6, <2>1
<1> QED
  BY <1>1, <1>2, <1>3, <1>4, <1>5, <1>6

\* A request is answered at most once, and a dump by details alone.
LEMMA AnswerLemma ==
  ASSUME NEW n \in Nat, NEW r \in Request, NEW p \in PoolType(Word), PoolGood(p),
         NEW a, a = Answer(n, r, p)
  PROVE  /\ a \in Seq(Message)
         /\ Len(a) = 0 \/ Len(a) = 1
         /\ \A i \in 1 .. Len(a) : IsReply(a[i]) => a[i].of = n /\ r.op # "dump"
<1>1. CASE r.op # "dump"
  <2> DEFINE m == [retval |-> Rv(r, p), of |-> n]
  <2>1. a = << m >>
    BY <1>1 DEF Answer
  <2>2. m \in Message /\ m.of = n
    BY ApplyLemma DEF Message, ReplyType
  <2> HIDE DEF m
  <2> QED
    BY <1>1, <2>1, <2>2
<1>2. CASE r.op = "dump" /\ p.elts = << >>
  <2>1. a = << >>
    BY <1>2 DEF Answer
  <2> QED
    BY <2>1
<1>3. CASE r.op = "dump" /\ p.elts # << >>
  <2> DEFINE m == [details |-> p.elts[1]]
  <2>1. a = << m >>
    BY <1>3 DEF Answer
  <2>2. p.elts \in Seq(Word)
    BY DEF PoolType
  <2>3. p.elts[1] \in Word
    BY <1>3, <2>2
  <2>4. m \in Message /\ ~IsReply(m)
    BY <2>3 DEF Message, IsReply
  <2> HIDE DEF m
  <2> QED
    BY <2>1, <2>4
<1> QED
  BY <1>1, <1>2, <1>3

\* The first of a queue, and what is left of it.
LEMMA TailOfQueue ==
  ASSUME NEW Kind, NEW q \in Seq(Kind), q # << >>, NEW t, t = Tail(q)
  PROVE  /\ q[1] \in Kind /\ t \in Seq(Kind)
         /\ Len(q) \in Nat \ {0} /\ Len(t) = Len(q) - 1
         /\ \A i \in 1 .. Len(t) : t[i] = q[i + 1]
BY EmptySeq

LEMMA AppendToQueue ==
  ASSUME NEW Kind, NEW q \in Seq(Kind), NEW a \in Seq(Kind), NEW c, c = q \o a
  PROVE  /\ c \in Seq(Kind) /\ Len(c) = Len(q) + Len(a)
         /\ \A i \in 1 .. Len(q) : c[i] = q[i]
         /\ \A i \in 1 .. Len(c) : i > Len(q) =>
              c[i] = a[i - Len(q)] /\ i - Len(q) \in 1 .. Len(a)
OBVIOUS

-----------------------------------------------------------------------------
\* The inductive invariant holds at the start and in every step.

LEMMA InitInv == Init => VatInv
<1> SUFFICES ASSUME Init
             PROVE  VatInv
  OBVIOUS
<1>1. /\ sent = << >> /\ requests = << >> /\ replies = << >>
      /\ Len(sent) = 0 /\ Len(requests) = 0 /\ Len(replies) = 0
  BY DEF Init
<1>2. /\ EmptyPool \in PoolType(Word) /\ Live(EmptyPool) = {} /\ PoolOK(EmptyPool)
  BY EmptySeq DEF EmptyPool, PoolType, Live, Freed, PoolOK, ToSet
<1>3. VatType
  <2>1. async_mode \in BOOLEAN /\ 0 <= MaxRequests
    BY ModeAssumption DEF Init
  <2>2. /\ sent \in Seq(Request) /\ requests \in Seq(Nat) /\ replies \in Seq(Message)
    BY <1>1, EmptySeq
  <2>3. tables \in [Table -> PoolType(Word)]
    BY <1>2 DEF Init
  <2> QED
    BY <1>1, <2>1, <2>2, <2>3 DEF VatType, Init
<1>4. QueueInOrder
  BY <1>1 DEF QueueInOrder
<1>5. RepliesInOrder
  BY <1>1 DEF RepliesInOrder, Handled, Init
<1>6. AnswersHeard
  BY DEF AnswersHeard, Init
<1>7. TablesGood
  BY <1>2 DEF TablesGood, PoolGood, Init
<1>8. FreshCommand
  BY DEF FreshCommand, Init
<1> QED
  BY <1>3, <1>4, <1>5, <1>6, <1>7, <1>8 DEF VatInv

LEMMA Lengths ==
  ASSUME VatType
  PROVE  /\ Len(sent) \in Nat /\ Len(requests) \in Nat /\ Len(replies) \in Nat
         /\ Handled \in Int /\ MaxRequests \in Nat
         /\ retval.of \in Nat /\ returned.of \in Nat /\ returned.before \in Nat
BY ModeAssumption DEF VatType, Handled

LEMMA StepCommand ==
  ASSUME VatInv, NEW r \in Request, Command(r)
  PROVE  VatInv'
<1>0. /\ ~waiting /\ Len(sent) < MaxRequests
      /\ result_ready' = 0 /\ UNCHANGED << async_mode, async_errors, retval >>
      /\ sent' = Append(sent, r) /\ requests' = Append(requests, Len(sent) + 1)
      /\ waiting' = TRUE
      /\ returned' = [value |-> 0, of |-> 0, before |-> LastAnswered,
                      fresh |-> requests = << >> /\ replies = << >>]
      /\ UNCHANGED << replies, tables >>
  BY DEF Command, M, S
<1>1. VatType /\ QueueInOrder /\ RepliesInOrder /\ AnswersHeard /\ TablesGood
  BY DEF VatInv
<1>2. /\ Len(sent) \in Nat /\ Len(requests) \in Nat /\ Len(replies) \in Nat
      /\ Handled \in Int /\ MaxRequests \in Nat
      /\ retval.of \in Nat /\ returned.of \in Nat /\ returned.before \in Nat
  BY <1>1, Lengths
<1>3. sent \in Seq(Request) /\ requests \in Seq(Nat)
  BY <1>1 DEF VatType
<1>4. /\ sent' \in Seq(Request) /\ Len(sent') = Len(sent) + 1
      /\ sent'[Len(sent) + 1] = r
  BY <1>0, <1>3
<1>5. /\ requests' \in Seq(Nat) /\ Len(requests') = Len(requests) + 1
      /\ requests'[Len(requests) + 1] = Len(sent) + 1
      /\ \A i \in 1 .. Len(requests) : requests'[i] = requests[i]
  BY <1>0, <1>2, <1>3
<1>6. Handled' = Handled
  BY <1>2, <1>4, <1>5 DEF Handled
<1>7. LastAnswered \in Nat /\ LastAnswered <= retval.of
  BY <1>1, <1>2 DEF LastAnswered, AnswersHeard
<1>8. returned'.of = 0 /\ returned'.before = LastAnswered
  BY <1>0
<1>9. VatType'
  <2>1. returned' \in [value : {0, -1, -2, -3, -99}, of : Nat, before : Nat, fresh : BOOLEAN]
    BY <1>0, <1>7
  <2>2. Len(sent') <= MaxRequests
    BY <1>0, <1>2, <1>4
  <2> QED
    BY <1>0, <1>1, <1>4, <1>5, <2>1, <2>2 DEF VatType
<1>10. QueueInOrder'
  <2>1. Len(requests) <= Len(sent) /\ \A i \in 1 .. Len(requests) : requests[i] = Handled + i
    BY <1>1 DEF QueueInOrder
  <2>2. ASSUME NEW i \in 1 .. Len(requests')
        PROVE  requests'[i] = Handled' + i
    <3>1. CASE i \in 1 .. Len(requests)
      BY <1>5, <1>6, <2>1, <3>1
    <3>2. CASE i = Len(requests) + 1
      BY <1>2, <1>5, <1>6, <3>2 DEF Handled
    <3> QED
      BY <1>2, <1>5, <3>1, <3>2
  <2>3. Len(requests') <= Len(sent')
    BY <1>2, <1>4, <1>5, <2>1
  <2> QED
    BY <2>2, <2>3 DEF QueueInOrder
<1>11. RepliesInOrder'
  BY <1>0, <1>1, <1>6 DEF RepliesInOrder
<1>12. AnswersHeard'
  BY <1>0, <1>2, <1>7, <1>8 DEF AnswersHeard
<1>13. TablesGood'
  BY <1>0, <1>1 DEF TablesGood
<1>14. FreshCommand'
  <2> SUFFICES ASSUME returned'.fresh
               PROVE  /\ sent' # << >>
                      /\ requests' = << Len(sent') >> /\ NothingHeard'
    BY DEF FreshCommand
  <2>1. requests = << >> /\ replies = << >>
    BY <1>0
  <2>2. requests' = << Len(sent') >>
    BY <1>0, <1>4, <2>1
  <2> QED
    BY <1>0, <1>4, <1>8, <2>1, <2>2 DEF NothingHeard
<1> QED
  BY <1>9, <1>10, <1>11, <1>12, <1>13, <1>14 DEF VatInv

LEMMA StepRefusedCommand ==
  ASSUME VatInv, RefusedCommand
  PROVE  VatInv'
<1>0. PICK rv \in {-99, -1, -2, -3} :
        returned' = [value |-> rv, of |-> 0, before |-> LastAnswered, fresh |-> FALSE]
  BY DEF RefusedCommand
<1>1. /\ ~waiting
      /\ UNCHANGED << async_mode, async_errors, result_ready, retval >>
      /\ UNCHANGED << waiting, sent, requests, replies, tables >>
  BY DEF RefusedCommand, vam
<1>2. VatType /\ QueueInOrder /\ RepliesInOrder /\ AnswersHeard /\ TablesGood
  BY DEF VatInv
<1>3. retval.of \in Nat /\ returned.of \in Nat /\ returned.before \in Nat
  BY <1>2, Lengths
<1>4. LastAnswered \in Nat /\ LastAnswered <= retval.of
  BY <1>2, <1>3 DEF LastAnswered, AnswersHeard
<1>5. returned'.of = 0 /\ returned'.before = LastAnswered /\ ~returned'.fresh
  BY <1>0
<1>6. VatType'
  <2>1. returned' \in [value : {0, -1, -2, -3, -99}, of : Nat, before : Nat, fresh : BOOLEAN]
    BY <1>0, <1>4
  <2> QED
    BY <1>1, <1>2, <2>1 DEF VatType
<1>7. QueueInOrder' /\ RepliesInOrder' /\ TablesGood'
  BY <1>1, <1>2 DEF QueueInOrder, RepliesInOrder, TablesGood, Handled
<1>8. AnswersHeard'
  BY <1>1, <1>3, <1>4, <1>5 DEF AnswersHeard
<1>9. FreshCommand'
  BY <1>5 DEF FreshCommand
<1> QED
  BY <1>6, <1>7, <1>8, <1>9 DEF VatInv

LEMMA StepResult ==
  ASSUME VatInv, Result
  PROVE  VatInv'
<1>0. /\ waiting /\ result_ready = 1 /\ waiting' = FALSE
      /\ returned' = [returned EXCEPT !.value = retval.value, !.of = retval.of]
      /\ UNCHANGED << async_mode, async_errors, result_ready, retval >>
      /\ UNCHANGED << sent, requests, replies, tables >>
  BY DEF Result, vam
<1>1. /\ VatType /\ QueueInOrder /\ RepliesInOrder /\ AnswersHeard /\ TablesGood
      /\ FreshCommand
  BY DEF VatInv
<1>2. retval.of \in Nat /\ returned.of \in Nat /\ returned.before \in Nat
  BY <1>1, Lengths
<1>3. /\ returned'.of = retval.of /\ returned'.before = returned.before
      /\ returned'.fresh = returned.fresh
  BY <1>0, <1>1 DEF VatType
<1>4. VatType'
  <2>1. returned' \in [value : {0, -1, -2, -3, -99}, of : Nat, before : Nat, fresh : BOOLEAN]
    BY <1>0, <1>1 DEF VatType
  <2> QED
    BY <1>0, <1>1, <2>1 DEF VatType
<1>5. QueueInOrder' /\ RepliesInOrder' /\ TablesGood'
  BY <1>0, <1>1 DEF QueueInOrder, RepliesInOrder, TablesGood, Handled
<1>6. AnswersHeard'
  BY <1>0, <1>1, <1>2, <1>3 DEF AnswersHeard
<1>7. FreshCommand'
  <2> SUFFICES ASSUME returned'.fresh
               PROVE  /\ sent' # << >>
                      /\ requests' = << >> /\ Shown(sent[Len(sent)])' /\ OnlyOfLast(sent[Len(sent)])'
    BY DEF FreshCommand
  <2>1. /\ sent # << >>
        /\ requests = << >> /\ Shown(sent[Len(sent)]) /\ OnlyOfLast(sent[Len(sent)])
    BY <1>0, <1>1, <1>3 DEF FreshCommand, NothingHeard
  <2>2. Shown(sent[Len(sent)])'
    BY <1>0, <2>1 DEF Shown
  <2>3. OnlyOfLast(sent[Len(sent)])'
    BY <1>0, <1>3, <2>1 DEF OnlyOfLast, OfLast
  <2> QED
    BY <1>0, <2>1, <2>2, <2>3
<1> QED
  BY <1>4, <1>5, <1>6, <1>7 DEF VatInv

LEMMA StepTimeout ==
  ASSUME VatInv, Timeout
  PROVE  VatInv'
<1>0. /\ waiting /\ waiting' = FALSE
      /\ returned' = [returned EXCEPT !.value = -99]
      /\ UNCHANGED << async_mode, async_errors, result_ready, retval >>
      /\ UNCHANGED << sent, requests, replies, tables >>
  BY DEF Timeout, vam
<1>1. /\ VatType /\ QueueInOrder /\ RepliesInOrder /\ AnswersHeard /\ TablesGood
      /\ FreshCommand
  BY DEF VatInv
<1>2. /\ returned'.of = returned.of /\ returned'.before = returned.before
      /\ returned'.fresh = returned.fresh
  BY <1>0, <1>1 DEF VatType
<1>3. VatType'
  <2>1. returned' \in [value : {0, -1, -2, -3, -99}, of : Nat, before : Nat, fresh : BOOLEAN]
    BY <1>0, <1>1 DEF VatType
  <2> QED
    BY <1>0, <1>1, <2>1 DEF VatType
<1>4. QueueInOrder' /\ RepliesInOrder' /\ TablesGood'
  BY <1>0, <1>1 DEF QueueInOrder, RepliesInOrder, TablesGood, Handled
<1>5. AnswersHeard'
  BY <1>0, <1>1, <1>2 DEF AnswersHeard
<1>6. FreshCommand'
  BY <1>0, <1>1, <1>2 DEF FreshCommand, NothingHeard, Shown, OnlyOfLast, OfLast
<1> QED
  BY <1>3, <1>4, <1>5, <1>6 DEF VatInv

LEMMA StepHandleRequest ==
  ASSUME VatInv, HandleRequest
  PROVE  VatInv'
<1> DEFINE n == requests[1]
           r == sent[n]
           a == Answer(n, r, tables[r.table])
           q == Apply(r, tables[r.table])
<1>0. /\ requests # << >> /\ requests' = Tail(requests)
      /\ replies' = replies \o a
      /\ tables' = [tables EXCEPT ![r.table] = q]
      /\ UNCHANGED << async_mode, async_errors, result_ready, retval >>
      /\ UNCHANGED << waiting, returned, sent >>
  BY DEF HandleRequest, vam
<1>1. /\ VatType /\ QueueInOrder /\ RepliesInOrder /\ AnswersHeard /\ TablesGood
      /\ FreshCommand
  BY DEF VatInv
<1>2. /\ Len(sent) \in Nat /\ Len(requests) \in Nat /\ Len(replies) \in Nat
      /\ Handled \in Int /\ retval.of \in Nat
  BY <1>1, Lengths
<1>3. /\ sent \in Seq(Request) /\ requests \in Seq(Nat) /\ replies \in Seq(Message)
      /\ tables \in [Table -> PoolType(Word)]
  BY <1>1 DEF VatType
<1>4. /\ Len(requests) \in Nat \ {0} /\ requests' \in Seq(Nat)
      /\ Len(requests') = Len(requests) - 1
      /\ \A i \in 1 .. Len(requests') : requests'[i] = requests[i + 1]
  BY <1>0, <1>3, TailOfQueue
<1>5. /\ Len(requests) <= Len(sent)
      /\ \A i \in 1 .. Len(requests) : requests[i] = Handled + i
  BY <1>1 DEF QueueInOrder
<1>6. n = Handled + 1 /\ n \in 1 .. Len(sent) /\ n \in Nat
  <2>1. n = Handled + 1
    BY <1>4, <1>5
  <2> QED
    BY <1>2, <1>4, <1>5, <2>1 DEF Handled
<1>7. r \in Request /\ r.table \in Table
  <2>1. r \in Request
    BY <1>3, <1>6
  <2> QED
    BY <2>1 DEF Request
<1>8. Handled' = n
  <2>1. Handled' = Len(sent) - (Len(requests) - 1)
    BY <1>0, <1>4 DEF Handled
  <2> QED
    BY <1>2, <1>6, <2>1 DEF Handled
<1>9. tables[r.table] \in PoolType(Word) /\ PoolGood(tables[r.table])
  BY <1>1, <1>3, <1>7 DEF TablesGood
<1> HIDE DEF n, r
<1>10. /\ q \in PoolType(Word) /\ PoolGood(q)
       /\ r.op # "dump" => ((ntohl[r.nsp_nsi] \in Keys(q)) <=> r.op = "add")
  BY <1>7, <1>9, ApplyLemma
<1>11. /\ a \in Seq(Message)
       /\ Len(a) = 0 \/ Len(a) = 1
       /\ \A i \in 1 .. Len(a) : IsReply(a[i]) => a[i].of = n /\ r.op # "dump"
  BY <1>6, <1>7, <1>9, AnswerLemma
<1> HIDE DEF a, q
<1>12. /\ replies' \in Seq(Message) /\ Len(replies') = Len(replies) + Len(a)
       /\ \A i \in 1 .. Len(replies) : replies'[i] = replies[i]
       /\ \A i \in 1 .. Len(replies') : i > Len(replies) =>
            replies'[i] = a[i - Len(replies)] /\ i - Len(replies) \in 1 .. Len(a)
  BY <1>0, <1>3, <1>11, AppendToQueue
<1>13. \A i \in 1 .. Len(replies') :
         \/ i \in 1 .. Len(replies) /\ replies'[i] = replies[i]
         \/ /\ i = Len(replies) + 1
            /\ IsReply(replies'[i]) => replies'[i].of = n /\ r.op # "dump"
  <2> SUFFICES ASSUME NEW i \in 1 .. Len(replies')
               PROVE  \/ i \in 1 .. Len(replies) /\ replies'[i] = replies[i]
                      \/ /\ i = Len(replies) + 1
                         /\ IsReply(replies'[i]) => replies'[i].of = n /\ r.op # "dump"
    OBVIOUS
  <2>1. i \in Nat /\ Len(replies') \in Nat /\ i <= Len(replies) + 1 /\ i >= 1
    BY <1>2, <1>11, <1>12
  <2>2. CASE i \in 1 .. Len(replies)
    BY <1>12, <2>2
  <2>3. CASE i = Len(replies) + 1
    <3>1. i > Len(replies)
      BY <1>2, <2>3
    <3>2. replies'[i] = a[i - Len(replies)] /\ i - Len(replies) \in 1 .. Len(a)
      BY <1>12, <3>1
    <3> QED
      BY <1>11, <2>3, <3>2
  <2> QED
    BY <1>2, <2>1, <2>2, <2>3
<1>14. VatType'
  <2>1. tables' \in [Table -> PoolType(Word)]
    BY <1>0, <1>3, <1>10
  <2> QED
    BY <1>0, <1>1, <1>4, <1>12, <2>1 DEF VatType
<1>15. QueueInOrder'
  <2>1. Len(requests') <= Len(sent')
    BY <1>0, <1>2, <1>4, <1>5
  <2>2. ASSUME NEW i \in 1 .. Len(requests')
        PROVE  requests'[i] = Handled' + i
    <3>1. i + 1 \in 1 .. Len(requests)
      BY <1>4
    <3>2. requests'[i] = Handled + (i + 1)
      BY <1>4, <1>5, <3>1
    <3> QED
      BY <1>2, <1>6, <1>8, <3>2
  <2> QED
    BY <2>1, <2>2 DEF QueueInOrder
<1>16. RepliesInOrder'
  <2>0. retval' = retval
    BY <1>0
  <2>1. /\ retval.of <= Handled
        /\ \A i \in 1 .. Len(replies) :
             IsReply(replies[i]) => retval.of < replies[i].of /\ replies[i].of <= Handled
        /\ \A i, j \in 1 .. Len(replies) :
             i < j /\ IsReply(replies[i]) /\ IsReply(replies[j]) => replies[i].of < replies[j].of
    BY <1>1 DEF RepliesInOrder
  <2>2. \A i \in 1 .. Len(replies) : IsReply(replies[i]) => replies[i].of \in Nat
    <3> SUFFICES ASSUME NEW i \in 1 .. Len(replies), IsReply(replies[i])
                 PROVE  replies[i].of \in Nat
      OBVIOUS
    <3>1. replies[i] \in Message
      BY <1>3
    <3> QED
      BY <3>1 DEF Message, ReplyType, IsReply
  <2>3. retval.of <= Handled'
    BY <1>2, <1>6, <1>8, <2>1
  <2>4. ASSUME NEW i \in 1 .. Len(replies'), IsReply(replies'[i])
        PROVE  retval.of < replies'[i].of /\ replies'[i].of <= Handled'
    <3>1. CASE i \in 1 .. Len(replies) /\ replies'[i] = replies[i]
      BY <1>2, <1>6, <1>8, <2>1, <2>2, <2>4, <3>1
    <3>2. CASE i = Len(replies) + 1 /\ replies'[i].of = n
      BY <1>2, <1>6, <1>8, <2>1, <3>2
    <3> QED
      BY <1>13, <2>4, <3>1, <3>2
  <2>5. ASSUME NEW i \in 1 .. Len(replies'), NEW j \in 1 .. Len(replies'),
               i < j, IsReply(replies'[i]), IsReply(replies'[j])
        PROVE  replies'[i].of < replies'[j].of
    <3>1. i \in 1 .. Len(replies) /\ replies'[i] = replies[i]
      BY <1>2, <1>13, <2>5
    <3>2. CASE j \in 1 .. Len(replies) /\ replies'[j] = replies[j]
      BY <2>1, <2>5, <3>1, <3>2
    <3>3. CASE replies'[j].of = n
      BY <1>2, <1>6, <2>1, <2>2, <2>5, <3>1, <3>3
    <3> QED
      BY <1>13, <2>5, <3>2, <3>3
  <2> QED
    BY <2>0, <2>3, <2>4, <2>5 DEF RepliesInOrder
<1>17. AnswersHeard'
  BY <1>0, <1>1 DEF AnswersHeard
<1>18. TablesGood'
  <2>1. \A t \in Table : tables'[t] = IF t = r.table THEN q ELSE tables[t]
    BY <1>0, <1>3
  <2>2. \A t \in Table : PoolGood(tables'[t])
    BY <1>1, <1>10, <2>1 DEF TablesGood
  <2> QED
    BY <2>2 DEF TablesGood
<1>19. FreshCommand'
  <2> SUFFICES ASSUME returned'.fresh
               PROVE  /\ sent' # << >>
                      /\ requests' = << >> /\ Shown(sent[Len(sent)])' /\ OnlyOfLast(sent[Len(sent)])'
    BY DEF FreshCommand
  <2>1. sent # << >> /\ requests = << Len(sent) >> /\ NothingHeard
    BY <1>0, <1>1 DEF FreshCommand
  <2>2. n = Len(sent) /\ r = sent[Len(sent)] /\ requests' = << >> /\ Len(replies) = 0
    <3>1. n = Len(sent)
      BY <2>1 DEF n
    <3>2. requests' = << >>
      BY <1>0, <2>1
    <3>3. Len(replies) = 0
      BY <2>1 DEF NothingHeard
    <3> QED
      BY <3>1, <3>2, <3>3 DEF r
  <2>3. Shown(sent[Len(sent)])'
    <3>1. tables'[r.table] = q
      BY <1>0, <1>3, <1>7
    <3>2. sent'[Len(sent')] = r
      BY <1>0, <2>2
    <3> QED
      BY <1>10, <3>1, <3>2 DEF Shown
  <2>4. OnlyOfLast(sent[Len(sent)])'
    <3>1. sent'[Len(sent')] = r /\ Len(sent') = n /\ result_ready' = 0 /\ returned'.of = 0
      BY <1>0, <2>1, <2>2 DEF NothingHeard
    <3>2. \A i \in 1 .. Len(replies') :
            IsReply(replies'[i]) => replies'[i].of = n /\ r.op # "dump"
      <4>1. \A i : i \notin 1 .. Len(replies)
        BY <2>2
      <4> QED
        BY <1>13, <4>1
    <3> QED
      BY <3>1, <3>2 DEF OnlyOfLast, OfLast
  <2> QED
    BY <1>0, <2>1, <2>2, <2>3, <2>4
<1> QED
  BY <1>14, <1>15, <1>16, <1>17, <1>18, <1>19 DEF VatInv

LEMMA StepHandleReply ==
  ASSUME VatInv, HandleReply
  PROVE  VatInv'
<1> DEFINE m == replies[1]
<1>0. /\ replies # << >> /\ replies' = Tail(replies)
      /\ IF "details" \in DOMAIN m THEN UNCHANGED vam ELSE Reply(m)
      /\ UNCHANGED << waiting, returned, sent, requests, tables >>
  BY DEF HandleReply
<1>1. /\ VatType /\ QueueInOrder /\ RepliesInOrder /\ AnswersHeard /\ TablesGood
      /\ FreshCommand
  BY DEF VatInv
<1>2. /\ Len(replies) \in Nat /\ Handled \in Int /\ retval.of \in Nat
      /\ returned.of \in Nat /\ returned.before \in Nat
  BY <1>1, Lengths
<1>3. replies \in Seq(Message)
  BY <1>1 DEF VatType
<1>4. /\ m \in Message /\ replies' \in Seq(Message)
      /\ Len(replies) \in Nat \ {0} /\ Len(replies') = Len(replies) - 1
      /\ \A i \in 1 .. Len(replies') : replies'[i] = replies[i + 1]
  BY <1>0, <1>3, TailOfQueue
<1>5. IsReply(m) => m.retval \in {0, -1, -2} /\ m.of \in Nat
  BY <1>4 DEF Message, ReplyType, IsReply
<1>6. /\ retval.of <= Handled
      /\ \A i \in 1 .. Len(replies) :
           IsReply(replies[i]) => retval.of < replies[i].of /\ replies[i].of <= Handled
      /\ \A i, j \in 1 .. Len(replies) :
           i < j /\ IsReply(replies[i]) /\ IsReply(replies[j]) => replies[i].of < replies[j].of
  BY <1>1 DEF RepliesInOrder
<1>7. 1 \in 1 .. Len(replies) /\ \A i \in 1 .. Len(replies') : i + 1 \in 1 .. Len(replies) /\ 1 < i + 1
  BY <1>4
<1>8. IsReply(m) => retval.of < m.of /\ m.of <= Handled
  BY <1>6, <1>7
<1>9. \A i \in 1 .. Len(replies') :
        IsReply(replies'[i]) => /\ retval.of < replies'[i].of /\ replies'[i].of <= Handled
                                /\ IsReply(m) => m.of < replies'[i].of
  BY <1>4, <1>6, <1>7
<1>10. \A i, j \in 1 .. Len(replies') :
         i < j /\ IsReply(replies'[i]) /\ IsReply(replies'[j]) => replies'[i].of < replies'[j].of
  <2> SUFFICES ASSUME NEW i \in 1 .. Len(replies'), NEW j \in 1 .. Len(replies'),
                      i < j, IsReply(replies'[i]), IsReply(replies'[j])
               PROVE  replies'[i].of < replies'[j].of
    OBVIOUS
  <2>1. i + 1 < j + 1
    OBVIOUS
  <2> QED
    BY <1>4, <1>6, <1>7, <2>1
<1>11. /\ async_mode' = async_mode
       /\ \/ UNCHANGED << async_errors, result_ready, retval >>
          \/ /\ IsReply(m) /\ async_errors' = async_errors + (IF m.retval < 0 THEN 1 ELSE 0)
             /\ UNCHANGED << result_ready, retval >>
          \/ /\ IsReply(m) /\ retval' = [value |-> m.retval, of |-> m.of] /\ result_ready' = 1
             /\ UNCHANGED async_errors
  BY <1>0 DEF Reply, IsReply, vam
<1> HIDE DEF m
<1>12. \/ retval'.of = retval.of /\ result_ready' = result_ready
       \/ IsReply(m) /\ retval'.of = m.of /\ result_ready' = 1
  BY <1>11
<1>13. VatType'
  <2>1. /\ async_errors' \in Nat /\ result_ready' \in {0, 1}
        /\ retval' \in [value : {0, -1, -2}, of : Nat]
    <3>1. /\ async_errors \in Nat /\ result_ready \in {0, 1}
          /\ retval \in [value : {0, -1, -2}, of : Nat]
      BY <1>1 DEF VatType
    <3>2. (IF m.retval < 0 THEN 1 ELSE 0) \in Nat
      OBVIOUS
    <3> QED
      BY <1>5, <1>11, <3>1, <3>2
  <2> QED
    BY <1>0, <1>1, <1>4, <1>11, <2>1 DEF VatType
<1>14. QueueInOrder' /\ TablesGood' /\ Handled' = Handled
  BY <1>0, <1>1 DEF QueueInOrder, TablesGood, Handled
<1>15. RepliesInOrder'
  <2>1. retval'.of <= Handled
    BY <1>6, <1>8, <1>12
  <2>2. \A i \in 1 .. Len(replies') :
          IsReply(replies'[i]) => retval'.of < replies'[i].of /\ replies'[i].of <= Handled
    BY <1>9, <1>12
  <2> QED
    BY <1>10, <1>14, <2>1, <2>2 DEF RepliesInOrder
<1>16. AnswersHeard'
  <2>1. retval'.of \in Nat /\ retval.of <= retval'.of
    BY <1>2, <1>5, <1>8, <1>12
  <2>2. /\ returned.of <= retval.of /\ returned.before <= retval.of
        /\ returned.of # 0 => returned.before < returned.of
        /\ waiting => returned.of = 0
        /\ waiting /\ result_ready = 1 => returned.before < retval.of
    BY <1>1 DEF AnswersHeard
  <2>3. returned.of <= retval'.of /\ returned.before <= retval'.of
    BY <1>2, <2>1, <2>2
  <2>4. waiting /\ result_ready' = 1 => returned.before < retval'.of
    BY <1>2, <1>5, <1>8, <1>12, <2>2
  <2> QED
    BY <1>0, <2>2, <2>3, <2>4 DEF AnswersHeard
<1>17. FreshCommand'
  <2> SUFFICES ASSUME returned'.fresh
               PROVE  /\ sent' # << >>
                      /\ requests' = << >> /\ Shown(sent[Len(sent)])' /\ OnlyOfLast(sent[Len(sent)])'
    BY DEF FreshCommand
  <2> DEFINE r == sent[Len(sent)]
  <2>1. sent # << >> /\ requests = << >> /\ Shown(r) /\ OnlyOfLast(r)
    BY <1>0, <1>1 DEF FreshCommand, NothingHeard
  <2>2. Shown(sent[Len(sent)])'
    BY <1>0, <2>1 DEF Shown
  <2>3. /\ \A i \in 1 .. Len(replies) : IsReply(replies[i]) => OfLast(replies[i].of, r)
        /\ result_ready = 1 => OfLast(retval.of, r)
        /\ returned.of # 0 => OfLast(returned.of, r)
    BY <2>1 DEF OnlyOfLast
  <2>4. IsReply(m) => OfLast(m.of, r)
    BY <1>7, <2>3 DEF m
  <2>5. \A i \in 1 .. Len(replies') : IsReply(replies'[i]) => OfLast(replies'[i].of, r)
    BY <1>4, <1>7, <2>3
  <2>6. result_ready' = 1 => OfLast(retval'.of, r)
    BY <1>12, <2>3, <2>4
  <2>7. OnlyOfLast(sent[Len(sent)])'
    BY <1>0, <2>3, <2>5, <2>6 DEF OnlyOfLast, OfLast
  <2> QED
    BY <1>0, <2>1, <2>2, <2>7
<1> QED
  BY <1>13, <1>14, <1>15, <1>16, <1>17 DEF VatInv

LEMMA NextInv == VatInv /\ [Next]_vars => VatInv'
<1> SUFFICES ASSUME VatInv, [Next]_vars
             PROVE  VatInv'
  OBVIOUS
<1>1. ASSUME NEW r \in Request, Command(r)
      PROVE  VatInv'
  BY <1>1, StepCommand
<1>2. CASE UNCHANGED vars
  <2>1. /\ VatType /\ QueueInOrder /\ RepliesInOrder /\ AnswersHeard /\ TablesGood
        /\ FreshCommand
    BY DEF VatInv
  <2>2. VatType'
    BY <1>2, <2>1 DEF VatType, vars, vam
  <2>3. QueueInOrder' /\ RepliesInOrder' /\ TablesGood'
    BY <1>2, <2>1 DEF QueueInOrder, RepliesInOrder, TablesGood, Handled, vars, vam
  <2>4. AnswersHeard'
    BY <1>2, <2>1 DEF AnswersHeard, vars, vam
  <2>5. FreshCommand'
    BY <1>2, <2>1 DEF FreshCommand, NothingHeard, Shown, OnlyOfLast, OfLast, vars, vam
  <2> QED
    BY <2>2, <2>3, <2>4, <2>5 DEF VatInv
<1> QED
  BY <1>1, <1>2, StepRefusedCommand, StepResult, StepTimeout, StepHandleRequest,
     StepHandleReply DEF Next

LEMMA VatInvHolds == Spec => []VatInv
  BY InitInv, NextInv, PTL DEF Spec

-----------------------------------------------------------------------------
\* What follows.

\* Every variable keeps its type, the pools are well formed, and no reply or
\* request is to one that was not sent.
THEOREM VatTypeCorrect == Spec => []TypeOK
<1>1. VatInv => TypeOK
  <2> SUFFICES ASSUME VatInv
               PROVE  TypeOK
    OBVIOUS
  <2>1. VatType /\ QueueInOrder /\ RepliesInOrder /\ AnswersHeard /\ TablesGood
    BY DEF VatInv
  <2>2. /\ Len(sent) \in Nat /\ Len(requests) \in Nat
        /\ Handled \in Int /\ retval.of \in Nat /\ returned.of \in Nat /\ returned.before \in Nat
    BY <2>1, Lengths
  <2>3. Handled <= Len(sent)
    BY <2>2 DEF Handled
  <2>4. retval.of \in 0 .. Len(sent)
    BY <2>1, <2>2, <2>3 DEF RepliesInOrder
  <2>5. returned.of \in 0 .. Len(sent) /\ returned.before \in 0 .. Len(sent)
    BY <2>1, <2>2, <2>4 DEF AnswersHeard
  <2>6. retval \in [value : {0, -1, -2}, of : 0 .. Len(sent)]
    BY <2>1, <2>4 DEF VatType
  <2>7. returned \in [value : {0, -1, -2, -3, -99}, of : 0 .. Len(sent),
                      before : 0 .. Len(sent), fresh : BOOLEAN]
    BY <2>1, <2>5 DEF VatType
  <2>8. requests \in Seq(1 .. Len(sent))
    <3>1. \A i \in 1 .. Len(requests) : requests[i] \in 1 .. Len(sent)
      BY <2>1, <2>2 DEF QueueInOrder, Handled
    <3>2. requests \in Seq(Nat)
      BY <2>1 DEF VatType
    <3> QED
      BY <3>1, <3>2
  <2>9. \A t \in Table : tables[t] \in PoolType(Word) /\ PoolOK(tables[t])
    BY <2>1 DEF VatType, TablesGood, PoolGood
  <2> QED
    BY <2>1, <2>6, <2>7, <2>8, <2>9 DEF TypeOK, VatType, Message
<1> QED
  BY <1>1, VatInvHolds, PTL

\* No reply is returned twice, or to a command given before it was asked for,
\* however late it comes.
THEOREM AnswersOnceCorrect == Spec => []AnswersOnce
<1>1. VatInv => AnswersOnce
  <2> SUFFICES ASSUME VatInv, returned.of # 0
               PROVE  returned.before < returned.of /\ returned.of <= Len(sent)
    BY DEF AnswersOnce
  <2>1. VatType /\ RepliesInOrder /\ AnswersHeard
    BY DEF VatInv
  <2>2. /\ Len(sent) \in Nat /\ Len(requests) \in Nat
        /\ Handled \in Int /\ retval.of \in Nat /\ returned.of \in Nat
    BY <2>1, Lengths
  <2>3. returned.of <= retval.of /\ retval.of <= Handled /\ returned.before < returned.of
    BY <2>1 DEF RepliesInOrder, AnswersHeard
  <2> QED
    BY <2>2, <2>3 DEF Handled
<1> QED
  BY <1>1, VatInvHolds, PTL

\* The result of a command sent when all was quiet tells the table: an added key
\* is there and a deleted one is not, done or found done.
THEOREM ResultCorrect == Spec => []ResultTellsTable
<1>1. VatInv => ResultTellsTable
  BY DEF VatInv, FreshCommand, NothingHeard, Shown, OnlyOfLast, OfLast, ResultTellsTable
<1> QED
  BY <1>1, VatInvHolds, PTL

-----------------------------------------------------------------------------
(***************************************************************************)
(* Scripts.  The tables are at every moment what the requests done so far  *)
(* come to, and an asynchronous client has counted the failures that are   *)
(* not on their way to it any more.                                        *)
(***************************************************************************)

\* The replies on their way that tell of a failure.
Failures == {i \in 1 .. Len(replies) : IsReply(replies[i]) /\ replies[i].retval < 0}

ScriptInv ==
  /\ \A t \in Table : Keys(tables[t]) = Replay(sent)[Handled].keys[t]
  /\ async_mode =>
       async_errors + Cardinality(Failures) = Replay(sent)[Handled].errors

ReplayType == [keys : [Table -> SUBSET Word], errors : Nat]

\* One request more.
LEMMA DoneEffect ==
  ASSUME NEW acc \in ReplayType, NEW r \in Request
  PROVE  LET k   == ntohl[r.nsp_nsi]
             old == acc.keys[r.table]
         IN  /\ Done(acc, r).keys = [acc.keys EXCEPT ![r.table] =
                  IF r.op = "add" THEN old \cup {k}
                  ELSE IF r.op = "del" THEN old \ {k} ELSE old]
             /\ Done(acc, r).errors = acc.errors +
                  IF r.op # "dump" /\ (r.op = "add" <=> k \in old) THEN 1 ELSE 0
<1> DEFINE k == ntohl[r.nsp_nsi]
           old == acc.keys[r.table]
           new == IF r.op = "add" THEN old \cup {k} ELSE IF r.op = "del" THEN old \ {k} ELSE old
<1>1. r.op \in {"add", "del", "dump"} /\ r.table \in Table /\ acc.keys \in [Table -> SUBSET Word]
  BY DEF Request, ReplayType
<1>2. new = CASE r.op = "add"  -> old \cup {k}
              [] r.op = "del"  -> old \ {k}
              [] r.op = "dump" -> old
  BY <1>1
<1>3. [acc.keys EXCEPT ![r.table] =
         CASE r.op = "add"  -> @ \cup {k}
           [] r.op = "del"  -> @ \ {k}
           [] r.op = "dump" -> @] = [acc.keys EXCEPT ![r.table] = new]
  BY <1>1, <1>2
<1> QED
  BY <1>3 DEF Done

LEMMA DoneType ==
  ASSUME NEW acc \in ReplayType, NEW r \in Request
  PROVE  Done(acc, r) \in ReplayType
<1> DEFINE k == ntohl[r.nsp_nsi]
           old == acc.keys[r.table]
           new == IF r.op = "add" THEN old \cup {k} ELSE IF r.op = "del" THEN old \ {k} ELSE old
           failed == IF r.op # "dump" /\ (r.op = "add" <=> k \in old) THEN 1 ELSE 0
<1>1. /\ k \in Word /\ r.table \in Table /\ old \in SUBSET Word
      /\ acc.keys \in [Table -> SUBSET Word] /\ acc.errors \in Nat
  BY WordAssumption DEF Request, ReplayType
<1>2. new \in SUBSET Word /\ failed \in Nat
  BY <1>1
<1>3. Done(acc, r).keys = [acc.keys EXCEPT ![r.table] = new] /\ Done(acc, r).errors = acc.errors + failed
  BY DoneEffect
<1>4. \E keys, errors : Done(acc, r) = [keys |-> keys, errors |-> errors]
  BY Zenon DEF Done
<1> HIDE DEF new, failed
<1>5. Done(acc, r).keys \in [Table -> SUBSET Word] /\ Done(acc, r).errors \in Nat
  BY <1>1, <1>2, <1>3
<1> QED
  BY <1>4, <1>5 DEF ReplayType

\* What Replay computes.
LEMMA ReplaySteps ==
  ASSUME NEW s \in Seq(Request)
  PROVE  /\ Replay(s)[0] = NothingDone
         /\ \A i \in 1 .. Len(s) : Replay(s)[i] = Done(Replay(s)[i - 1], s[i])
         /\ \A i \in 0 .. Len(s) : Replay(s)[i] \in ReplayType
<1> DEFINE n == Len(s)
           Is(f) == f = [i \in 0 .. n |-> IF i = 0 THEN NothingDone ELSE Done(f[i - 1], s[i])]
           step == [i \in 1 .. n |-> [v \in ReplayType |-> Done(v, s[i])]]
<1>1. n \in Nat /\ \A i \in 1 .. n : s[i] \in Request
  OBVIOUS
<1>2. NothingDone \in ReplayType
  BY DEF NothingDone, ReplayType
<1>3. step \in [1 .. n -> [ReplayType -> ReplayType]]
  BY <1>1, DoneType
<1>4. PICK f \in [0 .. n -> ReplayType] :
        \A i \in 0 .. n : f[i] = IF i = 0 THEN NothingDone ELSE step[i][f[i - 1]]
  <2>1. n \in Nat
    BY <1>1
  <2> HIDE DEF step, n
  <2>2. \E f \in [0 .. n -> ReplayType] : BySteps(f, n, NothingDone, step)
    BY <1>2, <1>3, <2>1, StepsExist
  <2> QED
    BY <2>2 DEF BySteps
<1>5. Is(f)
  <2>1. ASSUME NEW i \in 0 .. n
        PROVE  f[i] = IF i = 0 THEN NothingDone ELSE Done(f[i - 1], s[i])
    <3>1. CASE i = 0
      BY <1>4, <3>1
    <3>2. CASE i # 0
      <4>1. i \in 1 .. n /\ i - 1 \in 0 .. n
        BY <3>2, <1>1
      <4>2. f[i - 1] \in ReplayType
        BY <4>1
      <4> QED
        BY <1>4, <3>2, <4>1, <4>2
    <3> QED
      BY <3>1, <3>2
  <2> QED
    BY <2>1
<1>6. Replay(s) = CHOOSE g : Is(g)
  BY DEF Replay
<1>7. Is(Replay(s))
  BY <1>5, <1>6
<1> DEFINE G == {i \in 0 .. n : Replay(s)[i] \in ReplayType}
<1>8. Replay(s)[0] = NothingDone /\ \A i \in 1 .. n : Replay(s)[i] = Done(Replay(s)[i - 1], s[i])
  BY <1>1, <1>7
<1> HIDE DEF Is, step
<1>9. 0 \in G
  BY <1>1, <1>2, <1>8
<1>10. \A i \in 1 .. n : i - 1 \in G => i \in G
  <2> TAKE i \in 1 .. n
  <2> HAVE i - 1 \in G
  <2>1. Replay(s)[i - 1] \in ReplayType /\ s[i] \in Request /\ i \in 0 .. n
    BY <1>1
  <2>2. Done(Replay(s)[i - 1], s[i]) \in ReplayType
    BY <2>1, DoneType
  <2> QED
    BY <1>8, <2>1, <2>2
<1> HIDE DEF G
<1>11. \A i \in 0 .. n : i \in G
  BY <1>1, <1>9, <1>10, UpTo, Zenon
<1> QED
  BY <1>8, <1>11 DEF G

\* What the first requests come to does not change when another is given.
LEMMA ReplayKept ==
  ASSUME NEW s \in Seq(Request), NEW r \in Request, NEW s2, s2 = Append(s, r)
  PROVE  \A i \in 0 .. Len(s) : Replay(s2)[i] = Replay(s)[i]
<1> DEFINE n == Len(s)
           G == {i \in 0 .. n : Replay(s2)[i] = Replay(s)[i]}
<1>1. /\ n \in Nat /\ s2 \in Seq(Request) /\ Len(s2) = n + 1
      /\ \A i \in 1 .. n : s2[i] = s[i] /\ i \in 1 .. Len(s2)
  OBVIOUS
<1>2. 0 \in G
  <2>1. Replay(s)[0] = NothingDone /\ Replay(s2)[0] = NothingDone
    BY <1>1, ReplaySteps
  <2> QED
    BY <1>1, <2>1
<1>3. \A i \in 1 .. n : i - 1 \in G => i \in G
  <2> TAKE i \in 1 .. n
  <2> HAVE i - 1 \in G
  <2>1. Replay(s2)[i - 1] = Replay(s)[i - 1] /\ s2[i] = s[i]
    BY <1>1
  <2>2. Replay(s2)[i] = Done(Replay(s2)[i - 1], s2[i])
    BY <1>1, ReplaySteps
  <2>3. Replay(s)[i] = Done(Replay(s)[i - 1], s[i])
    BY ReplaySteps
  <2> QED
    BY <1>1, <2>1, <2>2, <2>3
<1> HIDE DEF G
<1>4. \A i \in 0 .. n : i \in G
  BY <1>1, <1>2, <1>3, UpTo, Zenon
<1> QED
  BY <1>4 DEF G

\* The plug-in does to a table what the script says, and refuses what it says.
LEMMA RequestDone ==
  ASSUME NEW acc \in ReplayType, NEW r \in Request,
         NEW p \in PoolType(Word), PoolGood(p), acc.keys[r.table] = Keys(p)
  PROVE  /\ Keys(Apply(r, p)) = Done(acc, r).keys[r.table]
         /\ \A t \in Table \ {r.table} : Done(acc, r).keys[t] = acc.keys[t]
         /\ Done(acc, r).errors = acc.errors +
              IF r.op # "dump" /\ Rv(r, p) < 0 THEN 1 ELSE 0
<1> DEFINE k == ntohl[r.nsp_nsi]
           new == IF r.op = "add" THEN Keys(p) \cup {k}
                  ELSE IF r.op = "del" THEN Keys(p) \ {k} ELSE Keys(p)
<1>1. /\ r.op \in {"add", "del", "dump"} /\ r.table \in Table /\ k \in Word
      /\ acc.keys \in [Table -> SUBSET Word] /\ acc.errors \in Nat
  BY WordAssumption DEF Request, ReplayType
<1>2. /\ Done(acc, r).keys = [acc.keys EXCEPT ![r.table] = new]
      /\ Done(acc, r).errors = acc.errors +
           IF r.op # "dump" /\ (r.op = "add" <=> k \in Keys(p)) THEN 1 ELSE 0
  <2> DEFINE old == acc.keys[r.table]
  <2>1. /\ Done(acc, r).keys = [acc.keys EXCEPT ![r.table] =
             IF r.op = "add" THEN old \cup {k} ELSE IF r.op = "del" THEN old \ {k} ELSE old]
        /\ Done(acc, r).errors = acc.errors +
             IF r.op # "dump" /\ (r.op = "add" <=> k \in old) THEN 1 ELSE 0
    BY DoneEffect
  <2>2. old = Keys(p)
    OBVIOUS
  <2> HIDE DEF old, k
  <2> QED
    BY <2>1, <2>2
<1>3. /\ Done(acc, r).keys[r.table] = new
      /\ \A t \in Table \ {r.table} : Done(acc, r).keys[t] = acc.keys[t]
  BY <1>1, <1>2
<1> HIDE DEF k
<1>4. CASE r.op = "dump"
  <2>1. Apply(r, p) = p
    BY <1>4 DEF Apply
  <2> QED
    BY <1>2, <1>3, <1>4, <2>1
<1>5. CASE r.op = "add" /\ k \in Keys(p)
  <2>1. Rv(r, p) = -1
    BY <1>5 DEF Rv, k
  <2>2. Apply(r, p) = p /\ Keys(p) = new
    BY <1>5, <2>1 DEF Apply
  <2> QED
    BY <1>2, <1>3, <1>5, <2>1, <2>2
<1>6. CASE r.op = "add" /\ k \notin Keys(p)
  <2>1. Rv(r, p) = 0
    BY <1>6 DEF Rv, k
  <2>2. Apply(r, p) = PoolGet(p, k)
    BY <1>6, <2>1 DEF Apply, k
  <2>3. Keys(Apply(r, p)) = Keys(p) \cup {k}
    BY <1>1, <1>6, <2>2, KeyEntered
  <2> QED
    BY <1>2, <1>3, <1>6, <2>1, <2>3
<1>7. CASE r.op = "del" /\ k \notin Keys(p)
  <2>1. Rv(r, p) = -2
    BY <1>7 DEF Rv, k
  <2>2. Apply(r, p) = p /\ Keys(p) = new
    BY <1>7, <2>1 DEF Apply
  <2> QED
    BY <1>2, <1>3, <1>7, <2>1, <2>2
<1>8. CASE r.op = "del" /\ k \in Keys(p)
  <2>1. Rv(r, p) = 0
    BY <1>8 DEF Rv, k
  <2>2. Apply(r, p) = PoolPut(p, IndexOf(p, k))
    BY <1>8, <2>1 DEF Apply, k
  <2>3. Keys(Apply(r, p)) = Keys(p) \ {k}
    BY <1>8, <2>2, KeyRemoved
  <2> QED
    BY <1>2, <1>3, <1>8, <2>1, <2>3
<1> QED
  BY <1>1, <1>4, <1>5, <1>6, <1>7, <1>8

\* Which places of a queue count, when one is added behind.
LEMMA FailuresBehind ==
  ASSUME NEW n \in Nat, NEW E \in SUBSET (1 .. n), NEW F \in SUBSET (1 .. n + 1),
         \A i \in 1 .. n : i \in F <=> i \in E
  PROVE  /\ Cardinality(E) \in Nat
         /\ Cardinality(F) = Cardinality(E) + IF n + 1 \in F THEN 1 ELSE 0
<1>1. IsFiniteSet(E) /\ Cardinality(E) \in Nat
  <2>1. IsFiniteSet(1 .. n)
    BY FS_Interval
  <2> QED
    BY <2>1, FS_Subset, FS_CardinalityType
<1>2. /\ n + 1 \in F => F = E \cup {n + 1}
      /\ n + 1 \notin F => F = E
  <2>1. \A x : x \in 1 .. n + 1 <=> x \in 1 .. n \/ x = n + 1
    OBVIOUS
  <2> QED
    BY <2>1, Zenon
<1>3. n + 1 \notin E
  OBVIOUS
<1>4. Cardinality(E \cup {n + 1}) = Cardinality(E) + 1
  BY <1>1, <1>3, FS_AddElement
<1>5. CASE n + 1 \in F
  BY <1>1, <1>2, <1>4, <1>5
<1>6. CASE n + 1 \notin F
  BY <1>1, <1>2, <1>6
<1> QED
  BY <1>5, <1>6

\* And when the first is taken, so that the others move up.
LEMMA FailuresMove ==
  ASSUME NEW n \in Nat, NEW E \in SUBSET (1 .. n + 1), NEW F \in SUBSET (1 .. n),
         \A i \in 1 .. n : i \in F <=> i + 1 \in E
  PROVE  /\ Cardinality(F) \in Nat
         /\ 1 \in E => Cardinality(E) = Cardinality(F) + 1
         /\ 1 \notin E => Cardinality(E) = Cardinality(F)
<1> DEFINE G == E \ {1}
           up == [i \in F |-> i + 1]
<1>1. IsFiniteSet(E) /\ IsFiniteSet(F) /\ Cardinality(E) \in Nat /\ Cardinality(F) \in Nat
  <2>1. IsFiniteSet(1 .. n) /\ IsFiniteSet(1 .. n + 1)
    BY FS_Interval
  <2> QED
    BY <2>1, FS_Subset, FS_CardinalityType
<1>2. up \in Bijection(F, G)
  <2>1. up \in [F -> G] /\ \A i, j \in F : up[i] = up[j] => i = j
    OBVIOUS
  <2>2. \A j \in G : \E i \in F : up[i] = j
    <3> TAKE j \in G
    <3>1. j - 1 \in 1 .. n /\ (j - 1) + 1 = j
      OBVIOUS
    <3>2. j - 1 \in F
      BY <3>1
    <3> QED
      BY <3>1, <3>2
  <2> QED
    BY <2>1, <2>2 DEF Bijection, Injection, Surjection, IsInjective
<1>3. Cardinality(G) = Cardinality(F)
  BY <1>1, <1>2, FS_Bijection DEF ExistsBijection
<1>4. Cardinality(G) = IF 1 \in E THEN Cardinality(E) - 1 ELSE Cardinality(E)
  BY <1>1, FS_RemoveElement
<1> QED
  BY <1>1, <1>3, <1>4

LEMMA InitScript == Init => ScriptInv
<1> SUFFICES ASSUME Init
             PROVE  ScriptInv
  OBVIOUS
<1>1. Handled = 0 /\ sent \in Seq(Request) /\ replies = << >>
  BY EmptySeq DEF Init, Handled
<1>2. Replay(sent)[0] = NothingDone
  BY <1>1, ReplaySteps
<1>3. \A t \in Table : Keys(tables[t]) = {}
  <2>1. Live(EmptyPool) = {}
    BY DEF EmptyPool, Live, Freed, ToSet
  <2> QED
    BY <2>1 DEF Init, Keys
<1>4. Failures = {}
  BY <1>1 DEF Failures
<1>5. Cardinality(Failures) = 0 /\ async_errors = 0
  BY <1>4, FS_EmptySet DEF Init
<1>6. Replay(sent)[Handled] = [keys |-> [t \in Table |-> {}], errors |-> 0]
  BY <1>1, <1>2 DEF NothingDone
<1> QED
  BY <1>3, <1>5, <1>6 DEF ScriptInv

LEMMA ScriptCommand ==
  ASSUME VatInv, ScriptInv, NEW r \in Request, Command(r)
  PROVE  ScriptInv'
<1>1. VatType /\ QueueInOrder
  BY DEF VatInv
<1>2. /\ sent' = Append(sent, r) /\ requests' = Append(requests, Len(sent) + 1)
      /\ UNCHANGED << async_mode, async_errors, replies, tables >>
  BY DEF Command, M, S
<1>3. /\ sent \in Seq(Request) /\ requests \in Seq(Nat)
      /\ Len(sent) \in Nat /\ Len(requests) \in Nat
  BY <1>1 DEF VatType
<1>4. Handled' = Handled /\ Handled \in 0 .. Len(sent)
  <2>1. Len(sent') = Len(sent) + 1 /\ Len(requests') = Len(requests) + 1
    BY <1>2, <1>3
  <2> QED
    BY <1>1, <1>3, <2>1 DEF Handled, QueueInOrder
<1>5. Replay(sent')[Handled'] = Replay(sent)[Handled]
  BY <1>2, <1>3, <1>4, ReplayKept
<1>6. Failures' = Failures
  BY <1>2 DEF Failures
<1> QED
  BY <1>2, <1>5, <1>6 DEF ScriptInv

LEMMA ScriptHandleRequest ==
  ASSUME VatInv, ScriptInv, HandleRequest
  PROVE  ScriptInv'
<1> DEFINE n == requests[1]
           r == sent[n]
           p == tables[r.table]
           a == Answer(n, r, p)
           acc == Replay(sent)[Handled]
           failed == IF r.op # "dump" /\ Rv(r, p) < 0 THEN 1 ELSE 0
<1>0. /\ requests # << >>
      /\ requests' = Tail(requests)
      /\ replies' = replies \o a
      /\ tables' = [tables EXCEPT ![r.table] = Apply(r, p)]
      /\ UNCHANGED << async_mode, async_errors, sent >>
  BY DEF HandleRequest, vam
<1>1. VatType /\ QueueInOrder /\ TablesGood
  BY DEF VatInv
<1>2. /\ sent \in Seq(Request) /\ requests \in Seq(Nat) /\ replies \in Seq(Message)
      /\ tables \in [Table -> PoolType(Word)]
      /\ Len(sent) \in Nat /\ Len(replies) \in Nat /\ async_errors \in Nat
  BY <1>1, Lengths DEF VatType
<1>3. /\ Len(requests) \in Nat \ {0} /\ Len(requests') = Len(requests) - 1
  BY <1>0, <1>2, TailOfQueue
<1>4. n = Handled + 1 /\ n \in 1 .. Len(sent) /\ n \in Nat /\ Handled' = n /\ Handled = n - 1
  <2>1. Len(requests) <= Len(sent) /\ n = Handled + 1
    BY <1>1, <1>3 DEF QueueInOrder
  <2>2. Handled = Len(sent) - Len(requests) /\ Handled' = Len(sent) - Len(requests')
    BY <1>0 DEF Handled
  <2> HIDE DEF n
  <2> QED
    BY <1>2, <1>3, <2>1, <2>2
<1> HIDE DEF n
<1>5. r \in Request /\ r.table \in Table
  <2>1. r \in Request
    BY <1>2, <1>4
  <2> QED
    BY <2>1 DEF Request
<1> HIDE DEF r
<1>6. p \in PoolType(Word) /\ PoolGood(p)
  BY <1>1, <1>2, <1>5 DEF TablesGood
<1>7. acc \in ReplayType /\ acc.errors \in Nat /\ Replay(sent)[n] = Done(acc, r)
  <2>1. Handled \in 0 .. Len(sent)
    BY <1>2, <1>4
  <2>2. acc \in ReplayType
    BY <1>2, <2>1, ReplaySteps
  <2>3. Replay(sent)[n] = Done(Replay(sent)[n - 1], sent[n])
    BY <1>2, <1>4, ReplaySteps
  <2> QED
    BY <1>4, <2>2, <2>3 DEF ReplayType, r
<1>8. \A t \in Table : Keys(tables[t]) = acc.keys[t]
  BY DEF ScriptInv
<1>9. async_mode => async_errors + Cardinality(Failures) = acc.errors
  BY DEF ScriptInv
<1> HIDE DEF acc
<1>10. /\ Keys(Apply(r, p)) = Done(acc, r).keys[r.table]
       /\ \A t \in Table \ {r.table} : Done(acc, r).keys[t] = acc.keys[t]
       /\ Done(acc, r).errors = acc.errors + failed
  <2>1. acc.keys[r.table] = Keys(p)
    BY <1>5, <1>8
  <2> HIDE DEF p
  <2> QED
    BY <1>5, <1>6, <1>7, <2>1, RequestDone DEF p
<1>11. \A t \in Table : Keys(tables'[t]) = Done(acc, r).keys[t]
  <2>1. \A t \in Table : tables'[t] = IF t = r.table THEN Apply(r, p) ELSE tables[t]
    BY <1>0, <1>2
  <2> QED
    BY <1>8, <1>10, <2>1
<1> HIDE DEF p
<1>12. Cardinality(Failures') = Cardinality(Failures) + failed /\ Cardinality(Failures) \in Nat
  <2>1. /\ a \in Seq(Message)
        /\ Len(a) = 0 \/ Len(a) = 1
    BY <1>4, <1>5, <1>6, AnswerLemma
  <2>2. /\ Len(replies') = Len(replies) + Len(a)
        /\ \A i \in 1 .. Len(replies) : replies'[i] = replies[i]
        /\ Len(a) = 1 => replies'[Len(replies) + 1] = a[1]
    <3> HIDE DEF a
    <3> QED
      BY <1>0, <1>2, <2>1
  <2>3. /\ Len(a) = 1 => (IsReply(a[1]) /\ a[1].retval < 0 <=> failed = 1)
        /\ Len(a) = 0 => failed = 0
    <3>1. CASE r.op # "dump"
      <4>1. a = << [retval |-> Rv(r, p), of |-> n] >>
        BY <3>1 DEF Answer
      <4>2. Len(a) = 1 /\ a[1] = [retval |-> Rv(r, p), of |-> n]
        BY <4>1
      <4> HIDE DEF a
      <4> QED
        BY <3>1, <4>2 DEF IsReply
    <3>2. CASE r.op = "dump" /\ p.elts = << >>
      BY <3>2 DEF Answer
    <3>3. CASE r.op = "dump" /\ p.elts # << >>
      <4>1. a = << [details |-> p.elts[1]] >>
        BY <3>3 DEF Answer
      <4>2. a[1] = [details |-> p.elts[1]]
        BY <4>1
      <4> HIDE DEF a
      <4>3. ~IsReply(a[1])
        BY <4>2 DEF IsReply
      <4> QED
        BY <3>3, <4>3
    <3> QED
      BY <3>1, <3>2, <3>3
  <2>4. failed \in {0, 1}
    OBVIOUS
  <2> DEFINE m == Len(replies)
  <2> HIDE DEF a, failed
  <2>5. Failures \in SUBSET (1 .. m) /\ Failures' \in SUBSET (1 .. m + 1)
    <3>1. Len(replies') = m \/ Len(replies') = m + 1
      <4>1. Len(replies') = Len(replies) + Len(a)
        BY <2>2
      <4>2. CASE Len(a) = 0
        BY <1>2, <4>1, <4>2
      <4>3. CASE Len(a) = 1
        BY <1>2, <4>1, <4>3
      <4> QED
        BY <2>1, <4>2, <4>3
    <3>2. 1 .. Len(replies') \subseteq 1 .. m + 1
      BY <1>2, <3>1
    <3>3. Failures' \subseteq 1 .. Len(replies')
      BY DEF Failures
    <3> QED
      BY <3>2, <3>3 DEF Failures
  <2>6. \A i \in 1 .. m : i \in Failures' <=> i \in Failures
    BY <1>2, <2>1, <2>2 DEF Failures
  <2>7. m + 1 \in Failures' <=> failed = 1
    BY <1>2, <2>1, <2>2, <2>3, <2>4 DEF Failures
  <2> HIDE DEF m
  <2>8. m \in Nat
    BY <1>2 DEF m
  <2> QED
    BY <2>4, <2>5, <2>6, <2>7, <2>8, FailuresBehind
<1>13. failed \in Nat
  OBVIOUS
<1> HIDE DEF failed
<1>14. Replay(sent')[Handled'] = Done(acc, r)
  BY <1>0, <1>4, <1>7
<1>15. async_mode' => async_errors' + Cardinality(Failures') = Done(acc, r).errors
  BY <1>0, <1>2, <1>7, <1>9, <1>10, <1>12, <1>13
<1> QED
  BY <1>11, <1>14, <1>15 DEF ScriptInv

LEMMA ScriptHandleReply ==
  ASSUME VatInv, ScriptInv, HandleReply
  PROVE  ScriptInv'
<1> DEFINE m == replies[1]
           failed == IF IsReply(m) /\ m.retval < 0 THEN 1 ELSE 0
<1>0. /\ replies # << >> /\ replies' = Tail(replies)
      /\ IF "details" \in DOMAIN m THEN UNCHANGED vam ELSE Reply(m)
      /\ UNCHANGED << sent, requests, tables >>
  BY DEF HandleReply
<1>1. VatType
  BY DEF VatInv
<1>2. replies \in Seq(Message) /\ async_errors \in Nat
  BY <1>1 DEF VatType
<1>3. PICK n \in Nat :
         /\ Len(replies) = n + 1 /\ Len(replies') = n
         /\ \A i \in 1 .. n : replies'[i] = replies[i + 1]
  <2> DEFINE k == Len(replies')
  <2>1. /\ Len(replies) = k + 1 /\ k \in Nat
        /\ \A i \in 1 .. k : replies'[i] = replies[i + 1]
    BY <1>0, <1>2, TailOfQueue
  <2> HIDE DEF k
  <2>2. k = Len(replies')
    BY DEF k
  <2> QED
    BY <2>1, <2>2
<1>4. async_mode' = async_mode /\ (async_mode => async_errors' = async_errors + failed)
  BY <1>0, <1>2 DEF Reply, IsReply, vam
<1>5. Handled' = Handled
  BY <1>0 DEF Handled
<1>6. Cardinality(Failures) = Cardinality(Failures') + failed /\ Cardinality(Failures') \in Nat
  <2>1. Failures \in SUBSET (1 .. n + 1) /\ Failures' \in SUBSET (1 .. n)
    BY <1>3 DEF Failures
  <2>2. \A i \in 1 .. n : i \in Failures' <=> i + 1 \in Failures
    BY <1>3 DEF Failures
  <2>3. failed = IF 1 \in Failures THEN 1 ELSE 0
    BY <1>3 DEF Failures
  <2> HIDE DEF failed
  <2>4. /\ Cardinality(Failures') \in Nat
        /\ 1 \in Failures => Cardinality(Failures) = Cardinality(Failures') + 1
        /\ 1 \notin Failures => Cardinality(Failures) = Cardinality(Failures')
    BY <2>1, <2>2, FailuresMove
  <2> QED
    BY <2>3, <2>4
<1>7. failed \in Nat
  OBVIOUS
<1> HIDE DEF failed
<1> QED
  BY <1>0, <1>2, <1>4, <1>5, <1>6, <1>7 DEF ScriptInv

LEMMA NextScript == VatInv /\ ScriptInv /\ [Next]_vars => ScriptInv'
<1> SUFFICES ASSUME VatInv, ScriptInv, [Next]_vars
             PROVE  ScriptInv'
  OBVIOUS
<1>1. ASSUME NEW r \in Request, Command(r)
      PROVE  ScriptInv'
  BY <1>1, ScriptCommand
<1>2. CASE UNCHANGED << async_mode, async_errors, sent, requests, replies, tables >>
  BY <1>2 DEF ScriptInv, Failures, Handled
<1> QED
  BY <1>1, <1>2, ScriptHandleRequest, ScriptHandleReply
     DEF Next, RefusedCommand, Result, Timeout, vars, vam

\* A script of commands, however many of them were given up, comes out as if
\* they had been done one after the other: once all is quiet the tables are what
\* the script says, and an asynchronous client has counted each that failed.
THEOREM ScriptCorrect == Spec => []ScriptInOrder
<1>1. VatInv /\ ScriptInv => ScriptInOrder
  <2> SUFFICES ASSUME VatInv, ScriptInv, requests = << >>, replies = << >>
               PROVE  /\ \A t \in Table : Keys(tables[t]) = Replayed.keys[t]
                      /\ async_mode => async_errors = Replayed.errors
    BY DEF ScriptInOrder
  <2>1. Len(sent) \in Nat /\ async_errors \in Nat
    BY Lengths DEF VatInv, VatType
  <2>2. Handled = Len(sent)
    BY <2>1 DEF Handled
  <2>3. Cardinality(Failures) = 0
    <3>1. Failures = {}
      BY DEF Failures
    <3> QED
      BY <3>1, FS_EmptySet
  <2> QED
    BY <2>1, <2>2, <2>3 DEF ScriptInv, Replayed
<1> QED
  BY <1>1, VatInvHolds, InitScript, NextScript, PTL DEF Spec
=============================================================================
