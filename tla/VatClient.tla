------------------------------ MODULE VatClient ------------------------------
(***************************************************************************)
(* The test client of the binary API (nsh_test.c) and the plug-in's        *)
(* handlers it talks to (nsh.c).  A command fills in a message, sends it   *)
(* and waits one second for the result.  Nothing ties a reply to a         *)
(* request: the thread that receives sets one result for whoever waits.    *)
(*                                                                         *)
(* The shared-memory queues and the main loop of the client belong to vpp. *)
(* The queues lose nothing and keep the order; a handler may be slower     *)
(* than the second.  Of a request its key is kept: NshEntry and NshMap     *)
(* have the rest.  What the plug-in enters is the key in the other byte    *)
(* order, because the client does not convert it and the plug-in does.     *)
(***************************************************************************)
EXTENDS Integers, VppPool

CONSTANTS
  Table,          \* the tables of the plug-in, each with commands of its own
  Word,           \* nsp_nsi words
  ntohl,          \* a word in the other byte order
  AsyncModes,     \* may the client be in asynchronous mode, may it not
  MaxRequests     \* bound: requests sent

ASSUME WordAssumption ==
  /\ ntohl \in [Word -> Word]
  /\ \A w \in Word : ntohl[ntohl[w]] = w
ASSUME ModeAssumption == AsyncModes \subseteq BOOLEAN /\ MaxRequests \in Nat

VARIABLES
  async_mode, async_errors,
  result_ready,
  retval,     \* the value, and (history) the request it answers; 0 if none
  waiting,    \* does a command wait for its result
  returned,   \* what the last command returned; history: the request this
              \* answers, the one answered before, and whether all replies
              \* to earlier ones had come when the command was sent
  sent,       \* history: the requests; they are numbered in this order
  requests,   \* the plug-in's input queue
  replies,    \* the client's
  tables      \* the pools of the plug-in

vam == << async_mode, async_errors, result_ready, retval >>
vars == << vam, waiting, returned, sent, requests, replies, tables >>

Request == [op : {"add", "del", "dump"}, table : Table, nsp_nsi : Word]

Keys(pool) == {pool.elts[i] : i \in Live(pool)}
IndexOf(pool, k) == CHOOSE i \in Live(pool) : pool.elts[i] = k

-----------------------------------------------------------------------------
Init ==
  /\ async_mode \in AsyncModes
  /\ async_errors = 0
  /\ result_ready = 0
  /\ retval = [value |-> 0, of |-> 0]
  /\ waiting = FALSE
  /\ returned = [value |-> 0, of |-> 0, before |-> 0, fresh |-> FALSE]
  /\ sent = << >> /\ requests = << >> /\ replies = << >>
  /\ tables = [t \in Table |-> EmptyPool]

\* Faulty: a result that is there stays.
MKeepsResult == UNCHANGED vam

M == result_ready' = 0 /\ UNCHANGED << async_mode, async_errors, retval >>

S(r) == sent' = Append(sent, r) /\ requests' = Append(requests, Len(sent) + 1)

LastAnswered == IF returned.of # 0 THEN returned.of ELSE returned.before

\* One of api_nsh_add_del_entry, api_nsh_add_del_map and the two dumps.
Command(r) ==
  /\ ~waiting /\ Len(sent) < MaxRequests
  /\ M /\ S(r)
  /\ waiting' = TRUE
  /\ returned' = [value |-> 0, of |-> 0, before |-> LastAnswered,
                  fresh |-> requests = << >> /\ replies = << >>]
  /\ UNCHANGED << replies, tables >>

\* A command line that is not understood, or names no nsp and nsi, or no
\* mapped ones or no action for a map: no message is made.
RefusedCommand ==
  /\ ~waiting
  /\ \E rv \in {-99, -1, -2, -3} :
       returned' = [value |-> rv, of |-> 0, before |-> LastAnswered, fresh |-> FALSE]
  /\ UNCHANGED << vam, waiting, sent, requests, replies, tables >>

\* W, when a result is there.
Result ==
  /\ waiting /\ result_ready = 1
  /\ waiting' = FALSE
  /\ returned' = [returned EXCEPT !.value = retval.value, !.of = retval.of]
  /\ UNCHANGED << vam, sent, requests, replies, tables >>

\* Faulty: W has no end.
TimeoutNever == FALSE /\ UNCHANGED vars

\* W, when the second is over: the time is looked at first.
Timeout ==
  /\ waiting
  /\ waiting' = FALSE
  /\ returned' = [returned EXCEPT !.value = -99]
  /\ UNCHANGED << vam, sent, requests, replies, tables >>

-----------------------------------------------------------------------------
\* Faulty: an error of its own for a key that is there.
RvPositive(r, pool) ==
  CASE r.op = "add" /\ ntohl[r.nsp_nsi] \in Keys(pool)    -> 1
    [] r.op = "del" /\ ntohl[r.nsp_nsi] \notin Keys(pool) -> -2
    [] OTHER                                              -> 0

\* nsh_add_del_entry and nsh_add_del_map.
Rv(r, pool) ==
  CASE r.op = "add" /\ ntohl[r.nsp_nsi] \in Keys(pool)    -> -1
    [] r.op = "del" /\ ntohl[r.nsp_nsi] \notin Keys(pool) -> -2
    [] OTHER                                              -> 0

Apply(r, pool) ==
  LET k == ntohl[r.nsp_nsi]
  IN  IF Rv(r, pool) # 0 \/ r.op = "dump" THEN pool
      ELSE IF r.op = "add" THEN PoolGet(pool, k)
      ELSE PoolPut(pool, IndexOf(pool, k))

\* The index in the message of a dump is zero: it asks for the first element,
\* and gets it if there ever was one.  It may have been freed: the client's
\* messages have no TLVs (M clears them, and no command fills any in), so that
\* none are copied from it; NshEntry has what becomes of a dump where there are.
Answer(n, r, pool) ==
  IF r.op # "dump" THEN << [retval |-> Rv(r, pool), of |-> n] >>
  ELSE IF pool.elts = << >> THEN << >>
  ELSE << [details |-> pool.elts[1]] >>

HandleRequest ==
  LET n == requests[1]
      r == sent[n]
  IN  /\ requests # << >>
      /\ requests' = Tail(requests)
      /\ replies' = replies \o Answer(n, r, tables[r.table])
      /\ tables' = [tables EXCEPT ![r.table] = Apply(r, @)]
      /\ UNCHANGED << vam, waiting, returned, sent >>

\* Faulty: the sign of the result is mistaken.
ReplyPositive(m) ==
  IF async_mode
    THEN /\ async_errors' = async_errors + (IF m.retval > 0 THEN 1 ELSE 0)
         /\ UNCHANGED << async_mode, result_ready, retval >>
    ELSE /\ retval' = [value |-> m.retval, of |-> m.of] /\ result_ready' = 1
         /\ UNCHANGED << async_mode, async_errors >>

\* The handlers of foreach_standard_reply_retval_handler.
Reply(m) ==
  IF async_mode
    THEN /\ async_errors' = async_errors + (IF m.retval < 0 THEN 1 ELSE 0)
         /\ UNCHANGED << async_mode, result_ready, retval >>
    ELSE /\ retval' = [value |-> m.retval, of |-> m.of] /\ result_ready' = 1
         /\ UNCHANGED << async_mode, async_errors >>

\* The handlers of details print, and wake up nobody.
HandleReply ==
  LET m == replies[1]
  IN  /\ replies # << >>
      /\ replies' = Tail(replies)
      /\ IF "details" \in DOMAIN m THEN UNCHANGED vam ELSE Reply(m)
      /\ UNCHANGED << waiting, returned, sent, requests, tables >>

Next ==
  \/ \E r \in Request : Command(r)
  \/ RefusedCommand
  \/ Result
  \/ Timeout
  \/ HandleRequest
  \/ HandleReply

\* Time passes; both processes read their queues.
Spec ==
  /\ Init /\ [][Next]_vars
  /\ WF_vars(Result \/ Timeout) /\ WF_vars(HandleRequest) /\ WF_vars(HandleReply)

-----------------------------------------------------------------------------
\* Properties

ReplyType == [retval : {0, -1, -2}, of : Nat]

\* Every variable keeps its type.
TypeOK ==
  /\ async_mode \in BOOLEAN /\ async_errors \in Nat
  /\ result_ready \in {0, 1}
  /\ retval \in [value : {0, -1, -2}, of : 0 .. Len(sent)]
  /\ waiting \in BOOLEAN
  /\ returned \in [value : {0, -1, -2, -3, -99}, of : 0 .. Len(sent),
                   before : 0 .. Len(sent), fresh : BOOLEAN]
  /\ sent \in Seq(Request) /\ Len(sent) <= MaxRequests
  /\ requests \in Seq(1 .. Len(sent))
  /\ replies \in Seq(ReplyType \cup [details : Word])
  /\ \A t \in Table : tables[t] \in PoolType(Word) /\ PoolOK(tables[t])

\* A result, unless it is the one for "no result", tells the table: the key of
\* an add is there, and that of a delete is not, whether the plug-in has done
\* it or found it done -- as long as the replies to all commands before had come
\* when it was sent.
ResultTellsTable ==
  returned.of # 0 /\ returned.fresh =>
    LET r == sent[Len(sent)]
    IN  /\ returned.of = Len(sent)
        /\ (ntohl[r.nsp_nsi] \in Keys(tables[r.table])) = (r.op = "add")

\* However late the replies come and whichever command they are taken for, none
\* of them is returned twice or to a command given before it was asked for.
AnswersOnce ==
  returned.of # 0 => returned.before < returned.of /\ returned.of <= Len(sent)

\* The keys of the tables, and how many requests have failed, before and after
\* a request.
NothingDone == [keys |-> [t \in Table |-> {}], errors |-> 0]

Done(acc, r) ==
  LET k == ntohl[r.nsp_nsi]
  IN  [keys   |-> [acc.keys EXCEPT ![r.table] =
                     CASE r.op = "add"  -> @ \cup {k}
                       [] r.op = "del"  -> @ \ {k}
                       [] r.op = "dump" -> @],
       errors |-> acc.errors +
         IF r.op # "dump" /\ (r.op = "add" <=> k \in acc.keys[r.table]) THEN 1 ELSE 0]

\* What requests come to, one after the other: the first n of them, for each n.
Replay(script) ==
  LET after[n \in 0 .. Len(script)] ==
        IF n = 0 THEN NothingDone ELSE Done(after[n - 1], script[n])
  IN  after

Replayed == Replay(sent)[Len(sent)]

\* A script of commands, each given up or not, comes out as if they had been
\* done one after the other: once all is quiet the tables are what the script
\* says, and an asynchronous client has counted each command that failed.
ScriptInOrder ==
  requests = << >> /\ replies = << >> =>
    /\ \A t \in Table : Keys(tables[t]) = Replayed.keys[t]
    /\ async_mode => async_errors = Replayed.errors

\* Every command returns, dumps and asynchronous ones too.
CommandEnds == waiting ~> ~waiting
=============================================================================
