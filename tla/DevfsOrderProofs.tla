--------------------------- MODULE DevfsOrderProofs ---------------------------
(***************************************************************************)
(* Commits and checkpoints of DevfsJournal follow transaction-id order.    *)
(*                                                                         *)
(* The wait on g_tx_seqn alone does not give that order, since it lets any *)
(* transaction pass while g_tx_seqn is 0.  The order rests on where the    *)
(* single transaction that the daemon has under way can be: in requests of *)
(* the queue, in one handler, or in one response.  OrderInv says so, and   *)
(* is inductive.                                                           *)
(***************************************************************************)
EXTENDS DevfsJournalProofs

NoRequest == \A i \in DOMAIN queue : queue[i].op = "io"
NoCommit  == \A d \in DF : cmt[d].pc = "none"

(* The daemon has sent its commit request, or has stopped.                 *)
Closed == cl.st \in {"waiting", "aborted"}

(* Every request belongs to the transaction under way.                     *)
CurrentRequests ==
    \A i \in DOMAIN queue :
        queue[i].op # "io" => queue[i].tx = cl.tx /\ cl.st # "idle"

(* A commit request is behind every other request, and is for the next     *)
(* transaction after g_tx_seqn.                                            *)
CommitRequestLast ==
    \A i \in DOMAIN queue :
        queue[i].op = "journal" =>
            /\ Closed
            /\ seqn = cl.tx - 1
            /\ NoCommit
            /\ resp = {}
            /\ \A j \in DOMAIN queue : j > i => queue[j].op = "io"

OneHandler ==
    \A d \in DF :
        cmt[d].pc # "none" =>
            /\ Closed
            /\ cmt[d].r.tx = cl.tx
            /\ seqn = cl.tx - 1
            /\ resp = {}
            /\ NoRequest
            /\ \A c \in DF : cmt[c].pc # "none" => c = d

OneResponse ==
    \A r \in resp :
        /\ Closed
        /\ r.tx = cl.tx
        /\ NoRequest
        /\ NoCommit
        /\ \A s \in resp : s = r

(* g_tx_seqn is the transaction before the one that is being sent, and     *)
(* that one after its response.                                            *)
Turn ==
    /\ cl.st = "idle" => seqn = cl.tx
    /\ cl.st = "sending" => seqn = cl.tx - 1
    /\ \A r \in resp : r.ok => seqn = cl.tx

(* The file system area is one transaction behind during the copy.         *)
Applied ==
    /\ ck.pc \in {"idle", "loop"} => ck.e = NoEntry
    /\ fsTx = seqn - Len(ckptList) - (IF ck.pc = "copy" THEN 1 ELSE 0)

OneUnderWay == CurrentRequests /\ CommitRequestLast /\ OneHandler /\ OneResponse

OrderInv == TypeInv /\ OneUnderWay /\ Turn /\ CommitOrder /\ Applied

-----------------------------------------------------------------------------
(* Sequences.                                                              *)

(* The elements of a queue after Append.                                   *)
LEMMA AppendElems ==
    ASSUME NEW S, NEW q \in Seq(S), NEW e \in S
    PROVE  /\ Append(q, e) \in Seq(S)
           /\ Len(Append(q, e)) = Len(q) + 1
           /\ DOMAIN Append(q, e) = 1..(Len(q) + 1)
           /\ \A i \in 1..Len(q) : Append(q, e)[i] = q[i]
           /\ Append(q, e)[Len(q) + 1] = e
           /\ DOMAIN q = 1..Len(q) /\ Len(q) \in Nat
  OBVIOUS

(* The elements of a queue after its head is taken.                        *)
LEMMA TailElems ==
    ASSUME NEW S, NEW q \in Seq(S), q # <<>>
    PROVE  /\ Tail(q) \in Seq(S)
           /\ Len(Tail(q)) = Len(q) - 1
           /\ DOMAIN Tail(q) = 1..(Len(q) - 1)
           /\ \A i \in 1..(Len(q) - 1) : Tail(q)[i] = q[i + 1]
           /\ Head(q) = q[1] /\ 1 \in DOMAIN q
           /\ DOMAIN q = 1..Len(q) /\ Len(q) \in Nat
  OBVIOUS

-----------------------------------------------------------------------------
(* OrderInv holds initially.                                               *)
LEMMA OrderInit == Init => OrderInv
  <1> SUFFICES ASSUME Init PROVE OrderInv
    OBVIOUS
  <1>1. TypeInv
    BY TypeInit
  <1>2. queue = <<>> /\ resp = {} /\ cl.st = "idle" /\ cl.tx = 0 /\ seqn = 0
    BY DEF Init, ClientInit
  <1>3. \A d \in DF : cmt[d].pc = "none"
    BY DEF Init, NoHandler
  <1>4. ck.pc = "idle" /\ ck.e = NoEntry /\ fsTx = 0
    BY DEF Init
  <1>5. OneUnderWay
    BY <1>2, <1>3 DEF Closed, OneUnderWay, CurrentRequests, CommitRequestLast, OneHandler,
                      OneResponse
  <1>6. Turn
    BY <1>2 DEF Turn
  <1>7. Len(ckptList) = 0 /\ DOMAIN ckptList = {}
    BY DEF Init
  <1>8. CommitOrder
    BY <1>4, <1>7 DEF CommitOrder
  <1>9. Applied
    BY <1>2, <1>4, <1>7 DEF Applied
  <1> QED
    BY <1>1, <1>5, <1>6, <1>8, <1>9 DEF OrderInv

(* The daemon's steps.                                                     *)
LEMMA OrderSd == OrderInv /\ SdNext => OrderInv'
  <1> SUFFICES ASSUME OrderInv, SdNext PROVE OrderInv'
    OBVIOUS
  <1>1. TypeInv /\ OneUnderWay /\ Turn /\ CommitOrder /\ Applied
    BY DEF OrderInv
  <1>2. TypeInv'
    BY <1>1, TypeSd
  <1>3. queue \in Seq(Job) /\ queue' \in Seq(Job) /\ cl.tx \in Int /\ seqn \in Int
    BY <1>1, <1>2 DEF TypeInv, TypeOK, Client
  <1>4. CommitOrder' /\ Applied'
    BY <1>1, Zenon DEF SdNext, SdBegin, SdSendFetch, SdSendCommit, SdAnswered, SdFetchFailed,
                CommitOrder, Applied
  <1>5. CASE SdBegin
    <2>1. /\ cl.st = "idle" /\ cl'.st = "sending" /\ cl'.tx = cl.tx + 1
          /\ UNCHANGED <<queue, cmt, resp, seqn>>
      BY <1>5 DEF SdBegin, Begin
    <2>2. NoRequest /\ NoCommit /\ resp = {}
      BY <1>1, <1>3, <2>1 DEF Closed, OneUnderWay, CurrentRequests, OneHandler, OneResponse,
                              NoRequest, NoCommit
    <2>3. OneUnderWay'
      BY <2>1, <2>2 DEF Closed, OneUnderWay, CurrentRequests, CommitRequestLast, OneHandler,
                        OneResponse, NoRequest, NoCommit
    <2>4. Turn'
      BY <1>1, <1>3, <2>1, <2>2 DEF Turn
    <2> QED
      BY <1>2, <1>4, <2>3, <2>4 DEF OrderInv
  <1>6. CASE SdSendFetch
    <2>1. PICK n \in 1..ChunkBlks :
            /\ SendFetch(n)
            /\ queue' = Append(queue, [op |-> "fetch", tx |-> cl.tx, df |-> cl.df,
                                       req |-> cl.reqs, n |-> n])
      BY <1>6 DEF SdSendFetch
    <2> DEFINE e == [op |-> "fetch", tx |-> cl.tx, df |-> cl.df, req |-> cl.reqs,
                     n |-> n]
    <2>2. cl.st = "sending" /\ cl'.st = "sending" /\ cl'.tx = cl.tx
      BY <1>1, <2>1 DEF SendFetch, TypeInv, TypeOK, Client
    <2>3. UNCHANGED <<cmt, resp, seqn>>
      BY <1>6 DEF SdSendFetch
    <2>4. NoCommit /\ resp = {}
      BY <1>1, <2>2 DEF Closed, OneUnderWay, OneHandler, OneResponse, NoCommit
    <2>5. /\ DOMAIN queue' = 1..(Len(queue) + 1) /\ DOMAIN queue = 1..Len(queue)
          /\ \A i \in DOMAIN queue : queue'[i] = queue[i]
          /\ Len(queue) \in Nat
          /\ queue'[Len(queue) + 1].op = "fetch" /\ queue'[Len(queue) + 1].tx = cl.tx
      BY <1>3, <2>1
    <2>6. CurrentRequests' /\ CommitRequestLast'
      BY <1>1, <2>2, <2>5 DEF Closed, OneUnderWay, CurrentRequests, CommitRequestLast
    <2>7. OneHandler' /\ OneResponse'
      BY <2>3, <2>4 DEF NoCommit, OneHandler, OneResponse
    <2>8. Turn'
      BY <1>1, <2>2, <2>3, <2>4 DEF Turn
    <2> QED
      BY <1>2, <1>4, <2>6, <2>7, <2>8 DEF OrderInv, OneUnderWay
  <1>7. CASE SdSendCommit
    <2>1. PICK m \in 1..MaxMeta :
            /\ SendCommit(m)
            /\ queue' = Append(queue, [op |-> "journal", tx |-> cl.tx, df |-> cl.df,
                                       reqs |-> cl.reqs, data |-> cl.data, meta |-> m])
      BY <1>7 DEF SdSendCommit
    <2>2. cl.st = "sending" /\ cl'.st = "waiting" /\ cl'.tx = cl.tx
      BY <1>1, <2>1 DEF SendCommit, TypeInv, TypeOK, Client
    <2>3. UNCHANGED <<cmt, resp, seqn>>
      BY <1>7 DEF SdSendCommit
    <2>4. NoCommit /\ resp = {}
      BY <1>1, <2>2 DEF Closed, OneUnderWay, OneHandler, OneResponse, NoCommit
    <2>5. /\ DOMAIN queue' = 1..(Len(queue) + 1) /\ DOMAIN queue = 1..Len(queue)
          /\ \A i \in DOMAIN queue : queue'[i] = queue[i]
          /\ Len(queue) \in Nat
          /\ queue'[Len(queue) + 1].op = "journal" /\ queue'[Len(queue) + 1].tx = cl.tx
      BY <1>3, <2>1
    <2>6. CurrentRequests'
      BY <1>1, <2>2, <2>5 DEF Closed, OneUnderWay, CurrentRequests
    <2>7. CommitRequestLast'
      <3>1. \A i \in DOMAIN queue : queue[i].op # "journal"
        BY <1>1, <2>2 DEF OneUnderWay, CommitRequestLast, Closed
      <3>2. Closed' /\ seqn' = cl'.tx - 1 /\ NoCommit' /\ resp' = {}
        BY <1>1, <2>2, <2>3, <2>4 DEF Closed, Turn, NoCommit
      <3> QED
        BY <2>5, <3>1, <3>2 DEF CommitRequestLast
    <2>8. OneHandler' /\ OneResponse'
      BY <2>3, <2>4 DEF NoCommit, OneHandler, OneResponse
    <2>9. Turn'
      BY <1>1, <2>2, <2>3, <2>4 DEF Turn
    <2> QED
      BY <1>2, <1>4, <2>6, <2>7, <2>8, <2>9 DEF OrderInv, OneUnderWay
  <1>8. CASE SdAnswered
    <2>1. PICK r \in resp : Answered(r.ok) /\ resp' = resp \ {r}
      BY <1>8 DEF SdAnswered
    <2>2. /\ cl'.st \in {"idle", "aborted"} /\ cl'.tx = cl.tx
          /\ cl'.st = "idle" => r.ok
      BY <1>1, <2>1 DEF Answered, TypeInv, TypeOK, Client
    <2>3. UNCHANGED <<queue, cmt, seqn>>
      BY <1>8 DEF SdAnswered
    <2>4. NoRequest /\ NoCommit /\ resp' = {} /\ (r.ok => seqn = cl.tx)
      BY <1>1, <2>1 DEF Closed, OneUnderWay, OneResponse, Turn
    <2>5. OneUnderWay'
      BY <2>3, <2>4 DEF Closed, OneUnderWay, CurrentRequests, CommitRequestLast, OneHandler,
                        OneResponse, NoRequest, NoCommit
    <2>6. Turn'
      BY <2>2, <2>3, <2>4 DEF Turn
    <2> QED
      BY <1>2, <1>4, <2>5, <2>6 DEF OrderInv
  <1>9. CASE SdFetchFailed
    <2>1. cl'.st = "aborted" /\ cl'.tx = cl.tx /\ UNCHANGED <<queue, cmt, resp, seqn>>
      BY <1>1, <1>9 DEF SdFetchFailed, FetchFailed, TypeInv, TypeOK, Client
    <2>2. CurrentRequests' /\ CommitRequestLast'
      BY <1>1, <2>1 DEF OneUnderWay, CurrentRequests, CommitRequestLast, NoCommit, Closed
    <2>3. OneHandler' /\ OneResponse'
      BY <1>1, <2>1 DEF Closed, OneUnderWay, OneHandler, OneResponse, NoRequest, NoCommit,
                        Closed
    <2>4. Turn'
      BY <1>1, <2>1 DEF Turn
    <2> QED
      BY <1>2, <1>4, <2>2, <2>3, <2>4 DEF OrderInv, OneUnderWay
  <1> QED
    BY <1>5, <1>6, <1>7, <1>8, <1>9 DEF SdNext

(* Steps that leave the requests, the handlers, the responses and the      *)
(* checkpoint list alone: chunk I/O ends, a log is locked or reserved.     *)
LEMMA OrderLocal ==
    ASSUME OrderInv, TypeInv', UNCHANGED <<cl, queue, resp, seqn, ckptList, ck, fsTx>>,
           \A d \in DF : cmt'[d].pc # "none" => cmt[d].pc # "none" /\ cmt'[d].r = cmt[d].r
    PROVE  OrderInv'
  <1>1. TypeInv /\ OneUnderWay /\ Turn /\ CommitOrder /\ Applied
    BY DEF OrderInv
  <1>2. Turn' /\ CommitOrder' /\ Applied'
    BY <1>1 DEF Turn, CommitOrder, Applied
  <1>3. CurrentRequests' /\ CommitRequestLast'
    BY <1>1 DEF Closed, OneUnderWay, CurrentRequests, CommitRequestLast, NoCommit
  <1>4. OneHandler' /\ OneResponse'
    BY <1>1 DEF Closed, OneUnderWay, OneHandler, OneResponse, NoRequest, NoCommit
  <1> QED
    BY <1>2, <1>3, <1>4 DEF OrderInv, OneUnderWay

(* Taking a job from the queue that is not a commit request.               *)
LEMMA OrderTail ==
    ASSUME OneUnderWay, queue \in Seq(Job), queue # <<>>, queue' = Tail(queue),
           UNCHANGED <<cl, cmt, resp, seqn>>
    PROVE  OneUnderWay'
  <1>1. /\ DOMAIN queue' = 1..(Len(queue) - 1) /\ DOMAIN queue = 1..Len(queue)
        /\ \A i \in DOMAIN queue' : queue'[i] = queue[i + 1] /\ i + 1 \in DOMAIN queue
        /\ Len(queue) \in Nat
    BY TailElems
  <1>2. NoRequest => NoRequest'
    BY <1>1 DEF NoRequest
  <1>3. CurrentRequests'
    BY <1>1 DEF Closed, OneUnderWay, CurrentRequests
  <1>4. CommitRequestLast'
    BY <1>1 DEF Closed, OneUnderWay, CommitRequestLast, NoCommit
  <1>5. OneHandler' /\ OneResponse'
    BY <1>2 DEF Closed, OneUnderWay, OneHandler, OneResponse, NoCommit
  <1> QED
    BY <1>3, <1>4, <1>5 DEF OneUnderWay

(* persist_data() takes one fetch request and touches nothing else.        *)
LEMMA OrderFetch ==
    OrderInv /\ (PersistDataStart \/ PersistDataDone) => OrderInv'
  <1> SUFFICES ASSUME OrderInv, PersistDataStart \/ PersistDataDone PROVE OrderInv'
    OBVIOUS
  <1>1. TypeInv /\ OneUnderWay /\ Turn /\ CommitOrder /\ Applied /\ TypeInv'
    BY TypeFetch DEF OrderInv
  <1>2. CASE PersistDataStart
    <2>1. /\ queue # <<>> /\ queue' = Tail(queue)
          /\ UNCHANGED <<cl, cmt, resp, seqn, ckptList, ck, fsTx>>
      BY <1>2 DEF PersistDataStart
    <2>2. OneUnderWay'
      BY <1>1, <2>1, OrderTail DEF TypeInv, TypeOK
    <2>3. Turn' /\ CommitOrder' /\ Applied'
      BY <1>1, <2>1 DEF Turn, CommitOrder, Applied
    <2> QED
      BY <1>1, <2>2, <2>3 DEF OrderInv
  <1>3. CASE PersistDataDone
    BY <1>1, <1>3, OrderLocal DEF PersistDataDone
  <1> QED
    BY <1>2, <1>3

(* The commit request becomes the one handler.                             *)
LEMMA OrderTake == OrderInv /\ TakeJournal => OrderInv'
  <1> SUFFICES ASSUME OrderInv, TakeJournal PROVE OrderInv'
    OBVIOUS
  <1>1. TypeInv /\ OneUnderWay /\ Turn /\ CommitOrder /\ Applied /\ TypeInv'
    BY TypeTake DEF OrderInv
  <1> DEFINE r == Head(queue)
  <1>2. /\ queue # <<>> /\ r.op = "journal" /\ queue' = Tail(queue)
        /\ UNCHANGED <<cl, seqn, ckptList, ck, fsTx>>
    BY DEF TakeJournal
  <1>3. /\ queue \in Seq(Job) /\ cmt \in [DF -> Handler \cup {NoHandler}]
        /\ resp \in SUBSET Response
    BY <1>1 DEF TypeInv, TypeOK
  <1>4. /\ DOMAIN queue' = 1..(Len(queue) - 1) /\ DOMAIN queue = 1..Len(queue)
        /\ \A i \in DOMAIN queue' : queue'[i] = queue[i + 1] /\ i + 1 \in DOMAIN queue
        /\ Len(queue) \in Nat /\ 1 \in DOMAIN queue /\ r = queue[1]
    BY <1>2, <1>3, TailElems
  <1>5. Closed /\ seqn = cl.tx - 1 /\ NoCommit /\ resp = {} /\ r.tx = cl.tx
    BY <1>1, <1>2, <1>4 DEF OneUnderWay, CommitRequestLast, CurrentRequests
  <1>6. NoRequest' /\ Closed'
    BY <1>1, <1>2, <1>4, <1>5 DEF OneUnderWay, CommitRequestLast, NoRequest, Closed
  <1>7. CurrentRequests' /\ CommitRequestLast'
    BY <1>6 DEF NoRequest, CurrentRequests, CommitRequestLast
  <1>8. CommitOrder' /\ Applied'
    BY <1>1, <1>2 DEF CommitOrder, Applied
  <1>9. CASE /\ cmt' = [cmt EXCEPT ![r.df] = [pc |-> "lock", r |-> r,
                                               start |-> 0, tail |-> 0]]
             /\ resp' = resp
    <2>1. \A d \in DF : cmt'[d].pc # "none" => d = r.df /\ cmt'[d].r = r
      BY <1>3, <1>5, <1>9 DEF NoCommit
    <2>2. OneHandler' /\ OneResponse' /\ Turn'
      BY <1>1, <1>2, <1>5, <1>6, <1>9, <2>1 DEF OneHandler, OneResponse, Turn
    <2> QED
      BY <1>1, <1>7, <1>8, <2>2 DEF OrderInv, OneUnderWay
  <1>10. CASE resp' = resp \cup {[tx |-> r.tx, ok |-> FALSE]} /\ cmt' = cmt
    <2>1. NoCommit' /\ resp' = {[tx |-> r.tx, ok |-> FALSE]}
      BY <1>5, <1>10 DEF NoCommit
    <2>2. OneHandler' /\ OneResponse'
      BY <1>2, <1>5, <1>6, <2>1 DEF OneHandler, OneResponse, NoCommit
    <2>3. Turn'
      BY <1>1, <1>2, <2>1 DEF Turn
    <2> QED
      BY <1>1, <1>7, <1>8, <2>2, <2>3 DEF OrderInv, OneUnderWay
  <1>11. \/ /\ cmt' = [cmt EXCEPT ![r.df] = [pc |-> "lock", r |-> r,
                                              start |-> 0, tail |-> 0]]
            /\ resp' = resp
         \/ resp' = resp \cup {[tx |-> r.tx, ok |-> FALSE]} /\ cmt' = cmt
    BY Zenon DEF TakeJournal
  <1> QED
    BY <1>9, <1>10, <1>11, Zenon

(* Locking and reserving keep the request of the handler.                  *)
LEMMA OrderReserve ==
    ASSUME NEW d \in DF, OrderInv, LockLog(d) \/ Reserve(d)
    PROVE  OrderInv'
  <1>1. TypeInv /\ TypeInv' /\ cmt \in [DF -> Handler \cup {NoHandler}]
    BY TypeReserve DEF OrderInv, TypeInv, TypeOK
  <1>2. UNCHANGED <<cl, queue, resp, seqn, ckptList, ck, fsTx>>
    BY DEF LockLog, Reserve
  <1>3. CASE LockLog(d)
    <2>1. cmt' = [cmt EXCEPT ![d].pc = "wait"] /\ cmt[d].pc = "lock"
      BY <1>3 DEF LockLog
    <2>2. cmt[d] \in Handler
      BY <1>1, <2>1 DEF NoHandler
    <2>3. cmt'[d].r = cmt[d].r /\ \A c \in DF \ {d} : cmt'[c] = cmt[c]
      BY <1>1, <2>1, <2>2 DEF Handler
    <2> QED
      BY <1>1, <1>2, <2>1, <2>3, OrderLocal
  <1>4. CASE Reserve(d)
    <2>1. /\ cmt[d].pc = "wait"
          /\ cmt' = cmt \/ cmt' = [cmt EXCEPT ![d] = Reserved(@, log[d])]
      BY <1>4 DEF Reserve
    <2>2. cmt[d] \in Handler
      BY <1>1, <2>1 DEF NoHandler
    <2>3. Reserved(cmt[d], log[d]).r = cmt[d].r
      BY <2>2 DEF Reserved, Handler
    <2>4. cmt'[d].r = cmt[d].r /\ \A c \in DF \ {d} : cmt'[c] = cmt[c]
      BY <1>1, <2>1, <2>3
    <2> QED
      BY <1>1, <1>2, <2>1, <2>4, OrderLocal
  <1> QED
    BY <1>3, <1>4

(* The handler of log d ends with a response.                              *)
LEMMA HandlerEnds ==
    ASSUME NEW d \in DF, OneUnderWay, TypeOK, NEW b \in BOOLEAN,
           cmt[d].pc # "none", cmt' = [cmt EXCEPT ![d] = NoHandler],
           resp' = resp \cup {[tx |-> cmt[d].r.tx, ok |-> b]},
           UNCHANGED <<cl, queue>>
    PROVE  /\ OneUnderWay'
           /\ Closed /\ cmt[d].r.tx = cl.tx /\ seqn = cl.tx - 1 /\ resp = {}
           /\ \A r \in resp' : r.ok = b
  <1>1. /\ Closed /\ cmt[d].r.tx = cl.tx /\ resp = {} /\ NoRequest
        /\ seqn = cl.tx - 1
        /\ \A c \in DF : cmt[c].pc # "none" => c = d
    BY DEF OneUnderWay, OneHandler
  <1>2. cmt \in [DF -> Handler \cup {NoHandler}]
    BY DEF TypeOK
  <1>3. NoCommit' /\ NoRequest'
    BY <1>1, <1>2 DEF NoCommit, NoRequest, NoHandler
  <1>4. CurrentRequests' /\ CommitRequestLast'
    BY <1>3 DEF NoRequest, CurrentRequests, CommitRequestLast
  <1>5. OneHandler' /\ OneResponse'
    BY <1>1, <1>3 DEF NoCommit, OneHandler, OneResponse, Closed
  <1> QED
    BY <1>1, <1>4, <1>5 DEF OneUnderWay

(* The handler goes on to the commit, or ends with an error.               *)
LEMMA OrderWriteMeta ==
    ASSUME NEW d \in DF, OrderInv, WriteMeta(d)
    PROVE  OrderInv'
  <1>1. /\ TypeInv /\ TypeInv' /\ TypeOK /\ cmt \in [DF -> Handler \cup {NoHandler}]
        /\ OneUnderWay /\ Turn /\ CommitOrder /\ Applied
    BY TypeWriteMeta DEF OrderInv, TypeInv, TypeOK
  <1>2. UNCHANGED <<cl, queue, seqn, ckptList, ck, fsTx>> /\ cmt[d].pc = "meta"
    BY DEF WriteMeta
  <1>3. CASE cmt' = [cmt EXCEPT ![d].pc = "order"] /\ resp' = resp
    <2>1. cmt[d] \in Handler
      BY <1>1, <1>2 DEF NoHandler
    <2>2. cmt'[d].r = cmt[d].r /\ \A c \in DF \ {d} : cmt'[c] = cmt[c]
      BY <1>1, <1>3, <2>1 DEF Handler
    <2> QED
      BY <1>1, <1>2, <1>3, <2>2, OrderLocal
  <1>4. CASE /\ cmt' = [cmt EXCEPT ![d] = NoHandler]
             /\ resp' = resp \cup {[tx |-> cmt[d].r.tx, ok |-> FALSE]}
    <2>1. /\ OneUnderWay' /\ Closed /\ resp = {}
          /\ \A r \in resp' : r.ok = FALSE
      BY <1>1, <1>2, <1>4, HandlerEnds, Zenon
    <2>3. Turn'
      BY <1>2, <2>1 DEF Turn, Closed
    <2>4. CommitOrder' /\ Applied'
      BY <1>1, <1>2 DEF CommitOrder, Applied
    <2> QED
      BY <1>1, <2>1, <2>3, <2>4 DEF OrderInv
  <1> QED
    BY <1>3, <1>4 DEF WriteMeta

(* A commit is the next transaction in order, by Turn.                     *)
LEMMA OrderCommit ==
    ASSUME NEW d \in DF, OrderInv, Commit(d)
    PROVE  OrderInv'
  <1>1. /\ TypeInv /\ TypeInv' /\ TypeOK /\ TypeOK'
        /\ OneUnderWay /\ Turn /\ CommitOrder /\ Applied
    BY TypeCommit DEF OrderInv, TypeInv
  <1> DEFINE t == cmt[d].r.tx
             e == [tx |-> t, df |-> d, start |-> fctx[d].desc,
                   len |-> TxLen(cmt[d].r), ready |-> FALSE]
  <1>2. /\ UNCHANGED <<cl, queue, ck, fsTx>> /\ cmt[d].pc = "order"
        /\ cmt' = [cmt EXCEPT ![d] = NoHandler]
        /\ resp' = resp \cup {[tx |-> t, ok |-> TRUE]}
        /\ seqn' = t /\ ckptList' = Append(ckptList, e)
    BY DEF Commit, Enqueue
  <1>3. /\ OneUnderWay' /\ Closed /\ t = cl.tx /\ seqn = cl.tx - 1 /\ resp = {}
        /\ \A r \in resp' : r.ok = TRUE
    BY <1>1, <1>2, HandlerEnds, Zenon
  <1>5. cl.tx \in Int /\ seqn \in Int /\ fsTx \in Int /\ ckptList \in Seq(Entry)
    BY <1>1 DEF TypeOK, Client
  <1>6. seqn = cl.tx - 1
    BY <1>3
  <1>7. Turn'
    BY <1>2, <1>3 DEF Turn, Closed
  <1>8. /\ Len(ckptList') = Len(ckptList) + 1
        /\ DOMAIN ckptList' = 1..(Len(ckptList) + 1) /\ DOMAIN ckptList = 1..Len(ckptList)
        /\ \A i \in DOMAIN ckptList : ckptList'[i] = ckptList[i]
        /\ ckptList'[Len(ckptList) + 1].tx = t
        /\ Len(ckptList) \in Nat
    <2> HIDE DEF t
    <2> QED
      BY <1>2, <1>5
  <1>9. seqn' = seqn + 1 /\ seqn' - Len(ckptList') = seqn - Len(ckptList)
    <2>1. seqn' = cl.tx
      BY <1>2, <1>3
    <2>2. Len(ckptList') = Len(ckptList) + 1 /\ Len(ckptList) \in Nat
      BY <1>8
    <2> QED
      BY <1>5, <1>6, <2>1, <2>2
  <1>10. \A i \in DOMAIN ckptList' : ckptList'[i].tx = seqn' - Len(ckptList') + i
    <2>1. \A i \in DOMAIN ckptList : ckptList'[i].tx = seqn - Len(ckptList) + i
      BY <1>1, <1>8 DEF CommitOrder
    <2>2. ckptList'[Len(ckptList) + 1].tx = seqn + 1
      BY <1>2, <1>8, <1>9
    <2>3. seqn + 1 = seqn - Len(ckptList) + (Len(ckptList) + 1)
      BY <1>5, <1>8
    <2>4. \A i \in DOMAIN ckptList' : i \in DOMAIN ckptList \/ i = Len(ckptList) + 1
      BY <1>8
    <2> QED
      BY <1>9, <2>1, <2>2, <2>3, <2>4, Zenon
  <1>11. CommitOrder'
    BY <1>1, <1>2, <1>9, <1>10 DEF CommitOrder
  <1>12. Applied'
    BY <1>1, <1>2, <1>9 DEF Applied
  <1> QED
    BY <1>1, <1>3, <1>7, <1>11, <1>12 DEF OrderInv

(* prepare_ckpt() changes no transaction id of g_ckpt_list.                *)
LEMMA OrderPrepare == OrderInv /\ Prepare => OrderInv'
  <1> SUFFICES ASSUME OrderInv, Prepare PROVE OrderInv'
    OBVIOUS
  <1>1. TypeInv /\ TypeInv' /\ OneUnderWay /\ Turn /\ CommitOrder /\ Applied
    BY TypePrepare DEF OrderInv
  <1>2. UNCHANGED <<cl, queue, cmt, resp, seqn, ck, fsTx>>
    BY DEF Prepare, MarkReady
  <1>3. PICK i \in DOMAIN ckptList : ckptList' = [ckptList EXCEPT ![i].ready = TRUE]
    BY Zenon DEF Prepare, MarkReady
  <1>4. ckptList \in Seq(Entry)
    BY <1>1 DEF TypeInv, TypeOK
  <1>5. ckptList[i] \in Entry
    BY <1>3, <1>4
  <1>6. [ckptList[i] EXCEPT !.ready = TRUE].tx = ckptList[i].tx
    BY <1>5 DEF Entry
  <1>7. /\ Len(ckptList') = Len(ckptList) /\ DOMAIN ckptList' = DOMAIN ckptList
        /\ \A j \in DOMAIN ckptList : ckptList'[j].tx = ckptList[j].tx
    BY <1>3, <1>4, <1>6
  <1>8. OneUnderWay' /\ Turn'
    BY <1>1, <1>2 DEF Closed, OneUnderWay, CurrentRequests, CommitRequestLast, OneHandler,
                      OneResponse, NoRequest, NoCommit, Turn
  <1>9. CommitOrder' /\ Applied'
    BY <1>1, <1>2, <1>7 DEF CommitOrder, Applied
  <1> QED
    BY <1>1, <1>8, <1>9 DEF OrderInv

(* The checkpoint submits an I/O job.                                      *)
LEMMA OrderSubmit ==
    ASSUME OneUnderWay, queue \in Seq(Job), queue' = Append(queue, IoJob),
           UNCHANGED <<cl, cmt, resp, seqn>>
    PROVE  OneUnderWay'
  <1>1. IoJob \in Job /\ IoJob.op = "io"
    BY DEF Job, IoJob
  <1>2. /\ DOMAIN queue' = 1..(Len(queue) + 1) /\ DOMAIN queue = 1..Len(queue)
        /\ \A i \in DOMAIN queue : queue'[i] = queue[i]
        /\ queue'[Len(queue) + 1].op = "io" /\ Len(queue) \in Nat
    BY <1>1, AppendElems
  <1>3. \A i \in DOMAIN queue' : i \in DOMAIN queue \/ queue'[i].op = "io"
    BY <1>2
  <1>4. NoRequest => NoRequest'
    BY <1>2, <1>3 DEF NoRequest
  <1>5. CurrentRequests'
    BY <1>2, <1>3 DEF Closed, OneUnderWay, CurrentRequests
  <1>6. CommitRequestLast'
    BY <1>2, <1>3 DEF Closed, OneUnderWay, CommitRequestLast, NoCommit
  <1>7. OneHandler' /\ OneResponse'
    BY <1>4 DEF Closed, OneUnderWay, OneHandler, OneResponse, NoCommit
  <1> QED
    BY <1>5, <1>6, <1>7 DEF OneUnderWay

(* One transaction leaves g_ckpt_list for the file system area.            *)
LEMMA OrderDequeue == OrderInv /\ CkptDequeue => OrderInv'
  <1> SUFFICES ASSUME OrderInv, CkptDequeue PROVE OrderInv'
    OBVIOUS
  <1>1. TypeInv /\ TypeInv' /\ OneUnderWay /\ Turn /\ CommitOrder /\ Applied
    BY TypeCkpt DEF OrderInv, CkptNext
  <1>2. /\ UNCHANGED <<cl, cmt, resp, seqn, fsTx>> /\ ck.pc = "loop"
        /\ ckptList # <<>> /\ ckptList' = Tail(ckptList) /\ queue' = Append(queue, IoJob)
    BY DEF CkptDequeue
  <1>3. ck'.pc = "copy" /\ ck'.e = Head(ckptList)
    BY DEF CkptDequeue
  <1>4. ckptList \in Seq(Entry) /\ queue \in Seq(Job) /\ seqn \in Int /\ fsTx \in Int
    <2>1. /\ ckptList \in Seq(Entry) /\ queue \in Seq(Job)
          /\ seqn \in 0..MaxTx /\ fsTx \in 0..MaxTx
      BY <1>1 DEF TypeInv, TypeOK
    <2> QED
      BY <2>1
  <1>5. OneUnderWay' /\ Turn'
    BY <1>1, <1>2, <1>4, OrderSubmit DEF Turn
  <1>6. /\ Len(ckptList') = Len(ckptList) - 1 /\ Len(ckptList) \in Nat
        /\ \A i \in DOMAIN ckptList' : /\ ckptList'[i] = ckptList[i + 1]
                                       /\ i + 1 \in DOMAIN ckptList /\ i \in Nat
        /\ 1 \in DOMAIN ckptList /\ ck'.e = ckptList[1]
    BY <1>2, <1>3, <1>4, TailElems
  <1>7. ck'.e.tx = seqn' - Len(ckptList')
    <2>1. ck'.e.tx = seqn - Len(ckptList) + 1
      BY <1>1, <1>6 DEF CommitOrder
    <2> QED
      BY <1>2, <1>4, <1>6, <2>1
  <1>8. \A i \in DOMAIN ckptList' : ckptList'[i].tx = seqn' - Len(ckptList') + i
    <2>1. \A i \in DOMAIN ckptList' : ckptList'[i].tx = seqn - Len(ckptList) + (i + 1)
      BY <1>1, <1>6 DEF CommitOrder
    <2>2. \A i \in Nat : seqn - Len(ckptList) + (i + 1) = seqn' - Len(ckptList') + i
      BY <1>2, <1>4, <1>6
    <2> QED
      BY <1>6, <2>1, <2>2
  <1>9. fsTx' = seqn' - Len(ckptList') - 1
    <2>1. fsTx = seqn - Len(ckptList) - 0
      BY <1>1, <1>2 DEF Applied
    <2> QED
      BY <1>2, <1>4, <1>6, <2>1
  <1> QED
    BY <1>1, <1>3, <1>5, <1>7, <1>8, <1>9 DEF OrderInv, CommitOrder, Applied

(* Steps of the checkpoint that neither take an entry nor apply one.       *)
LEMMA OrderCkptLocal ==
    ASSUME OrderInv, TypeInv', OneUnderWay',
           UNCHANGED <<cl, resp, seqn, ckptList, fsTx>>,
           ck' = ck \/ (ck.pc # "copy" /\ ck'.pc # "copy"),
           ck'.e = ck.e \/ ck'.e = NoEntry,
           ck'.pc \in {"idle", "loop"} => ck'.e = NoEntry
    PROVE  OrderInv'
  <1>1. Turn /\ CommitOrder /\ Applied
    BY DEF OrderInv
  <1>2. Turn' /\ CommitOrder'
    BY <1>1 DEF Turn, CommitOrder
  <1>3. Applied'
    BY <1>1 DEF Applied
  <1> QED
    BY <1>2, <1>3 DEF OrderInv

(* The steps of a checkpoint between the copy and the next entry.          *)
LEMMA OrderCkptSteps ==
    OrderInv /\ (Signal \/ CkptStart \/ CkptEnd \/ CkptTxId \/ FreeJournalSpace
                 \/ UnlockFreed) => OrderInv'
  <1> SUFFICES ASSUME OrderInv,
                      \/ Signal \/ CkptStart \/ CkptEnd \/ CkptTxId
                      \/ FreeJournalSpace \/ UnlockFreed
               PROVE  OrderInv'
    OBVIOUS
  <1>1. /\ TypeInv /\ TypeInv' /\ OneUnderWay /\ Applied /\ queue \in Seq(Job)
        /\ ck \in Ckpt
    BY TypeCkpt DEF OrderInv, CkptNext, TypeInv, TypeOK
  <1>2. UNCHANGED <<cl, cmt, resp, seqn, ckptList, fsTx>>
    BY DEF Signal, CkptStart, CkptEnd, CkptTxId, FreeJournalSpace, UnlockFreed
  <1>3. OneUnderWay'
    <2>1. CASE UNCHANGED queue
      BY <1>1, <1>2, <2>1 DEF Closed, OneUnderWay, CurrentRequests, CommitRequestLast,
                              OneHandler, OneResponse, NoRequest, NoCommit
    <2>2. CASE queue' = Append(queue, IoJob)
      BY <1>1, <1>2, <2>2, OrderSubmit
    <2> QED
      BY <2>1, <2>2 DEF Signal, CkptStart, CkptEnd, CkptTxId, FreeJournalSpace,
                        UnlockFreed
  <1>4. CASE Signal
    BY <1>1, <1>2, <1>3, <1>4, OrderCkptLocal DEF Signal, Applied
  <1>5. CASE CkptStart \/ CkptEnd
    <2>1. ck.pc \in {"idle", "loop"} /\ ck'.pc \in {"idle", "loop"} /\ ck'.e = ck.e
      BY <1>1, <1>5 DEF CkptStart, CkptEnd, Ckpt
    <2>2. ck.e = NoEntry
      BY <1>1, <2>1 DEF Applied
    <2> QED
      BY <1>1, <1>2, <1>3, <2>1, <2>2, OrderCkptLocal
  <1>6. CASE CkptTxId
    <2>1. ck.pc = "copied" /\ ck'.pc \in {"copied", "free"} /\ ck'.e = ck.e
      BY <1>1, <1>6 DEF CkptTxId, Ckpt
    <2> QED
      BY <1>1, <1>2, <1>3, <2>1, OrderCkptLocal
  <1>7. CASE FreeJournalSpace
    <2>1. ck.pc = "free" /\ ck'.pc = "sync" /\ ck'.e = ck.e
      BY <1>1, <1>7 DEF FreeJournalSpace, Ckpt
    <2> QED
      BY <1>1, <1>2, <1>3, <2>1, OrderCkptLocal
  <1>8. CASE UnlockFreed
    <2>1. ck.pc = "synced" /\ ck'.pc = "loop" /\ ck'.e = NoEntry
      BY <1>8 DEF UnlockFreed
    <2> QED
      BY <1>1, <1>2, <1>3, <2>1, OrderCkptLocal
  <1> QED
    BY <1>4, <1>5, <1>6, <1>7, <1>8

(* The copy brings the file system area to the dequeued transaction.       *)
LEMMA OrderIo == OrderInv /\ RunIoJob => OrderInv' /\ (fsTx' # fsTx => fsTx' = fsTx + 1)
  <1> SUFFICES ASSUME OrderInv, RunIoJob
               PROVE  OrderInv' /\ (fsTx' # fsTx => fsTx' = fsTx + 1)
    OBVIOUS
  <1>1. TypeInv /\ TypeInv' /\ OneUnderWay /\ Turn /\ CommitOrder /\ Applied
    BY TypeCkpt DEF OrderInv
  <1>2. /\ UNCHANGED <<cl, cmt, resp, seqn, ckptList>>
        /\ queue # <<>> /\ queue' = Tail(queue)
    BY DEF RunIoJob, RunIo
  <1>3. /\ queue \in Seq(Job) /\ ck \in Ckpt /\ ckptList \in Seq(Entry)
        /\ seqn \in Int /\ fsTx \in Int
    BY <1>1 DEF TypeInv, TypeOK
  <1>4. OneUnderWay' /\ Turn' /\ Len(ckptList) \in Int
    BY <1>1, <1>2, <1>3, OrderTail DEF Turn
  <1>5. CASE ck.pc = "copy"
    <2>1. fsTx' = ck.e.tx /\ ck'.pc = "copied" /\ ck'.e = ck.e
      BY <1>3, <1>5 DEF RunIoJob, RunIo, Ckpt
    <2>2. ck.e # NoEntry
      BY <1>1, <1>5 DEF TypeInv, Entry, NoEntry, Tx
    <2>3. ck.e.tx = seqn - Len(ckptList) /\ fsTx = seqn - Len(ckptList) - 1
      BY <1>1, <1>5, <2>2 DEF CommitOrder, Applied
    <2>4. fsTx' = fsTx + 1
      BY <1>3, <1>4, <2>1, <2>3
    <2>5. CommitOrder'
      BY <1>1, <1>2, <2>1 DEF CommitOrder
    <2>6. fsTx' = seqn' - Len(ckptList') - 0
      BY <1>2, <1>3, <1>4, <2>1, <2>3
    <2>7. Applied'
      BY <2>1, <2>6 DEF Applied
    <2> QED
      BY <1>1, <1>4, <2>4, <2>5, <2>7 DEF OrderInv
  <1>6. CASE ck.pc = "sync"
    <2>1. fsTx' = fsTx /\ ck'.pc = "synced" /\ ck'.e = ck.e
      BY <1>3, <1>6 DEF RunIoJob, RunIo, Ckpt
    <2> QED
      BY <1>1, <1>2, <1>4, <1>6, <2>1, OrderCkptLocal
  <1> QED
    BY <1>5, <1>6 DEF RunIoJob, RunIo

(* Stuttering keeps OrderInv.                                              *)
LEMMA OrderStutter == OrderInv /\ UNCHANGED vars => OrderInv'
  <1> SUFFICES ASSUME OrderInv, UNCHANGED vars PROVE OrderInv'
    OBVIOUS
  <1>1. TypeInv' /\ UNCHANGED <<cl, queue, cmt, resp, seqn, ckptList, ck, fsTx>>
    BY TypeStutter DEF OrderInv, vars, devVars
  <1> QED
    BY <1>1, OrderLocal

(* OrderInv is inductive.                                                  *)
LEMMA OrderInductive == OrderInv /\ [Next]_vars => OrderInv'
  BY OrderSd, OrderFetch, OrderTake, OrderReserve, OrderWriteMeta, OrderCommit,
     OrderPrepare, OrderCkptSteps, OrderDequeue, OrderIo, OrderStutter
     DEF Next, CommitNext, CkptNext, Stopped

(* Commits follow transaction-id order and g_ckpt_list is the run of       *)
(* committed transactions that wait for their checkpoint, for any number   *)
(* of data fetchers, workers and blocks.                                   *)
THEOREM CommitsInOrder == Spec => []CommitOrder
  <1>1. OrderInv => CommitOrder
    BY DEF OrderInv
  <1> QED
    BY OrderInit, OrderInductive, <1>1, PTL DEF Spec

(* No checkpoint skips a transaction, repeats one or goes back: the file   *)
(* system area advances by exactly one transaction at a time.              *)
THEOREM CheckpointsInOrder == Spec => CheckpointOrder
  <1>1. OrderInv /\ Next /\ fsTx' # fsTx => fsTx' = fsTx + 1
    <2>1. SUFFICES ASSUME OrderInv, Next, fsTx' # fsTx PROVE fsTx' = fsTx + 1
      OBVIOUS
    <2>2. RunIoJob
      BY <2>1, Zenon DEF Next, SdNext, SdBegin, SdSendFetch, SdSendCommit, SdAnswered,
                  SdFetchFailed,
                  PersistDataStart, PersistDataDone, TakeJournal, CommitNext, LockLog,
                  Reserve, WriteMeta, Commit, Prepare, Signal, CkptNext, CkptStart,
                  CkptEnd, CkptDequeue, CkptTxId, FreeJournalSpace, UnlockFreed,
                  Stopped, vars, devVars
    <2> QED
      BY <2>1, <2>2, OrderIo
  <1>2. OrderInv /\ [Next]_vars => [fsTx' # fsTx => fsTx' = fsTx + 1]_vars
    BY <1>1
  <1> QED
    BY OrderInit, OrderInductive, <1>2, PTL DEF Spec, CheckpointOrder
=============================================================================
