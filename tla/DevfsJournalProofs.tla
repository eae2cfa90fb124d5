-------------------------- MODULE DevfsJournalProofs --------------------------
(***************************************************************************)
(* Theorems about DevfsJournal for every size of the logs, the chunks and  *)
(* the transactions, and any number of data fetchers, workers and          *)
(* transactions.                                                           *)
(***************************************************************************)
EXTENDS DevfsJournal, SequenceTheorems, TLAPS

USE ClientAssumption, DevfsAssumption

-----------------------------------------------------------------------------
(* Circular arithmetic.                                                    *)

(* Advance(), the head and tail update, stays in the log for any length up *)
(* to that of the log.                                                     *)
LEMMA AdvanceInLog ==
    ASSUME NEW pos \in Blk, NEW n \in 0..LogSize
    PROVE  Advance(pos, n) \in Blk
  BY DEF Advance, Blk, Last

(* A counter reduced modulo the word size stays a word.                    *)
LEMMA ModWord ==
    ASSUME NEW x \in Int
    PROVE  x % Word \in 0..(Word - 1)
  OBVIOUS

(* Updating a function at one point keeps its type.                        *)
LEMMA ExceptType ==
    ASSUME NEW S, NEW T, NEW f \in [S -> T], NEW x \in S, NEW v \in T
    PROVE  [f EXCEPT ![x] = v] \in [S -> T]
  OBVIOUS

(* Counting a chunk keeps the type of a fetch context.                     *)
LEMMA CountChunkType ==
    ASSUME NEW c \in FetchCtx, NEW n \in Nat
    PROVE  Counted(c, n) \in FetchCtx
  <1>1. ASSUME NEW a \in Nat, NEW b \in Nat
        PROVE [c EXCEPT !.total = a, !.cnt = b] \in FetchCtx
    BY Zenon DEF FetchCtx
  <1>2. c.total + n \in Nat /\ c.cnt + 1 \in Nat
    BY DEF FetchCtx
  <1> QED
    BY <1>1, <1>2, Zenon DEF Counted

(* The blocks written by the bio helpers are blocks of the log, and they   *)
(* hold blocks of the transaction.                                         *)
LEMMA WriteBlksType ==
    ASSUME NEW img \in Image, NEW start \in Int,
           NEW n \in Nat, NEW t \in 0..MaxTx, NEW k \in Nat
    PROVE  WriteBlks(img, start, n, t, k) \in Image
  <1>1. ASSUME NEW b \in Blk PROVE (b - start) % LogSize \in Nat
    BY DEF Blk
  <1>2. ASSUME NEW b \in Blk
        PROVE <<t, k + ((b - start) % LogSize)>> \in (0..MaxTx) \X Nat
    BY <1>1
  <1> QED
    BY <1>2 DEF WriteBlks, Image

(* Allocation and release keep the type of a log.                          *)
LEMMA AllocatedType ==
    ASSUME NEW l \in Log, NEW r \in CommitReq
    PROVE  MetaStart(l, r) \in Blk /\ Allocated(l, r) \in Log
  <1>1. l.head \in Blk /\ l.free \in Int
    BY DEF Log
  <1>2. r.data \in 0..MaxData /\ r.meta \in 1..MaxMeta
    BY DEF CommitReq
  <1>3. r.data + 1 \in 0..LogSize /\ r.meta + 1 \in 0..LogSize
    BY <1>2
  <1>4. MetaStart(l, r) \in Blk
    BY <1>1, <1>3, AdvanceInLog DEF MetaStart
  <1>5. Advance(MetaStart(l, r), r.meta + 1) \in Blk
    BY <1>3, <1>4, AdvanceInLog
  <1>6. (l.free - TxLen(r)) % Word \in 0..(Word - 1)
    BY <1>1, <1>2, ModWord DEF TxLen
  <1>7. ASSUME NEW a \in Blk, NEW b \in 0..(Word - 1)
        PROVE [l EXCEPT !.head = a, !.free = b] \in Log
    BY Zenon DEF Log
  <1> QED
    BY <1>4, <1>5, <1>6, <1>7, Zenon DEF Allocated

(* free_journal_space() keeps the type of a log.                           *)
LEMMA ReleasedType ==
    ASSUME NEW l \in Log, NEW n \in 0..LogSize
    PROVE  Released(l, n) \in Log
  <1>1. l.tail \in Blk /\ l.free \in Int
    BY DEF Log
  <1>2. Advance(l.tail, n) \in Blk
    BY <1>1, AdvanceInLog
  <1>3. (l.free + n) % Word \in 0..(Word - 1)
    BY <1>1, ModWord
  <1>4. ASSUME NEW a \in Blk, NEW b \in 0..(Word - 1)
        PROVE [l EXCEPT !.tail = a, !.free = b] \in Log
    BY Zenon DEF Log
  <1> QED
    BY <1>2, <1>3, <1>4, Zenon DEF Released

(* A reservation keeps the type of a commit handler.                       *)
LEMMA ReservedType ==
    ASSUME NEW h \in Handler, NEW l \in Log
    PROVE  Reserved(h, l) \in Handler
  <1>1. MetaStart(l, h.r) \in Blk /\ l.tail \in Blk
    BY AllocatedType DEF Handler, Log
  <1>2. ASSUME NEW a \in Blk, NEW b \in Blk
        PROVE [h EXCEPT !.pc = "meta", !.start = a, !.tail = b] \in Handler
    BY Zenon DEF Handler
  <1> QED
    BY <1>1, <1>2, Zenon DEF Reserved

-----------------------------------------------------------------------------
(* Type correctness.                                                       *)

(* TypeOK is not inductive: a request carries the id of a transaction that *)
(* has begun, and a checkpoint past the dequeue has an entry.              *)
TypeInv ==
    /\ TypeOK
    /\ cl.st # "idle" => cl.tx \in Tx
    /\ ck.pc \notin {"idle", "loop"} => ck.e \in Entry

(* Init has the type.                                                      *)
LEMMA TypeInit == Init => TypeInv
  <1> SUFFICES ASSUME Init PROVE TypeInv
    OBVIOUS
  <1>1. cl \in Client /\ cl.st = "idle"
    BY DEF Init, ClientInit, Client
  <1>2. 0 \in Blk /\ LogSize \in 0..(Word - 1)
    BY DEF Blk
  <1>3. log \in [DF -> Log] /\ fctx \in [DF -> FetchCtx] /\ disk \in [DF -> Image]
    BY <1>2 DEF Init, EmptyCtx, Log, FetchCtx, Image
  <1>4. sb \in Super /\ dsb = sb
    BY DEF Init, Super
  <1>5. ck.pc = "idle" /\ ck \in Ckpt
    BY DEF Init, Ckpt
  <1>6. cmt \in [DF -> Handler \cup {NoHandler}] /\ lock \in [DF -> Holder]
    BY DEF Init, Holder
  <1>7. queue \in Seq(Job) /\ ckptList \in Seq(Entry) /\ prepq \in Seq(Tx)
    BY DEF Init
  <1>8. fetching = {} /\ resp = {} /\ dropped = {} /\ flag = FALSE /\ overrun = FALSE
    BY Zenon DEF Init
  <1>9. seqn \in 0..MaxTx /\ fsTx \in 0..MaxTx /\ failed \in Failure
    BY DEF Init, Failure
  <1>10. TypeOK
    BY <1>1, <1>3, <1>4, <1>5, <1>6, <1>7, <1>8, <1>9, Zenon DEF TypeOK
  <1> QED
    BY <1>1, <1>5, <1>10 DEF TypeInv

(* The daemon's steps keep the type.                                       *)
LEMMA TypeSd == TypeInv /\ SdNext => TypeInv'
  <1> SUFFICES ASSUME TypeInv, SdNext PROVE TypeInv'
    OBVIOUS
  <1> USE DEF TypeInv
  <1>1. CASE SdBegin
    <2>1. PICK d \in DF : Begin(d)
      BY <1>1 DEF SdBegin
    <2>2. cl.tx \in 0..MaxTx /\ cl.tx < MaxTx
      BY <2>1 DEF Begin, TypeOK, Client
    <2>3. cl.tx + 1 \in Tx /\ cl.tx + 1 \in 0..MaxTx /\ 0 \in 0..MaxData
      BY <2>2 DEF Tx
    <2>4. cl' = [st |-> "sending", tx |-> cl.tx + 1, df |-> d, reqs |-> 0, data |-> 0]
      BY <2>1 DEF Begin
    <2>5. cl' \in Client
      BY <2>3, <2>4 DEF Client
    <2>6. cl'.tx \in Tx
      BY <2>3, <2>4
    <2> QED
      BY <1>1, <2>5, <2>6 DEF SdBegin, TypeOK
  <1>2. CASE SdSendFetch
    <2>1. PICK n \in 1..ChunkBlks :
            /\ SendFetch(n)
            /\ queue' = Append(queue, [op |-> "fetch", tx |-> cl.tx, df |-> cl.df,
                                       req |-> cl.reqs, n |-> n])
      BY <1>2 DEF SdSendFetch
    <2>2. cl.tx \in Tx /\ cl.df \in DF /\ cl.reqs \in 0..MaxData /\ cl.data \in 0..MaxData
      BY <2>1 DEF SendFetch, TypeOK, Client
    <2>3. cl.data = cl.reqs * ChunkBlks /\ cl.data + n <= MaxData
      BY <2>1 DEF SendFetch
    <2>4. cl.reqs <= cl.reqs * ChunkBlks
      BY <2>2
    <2>5. cl.reqs + 1 \in 0..MaxData /\ cl.data + n \in 0..MaxData
      BY <2>2, <2>3, <2>4
    <2>6. cl' \in Client /\ cl'.tx = cl.tx
      BY <2>1, <2>2, <2>5, Zenon DEF SendFetch, TypeOK, Client
    <2>7. [op |-> "fetch", tx |-> cl.tx, df |-> cl.df, req |-> cl.reqs, n |-> n]
            \in FetchReq
      BY <2>2 DEF FetchReq
    <2>8. queue' \in Seq(Job)
      BY <2>1, <2>7 DEF TypeOK, Job
    <2> QED
      BY <1>2, <2>2, <2>6, <2>8 DEF SdSendFetch, TypeOK
  <1>3. CASE SdSendCommit
    <2>1. PICK m \in 1..MaxMeta :
            /\ SendCommit(m)
            /\ queue' = Append(queue, [op |-> "journal", tx |-> cl.tx, df |-> cl.df,
                                       reqs |-> cl.reqs, data |-> cl.data, meta |-> m])
      BY <1>3 DEF SdSendCommit
    <2>2. cl.tx \in Tx /\ cl' \in Client /\ cl'.tx = cl.tx
      BY <2>1, Zenon DEF SendCommit, TypeOK, Client
    <2>3. [op |-> "journal", tx |-> cl.tx, df |-> cl.df, reqs |-> cl.reqs,
           data |-> cl.data, meta |-> m] \in CommitReq
      BY <2>2 DEF CommitReq, TypeOK, Client
    <2>4. queue' \in Seq(Job)
      BY <2>1, <2>3 DEF TypeOK, Job
    <2> QED
      BY <1>3, <2>2, <2>4 DEF SdSendCommit, TypeOK
  <1>4. CASE SdAnswered
    <2>1. cl' \in Client /\ cl.tx \in Tx /\ cl'.tx = cl.tx
      BY <1>4, Zenon DEF SdAnswered, Answered, TypeOK, Client
    <2> QED
      BY <1>4, <2>1 DEF SdAnswered, TypeOK
  <1>5. CASE SdFetchFailed
    <2>1. cl' \in Client /\ cl.tx \in Tx /\ cl'.tx = cl.tx
      BY <1>5, Zenon DEF SdFetchFailed, FetchFailed, TypeOK, Client
    <2> QED
      BY <1>5, <2>1 DEF SdFetchFailed, TypeOK
  <1> QED
    BY <1>1, <1>2, <1>3, <1>4, <1>5 DEF SdNext

(* persist_data() keeps the type.                                          *)
LEMMA TypeFetch == TypeInv /\ (PersistDataStart \/ PersistDataDone) => TypeInv'
  <1> SUFFICES ASSUME TypeInv, PersistDataStart \/ PersistDataDone PROVE TypeInv'
    OBVIOUS
  <1> USE DEF TypeInv
  <1>1. CASE PersistDataStart
    <2> DEFINE r == Head(queue)
    <2>1. queue # <<>> /\ queue \in Seq(Job) /\ r.op = "fetch"
      <3>1. queue # <<>> /\ r.op = "fetch"
        BY <1>1 DEF PersistDataStart
      <3> QED
        BY <3>1 DEF TypeOK
    <2>2. r \in FetchReq
      <3>1. r \in Job
        BY <2>1
      <3> QED
        BY <2>1, <3>1 DEF Job, CommitReq, IoJob
    <2>3. queue' \in Seq(Job)
      BY <1>1, <2>1 DEF PersistDataStart
    <2>4. r.tx \in Tx /\ r.df \in DF /\ r.req \in 0..MaxData /\ r.n \in 1..ChunkBlks
      BY <2>2 DEF FetchReq
    <2>5. fctx \in [DF -> FetchCtx] /\ fctx[r.df] \in FetchCtx
      BY <2>4 DEF TypeOK
    <2>6. log[r.df] \in Log /\ log[r.df].head \in Blk
      BY <2>4 DEF TypeOK, Log
    <2>7. [fctx[r.df] EXCEPT !.desc = log[r.df].head] \in FetchCtx
      BY <2>5, <2>6 DEF FetchCtx
    <2>8. fctx' \in [DF -> FetchCtx]
      <3>1. \/ fctx' = [fctx EXCEPT ![r.df].desc = log[r.df].head]
            \/ fctx' = fctx
        BY <1>1 DEF PersistDataStart
      <3> QED
        BY <2>4, <2>5, <2>7, <3>1, ExceptType
    <2>9. /\ fetching' \in SUBSET Fetch /\ dropped' \in SUBSET Response
          /\ failed' \in Failure /\ overrun' \in BOOLEAN
      <3> DEFINE start == DataStart(r.df, r.req)
      <3>1. CASE Dispatch(r, start)
        <4>1. fetching' \in SUBSET Fetch
          <5>1. CASE start <= Last
            <6>1. start \in Blk
              BY <2>4, <2>6, <5>1 DEF DataStart, Blk, Last
            <6>2. [tx |-> r.tx, df |-> r.df, req |-> r.req, n |-> r.n, start |-> start]
                    \in Fetch
              BY <2>4, <6>1 DEF Fetch
            <6> QED
              BY <3>1, <6>2 DEF Dispatch, TypeOK
          <5>2. CASE fetching' = fetching
            BY <5>2 DEF TypeOK
          <5> QED
            BY <3>1, <5>1, <5>2 DEF Dispatch
        <4>2. dropped' \in SUBSET Response
          <5>1. [tx |-> r.tx, ok |-> TRUE] \in Response
            BY <2>4 DEF Response
          <5>2. \/ dropped' = dropped \cup {[tx |-> r.tx, ok |-> TRUE]}
                \/ dropped' = dropped
            BY <3>1, Zenon DEF Dispatch
          <5> QED
            BY <5>1, <5>2, Zenon DEF TypeOK
        <4>3. failed' \in Failure
          BY <3>1 DEF Dispatch, TypeOK, Failure
        <4>4. overrun' \in BOOLEAN
          BY <3>1, Zenon DEF Dispatch, TypeOK
        <4> QED
          BY <4>1, <4>2, <4>3, <4>4
      <3> DEFINE NotReset == failed' = "reset" /\ UNCHANGED <<fetching, dropped, overrun>>
                 NotFetched == /\ dropped' = dropped \cup {[tx |-> r.tx, ok |-> FALSE]}
                               /\ UNCHANGED <<fetching, failed, overrun>>
      <3>2. CASE NotReset
        BY <3>2 DEF TypeOK, Failure
      <3>3. CASE NotFetched
        <4>1. [tx |-> r.tx, ok |-> FALSE] \in Response
          BY <2>4 DEF Response
        <4> QED
          BY <3>3, <4>1, Zenon DEF TypeOK
      <3>4. Dispatch(r, start) \/ NotReset \/ NotFetched
        BY <1>1, Zenon DEF PersistDataStart
      <3> HIDE DEF NotReset, NotFetched
      <3> QED
        BY <3>1, <3>2, <3>3, <3>4
    <2> QED
      BY <1>1, <2>3, <2>8, <2>9, Zenon DEF PersistDataStart, TypeOK
  <1>2. CASE PersistDataDone
    <2>1. PICK f \in fetching :
            /\ fetching' = fetching \ {f}
            /\ disk' = [disk EXCEPT ![f.df] =
                          WriteBlks(@, f.start, f.n, f.tx, f.req * ChunkBlks + 1)]
            /\ fctx' = [fctx EXCEPT ![f.df] = Counted(@, f.n)]
      BY <1>2, Zenon DEF PersistDataDone
    <2>2. f \in Fetch /\ fetching' \in SUBSET Fetch
      BY <2>1 DEF TypeOK
    <2>3. /\ f.df \in DF /\ f.start \in Int /\ f.n \in Nat /\ f.tx \in 0..MaxTx
          /\ f.req * ChunkBlks + 1 \in Nat
      BY <2>2 DEF Fetch, Tx, Blk
    <2>4. /\ disk \in [DF -> Image] /\ disk[f.df] \in Image
          /\ fctx \in [DF -> FetchCtx] /\ fctx[f.df] \in FetchCtx
      BY <2>3 DEF TypeOK
    <2>5. WriteBlks(disk[f.df], f.start, f.n, f.tx, f.req * ChunkBlks + 1) \in Image
      BY <2>3, <2>4, WriteBlksType, Zenon
    <2>6. disk' \in [DF -> Image]
      BY <2>1, <2>3, <2>4, <2>5, ExceptType
    <2>7. Counted(fctx[f.df], f.n) \in FetchCtx
      BY <2>3, <2>4, CountChunkType
    <2>8. fctx' \in [DF -> FetchCtx]
      BY <2>1, <2>3, <2>4, <2>7, ExceptType
    <2> QED
      BY <1>2, <2>2, <2>6, <2>8 DEF PersistDataDone, TypeOK
  <1> QED
    BY <1>1, <1>2

(* Locking a log and reserving space in it keep the type.                  *)
LEMMA TypeReserve ==
    ASSUME TypeInv, NEW d \in DF, LockLog(d) \/ Reserve(d)
    PROVE  TypeInv'
  <1> USE DEF TypeInv
  <1>1. cmt[d] \in Handler
    <2>1. cmt[d].pc \in {"lock", "wait"}
      BY DEF LockLog, Reserve
    <2>2. cmt[d] \in Handler \cup {NoHandler}
      BY DEF TypeOK
    <2> QED
      BY <2>1, <2>2 DEF NoHandler
  <1>2. cmt \in [DF -> Handler \cup {NoHandler}] /\ log \in [DF -> Log]
        /\ lock \in [DF -> Holder] /\ fctx \in [DF -> FetchCtx]
    BY DEF TypeOK
  <1>3. CASE LockLog(d)
    <2>1. [cmt[d] EXCEPT !.pc = "wait"] \in Handler
      BY <1>1 DEF Handler
    <2>2. cmt' \in [DF -> Handler \cup {NoHandler}]
      BY <1>2, <1>3, <2>1, ExceptType DEF LockLog
    <2>3. lock' \in [DF -> Holder]
      BY <1>2, <1>3 DEF LockLog, Holder
    <2> QED
      BY <1>3, <2>2, <2>3 DEF LockLog, TypeOK
  <1>4. CASE Reserve(d)
    <2>1. failed' \in Failure
      BY <1>4 DEF Reserve, ReserveFailure, Failure
    <2>2. CASE failed' # "no"
      BY <1>4, <2>1, <2>2 DEF Reserve, TypeOK
    <2>3. CASE failed' = "no"
      <3> DEFINE r == cmt[d].r
      <3>1. /\ log' = [log EXCEPT ![d] = Allocated(@, r)]
            /\ fctx' = IF r.reqs = 0 THEN [fctx EXCEPT ![d].desc = log[d].head] ELSE fctx
            /\ lock' = [lock EXCEPT ![d] = "free"]
            /\ cmt' = [cmt EXCEPT ![d] = Reserved(@, log[d])]
        BY <1>4, <2>3 DEF Reserve
      <3>2. r \in CommitReq
        BY <1>1 DEF Handler
      <3>3. log[d] \in Log /\ log[d].head \in Blk /\ fctx[d] \in FetchCtx
        BY <1>2 DEF Log
      <3>4. log' \in [DF -> Log]
        BY <1>2, <3>1, <3>2, <3>3, AllocatedType, ExceptType
      <3>5. [fctx[d] EXCEPT !.desc = log[d].head] \in FetchCtx
        BY <3>3 DEF FetchCtx
      <3>6. fctx' \in [DF -> FetchCtx]
        BY <1>2, <3>1, <3>5, ExceptType
      <3>7. lock' \in [DF -> Holder]
        BY <1>2, <3>1 DEF Holder
      <3>8. cmt' \in [DF -> Handler \cup {NoHandler}]
        BY <1>1, <1>2, <3>1, <3>3, ReservedType, ExceptType
      <3> QED
        BY <1>4, <2>1, <3>4, <3>6, <3>7, <3>8 DEF Reserve, TypeOK
    <2> QED
      BY <2>2, <2>3
  <1> QED
    BY <1>3, <1>4

(* Taking a commit request from the queue keeps the type.                  *)
LEMMA TypeTake == TypeInv /\ TakeJournal => TypeInv'
  <1> SUFFICES ASSUME TypeInv, TakeJournal PROVE TypeInv'
    OBVIOUS
  <1> USE DEF TypeInv
  <1> DEFINE r == Head(queue)
  <1>1. queue # <<>> /\ r.op = "journal"
    BY DEF TakeJournal
  <1>2. queue \in Seq(Job) /\ r \in Job
    <2>1. queue \in Seq(Job)
      BY DEF TypeOK
    <2> QED
      BY <1>1, <2>1
  <1>3. r \in CommitReq
    <2>1. r \notin FetchReq /\ r # IoJob
      BY <1>1 DEF FetchReq, IoJob
    <2> HIDE DEF r
    <2> QED
      BY <1>2, <2>1 DEF Job
  <1>4. r.df \in DF /\ 0 \in Blk
    BY <1>3 DEF CommitReq, Blk
  <1>5. [pc |-> "lock", r |-> r, start |-> 0, tail |-> 0] \in Handler
    BY <1>3, <1>4 DEF Handler
  <1>6. cmt' \in [DF -> Handler \cup {NoHandler}] /\ resp' \in SUBSET Response
    <2>1. cmt \in [DF -> Handler \cup {NoHandler}] /\ resp \in SUBSET Response
      BY DEF TypeOK
    <2> DEFINE Taken  == /\ cmt' = [cmt EXCEPT ![r.df] = [pc |-> "lock", r |-> r,
                                                          start |-> 0, tail |-> 0]]
                         /\ resp' = resp
               Failed == /\ resp' = resp \cup {[tx |-> r.tx, ok |-> FALSE]}
                         /\ cmt' = cmt
    <2>2. CASE Taken
      BY <1>4, <1>5, <2>1, <2>2, ExceptType
    <2>3. CASE Failed
      <3>1. [tx |-> r.tx, ok |-> FALSE] \in Response
        BY <1>3 DEF CommitReq, Response
      <3> QED
        BY <2>1, <2>3, <3>1, Zenon
    <2>4. Taken \/ Failed
      BY Zenon DEF TakeJournal
    <2> HIDE DEF Taken, Failed
    <2> QED
      BY <2>2, <2>3, <2>4
  <1>7. queue' \in Seq(Job)
    BY <1>1, <1>2 DEF TakeJournal
  <1> QED
    BY <1>6, <1>7 DEF TakeJournal, TypeOK

(* Writing the metadata blocks keeps the type.                             *)
LEMMA TypeWriteMeta ==
    ASSUME TypeInv, NEW d \in DF, WriteMeta(d)
    PROVE  TypeInv'
  <1> USE DEF TypeInv
  <1> DEFINE h == cmt[d]
  <1>1. h \in Handler
    <2>1. h.pc = "meta"
      BY DEF WriteMeta
    <2>2. h \in Handler \cup {NoHandler}
      BY DEF TypeOK
    <2> QED
      BY <2>1, <2>2 DEF NoHandler
  <1>2. /\ h.r.tx \in Tx /\ h.r.tx \in 0..MaxTx /\ h.r.meta \in Nat
        /\ h.r.data + 1 \in Nat /\ h.start \in Int
    BY <1>1 DEF Handler, CommitReq, Tx, Blk
  <1>3. disk \in [DF -> Image] /\ disk[d] \in Image /\ fctx[d].desc \in Int
    BY DEF TypeOK, FetchCtx, Blk, NoBlk
  <1>4. WriteBlks(WriteBlks(disk[d], h.start, h.r.meta, h.r.tx, h.r.data + 1),
                  fctx[d].desc, 1, h.r.tx, 0) \in Image
    BY <1>2, <1>3, WriteBlksType, Zenon
  <1>5. disk' \in [DF -> Image]
    BY <1>3, <1>4, ExceptType DEF WriteMeta
  <1>6. cmt' \in [DF -> Handler \cup {NoHandler}] /\ resp' \in SUBSET Response
    <2>1. cmt \in [DF -> Handler \cup {NoHandler}] /\ resp \in SUBSET Response
      BY DEF TypeOK
    <2>2. CASE cmt' = [cmt EXCEPT ![d].pc = "order"] /\ resp' = resp
      <3>1. [h EXCEPT !.pc = "order"] \in Handler
        BY <1>1 DEF Handler
      <3> QED
        BY <2>1, <2>2, <3>1, ExceptType
    <2>3. CASE /\ cmt' = [cmt EXCEPT ![d] = NoHandler]
               /\ resp' = resp \cup {[tx |-> h.r.tx, ok |-> FALSE]}
      <3>1. [tx |-> h.r.tx, ok |-> FALSE] \in Response
        BY <1>2 DEF Response
      <3> QED
        BY <2>1, <2>3, <3>1, ExceptType, Zenon
    <2> QED
      BY <2>2, <2>3 DEF WriteMeta
  <1> QED
    BY <1>5, <1>6 DEF WriteMeta, TypeOK

(* The commit section keeps the type.                                      *)
LEMMA TypeCommit ==
    ASSUME TypeInv, NEW d \in DF, Commit(d)
    PROVE  TypeInv'
  <1> USE DEF TypeInv
  <1> DEFINE h == cmt[d]
             t == h.r.tx
             e == [tx |-> t, df |-> d, start |-> fctx[d].desc, len |-> TxLen(h.r),
                   ready |-> FALSE]
  <1>1. h \in Handler
    <2>1. h # NoHandler
      <3>1. h.pc = "order"
        BY Zenon DEF Commit
      <3> QED
        BY <3>1 DEF NoHandler
    <2>2. h \in Handler \cup {NoHandler}
      BY DEF TypeOK
    <2> HIDE DEF h
    <2> QED
      BY <2>1, <2>2
  <1>2. h.r \in CommitReq /\ h.tail \in Blk /\ h.start \in Blk
    BY <1>1 DEF Handler
  <1>3. t \in Tx /\ h.r.data \in 0..MaxData /\ h.r.meta \in 1..MaxMeta
    BY <1>2 DEF CommitReq
  <1>4. t \in 0..MaxTx /\ t \in 1..(MaxTx + 1) /\ h.r.data + h.r.meta + 1 \in Nat
    BY <1>3 DEF Tx
  <1>5. sb' \in Super
    <2>1. sb \in Super /\ sb.tx_id \in 1..(MaxTx + 1)
      BY DEF TypeOK, Super
    <2>2. sb' = [tx_id |-> IF sb.tx_id = 0 THEN t ELSE sb.tx_id, start |-> <<d, h.tail>>]
      BY DEF Commit, Enqueue
    <2>3. (IF sb.tx_id = 0 THEN t ELSE sb.tx_id) \in 1..(MaxTx + 1)
      BY <1>4, <2>1
    <2>4. <<d, h.tail>> \in DF \X Blk
      BY <1>2
    <2> QED
      BY <2>2, <2>3, <2>4 DEF Super
  <1>6. disk' \in [DF -> Image]
    <2>1. disk \in [DF -> Image] /\ disk[d] \in Image
      BY DEF TypeOK
    <2>2. (h.start + h.r.meta) % LogSize \in Int
      <3>1. h.start + h.r.meta \in Int /\ LogSize > 0
        BY <1>2, <1>3 DEF Blk
      <3> HIDE DEF h, TypeInv
      <3> QED
        BY <3>1
    <2>3. WriteBlks(disk[d], (h.start + h.r.meta) % LogSize, 1, t,
                    h.r.data + h.r.meta + 1) \in Image
      BY <1>4, <2>1, <2>2, WriteBlksType, Zenon
    <2>4. disk' = [disk EXCEPT ![d] =
                     WriteBlks(@, (h.start + h.r.meta) % LogSize, 1, t,
                               h.r.data + h.r.meta + 1)]
      BY Zenon DEF Commit
    <2> HIDE DEF h, t
    <2> QED
      BY <2>1, <2>3, <2>4, ExceptType
  <1>7. ckptList' \in Seq(Entry)
    <2>1. fctx[d].desc \in Blk \cup {NoBlk}
      BY DEF TypeOK, FetchCtx
    <2>2. TxLen(h.r) \in 1..LogSize
      BY <1>3 DEF TxLen
    <2>3. e \in Entry
      BY <1>3, <2>1, <2>2 DEF Entry
    <2>4. ckptList' = Append(ckptList, e) /\ ckptList \in Seq(Entry)
      BY DEF Commit, Enqueue, TypeOK
    <2> QED
      BY <2>3, <2>4
  <1>8. fctx' \in [DF -> FetchCtx]
    <2>1. EmptyCtx \in FetchCtx
      BY DEF EmptyCtx, FetchCtx
    <2>2. fctx \in [DF -> FetchCtx]
      BY DEF TypeOK
    <2>3. fctx' = [fctx EXCEPT ![d] = EmptyCtx]
      BY Zenon DEF Commit
    <2> QED
      BY <2>1, <2>2, <2>3, ExceptType
  <1>9. prepq' \in Seq(Tx) /\ seqn' \in 0..MaxTx
    <2>1. prepq \in Seq(Tx) /\ prepq' = Append(prepq, t) /\ seqn' = t
      BY Zenon DEF Commit, Enqueue, TypeOK
    <2>2. t \in Tx /\ t \in 0..MaxTx
      BY <1>3, <1>4
    <2> HIDE DEF t, TypeInv
    <2> QED
      BY <2>1, <2>2
  <1>10. resp' \in SUBSET Response
    <2>1. [tx |-> t, ok |-> TRUE] \in Response
      BY <1>3 DEF Response
    <2>2. resp' = resp \cup {[tx |-> t, ok |-> TRUE]} /\ resp \in SUBSET Response
      BY DEF Commit, Enqueue, TypeOK
    <2> QED
      BY <2>1, <2>2, Zenon
  <1>11. cmt' \in [DF -> Handler \cup {NoHandler}]
    BY ExceptType DEF Commit, Enqueue, TypeOK
  <1> QED
    BY <1>5, <1>6, <1>7, <1>8, <1>9, <1>10, <1>11, Zenon DEF Commit, Enqueue, TypeOK

(* prepare_ckpt() keeps the type.                                          *)
LEMMA TypePrepare == TypeInv /\ Prepare => TypeInv'
  <1> SUFFICES ASSUME TypeInv, Prepare PROVE TypeInv'
    OBVIOUS
  <1> USE DEF TypeInv
  <1>1. PICK i \in DOMAIN ckptList :
          /\ ckptList' = [ckptList EXCEPT ![i].ready = TRUE]
          /\ failed' = "trigger" \/ UNCHANGED failed
    BY Zenon DEF Prepare, MarkReady
  <1>2. ckptList \in Seq(Entry) /\ ckptList[i] \in Entry
    <2>1. ckptList \in Seq(Entry)
      BY DEF TypeOK
    <2> HIDE DEF TypeInv
    <2> QED
      BY <2>1
  <1>3. [ckptList[i] EXCEPT !.ready = TRUE] \in Entry
    BY <1>2, Zenon DEF Entry
  <1>4. ckptList' \in Seq(Entry)
    BY <1>1, <1>2, <1>3
  <1>5. failed' \in Failure
    BY <1>1 DEF TypeOK, Failure
  <1>6. prepq' \in Seq(Tx)
    <2>1. prepq # <<>> /\ prepq' = Tail(prepq)
      BY DEF Prepare, MarkReady
    <2> QED
      BY <2>1 DEF TypeOK
  <1> QED
    BY <1>4, <1>5, <1>6, Zenon DEF Prepare, MarkReady, TypeOK

(* The checkpoint, its signal and its I/O jobs keep the type.              *)
LEMMA TypeCkpt == TypeInv /\ (Signal \/ CkptNext \/ RunIoJob) => TypeInv'
  <1> SUFFICES ASSUME TypeInv, Signal \/ CkptNext \/ RunIoJob PROVE TypeInv'
    OBVIOUS
  <1> USE DEF TypeInv
  <1>1. ck \in Ckpt /\ ck.e \in Entry \cup {NoEntry} /\ queue \in Seq(Job)
    BY DEF TypeOK, Ckpt
  <1>2. Append(queue, IoJob) \in Seq(Job)
    BY <1>1 DEF Job
  <1>3. ASSUME NEW p \in {"idle", "loop", "copied", "free", "sync", "synced"}
        PROVE [ck EXCEPT !.pc = p] \in Ckpt /\ [ck EXCEPT !.pc = p].e = ck.e
    BY <1>1, Zenon DEF Ckpt
  <1>4. CASE Signal
    BY <1>4 DEF Signal, TypeOK
  <1>5. CASE CkptStart
    BY <1>3, <1>5 DEF CkptStart, TypeOK, Ckpt
  <1>6. CASE CkptEnd
    BY <1>3, <1>6, Zenon DEF CkptEnd, TypeOK, Ckpt
  <1>7. CASE CkptDequeue
    <2>1. ckptList # <<>> /\ ckptList \in Seq(Entry)
      BY <1>7 DEF CkptDequeue, TypeOK
    <2>2. Head(ckptList) \in Entry /\ Tail(ckptList) \in Seq(Entry)
      BY <2>1
    <2>3. ck' = [pc |-> "copy", e |-> Head(ckptList)]
      BY <1>7 DEF CkptDequeue
    <2>4. ck' \in Ckpt /\ ck'.e \in Entry
      BY <2>2, <2>3 DEF Ckpt
    <2> QED
      BY <1>2, <1>7, <2>2, <2>4 DEF CkptDequeue, TypeOK
  <1>8. CASE CkptTxId
    <2>1. ck.e \in Entry
      BY <1>8 DEF CkptTxId
    <2>2. ck.e.tx + 1 \in 1..(MaxTx + 1)
      BY <2>1 DEF Entry, Tx
    <2>3. sb' \in Super
      <3>1. sb \in Super /\ sb' = [sb EXCEPT !.tx_id = ck.e.tx + 1]
        BY <1>8 DEF CkptTxId, TypeOK
      <3>2. ASSUME NEW x \in 1..(MaxTx + 1) PROVE [sb EXCEPT !.tx_id = x] \in Super
        BY <3>1 DEF Super
      <3> QED
        BY <2>2, <3>1, <3>2
    <2>4. ck' \in Ckpt /\ ck'.e = ck.e
      BY <1>3, <1>8, Zenon DEF CkptTxId, TypeOK
    <2>5. failed' \in Failure
      BY <1>8 DEF CkptTxId, TypeOK, Failure
    <2> QED
      BY <1>8, <2>1, <2>3, <2>4, <2>5 DEF CkptTxId, TypeOK
  <1>9. CASE FreeJournalSpace
    <2> DEFINE d == ck.e.df
    <2>1. ck.e \in Entry
      BY <1>9 DEF FreeJournalSpace
    <2>2. d \in DF /\ ck.e.len \in 0..LogSize
      BY <2>1 DEF Entry
    <2>3. log \in [DF -> Log] /\ log' = [log EXCEPT ![d] = Released(@, ck.e.len)]
      BY <1>9 DEF FreeJournalSpace, TypeOK
    <2>4. log' \in [DF -> Log]
      BY <2>2, <2>3, ReleasedType, ExceptType
    <2>5. sb' \in Super
      <3>1. sb \in Super /\ sb' = [sb EXCEPT !.start = <<d, log'[d].tail>>]
        BY <1>9 DEF FreeJournalSpace, TypeOK
      <3>2. <<d, log'[d].tail>> \in DF \X Blk
        BY <2>2, <2>4 DEF Log
      <3>3. ASSUME NEW x \in DF \X Blk PROVE [sb EXCEPT !.start = x] \in Super
        BY <3>1 DEF Super
      <3> QED
        BY <3>1, <3>2, <3>3
    <2>6. lock' \in [DF -> Holder]
      BY <1>9, <2>2 DEF FreeJournalSpace, TypeOK, Holder
    <2>7. ck' \in Ckpt /\ ck'.e = ck.e
      BY <1>3, <1>9 DEF FreeJournalSpace
    <2> QED
      BY <1>2, <1>9, <2>1, <2>4, <2>5, <2>6, <2>7 DEF FreeJournalSpace, TypeOK
  <1>10. CASE UnlockFreed
    <2>1. ck.e \in Entry
      BY <1>10 DEF UnlockFreed
    <2>2. lock' \in [DF -> Holder]
      BY <1>10, <2>1, Zenon DEF UnlockFreed, TypeOK, Holder, Entry
    <2>3. ck' = [pc |-> "loop", e |-> NoEntry]
      BY <1>10 DEF UnlockFreed
    <2>4. ck' \in Ckpt /\ ck'.pc = "loop"
      BY <2>3 DEF Ckpt
    <2> QED
      BY <1>10, <2>2, <2>4 DEF UnlockFreed, TypeOK
  <1>11. CASE RunIoJob
    <2>1. queue' \in Seq(Job)
      BY <1>1, <1>11 DEF RunIoJob, RunIo
    <2>2. ck.e.tx \in 0..MaxTx
      <3>1. CASE ck.e = NoEntry
        BY <3>1 DEF NoEntry
      <3>2. CASE ck.e \in Entry
        BY <3>2 DEF Entry, Tx
      <3> QED
        BY <1>1, <3>1, <3>2
    <2>3. fsTx' \in 0..MaxTx /\ dsb' \in Super
      <3>1. fsTx' = ck.e.tx \/ fsTx' = fsTx
        BY <1>11, Zenon DEF RunIoJob, RunIo
      <3>2. dsb' = sb \/ dsb' = dsb
        BY <1>11, Zenon DEF RunIoJob, RunIo
      <3>3. fsTx \in 0..MaxTx /\ sb \in Super /\ dsb \in Super
        BY DEF TypeOK
      <3> QED
        BY <2>2, <3>1, <3>2, <3>3
    <2>4. ck' \in Ckpt /\ ck'.e = ck.e
      BY <1>3, <1>11, Zenon DEF RunIoJob, RunIo
    <2>5. ck.e \in Entry
      BY <1>11 DEF RunIoJob, RunIo
    <2> QED
      BY <1>11, <2>1, <2>3, <2>4, <2>5 DEF RunIoJob, RunIo, TypeOK
  <1> QED
    BY <1>4, <1>5, <1>6, <1>7, <1>8, <1>9, <1>10, <1>11 DEF CkptNext

(* Stuttering keeps the type.                                              *)
LEMMA TypeStutter == TypeInv /\ UNCHANGED vars => TypeInv'
  BY DEF TypeInv, TypeOK, vars, devVars

(* Type correctness: no step of the daemon, the workers, the prepare       *)
(* thread or the checkpoint takes a log pointer, a counter or a queue out  *)
(* of its range, whatever the sizes.                                       *)
THEOREM TypeCorrect == Spec => []TypeOK
  <1>1. Init => TypeInv
    BY TypeInit
  <1>2. TypeInv /\ [Next]_vars => TypeInv'
    BY TypeSd, TypeFetch, TypeTake, TypeReserve, TypeWriteMeta, TypeCommit,
       TypePrepare, TypeCkpt, TypeStutter DEF Next, CommitNext, Stopped
  <1>3. TypeInv => TypeOK
    BY DEF TypeInv
  <1> QED
    BY <1>1, <1>2, <1>3, PTL DEF Spec
=============================================================================
