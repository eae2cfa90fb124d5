----------------------------- MODULE DevfsJournal -----------------------------
(***************************************************************************)
(* DevFS background journaling (devfs/src/journal.c, msg_handler.c, msg.c, *)
(* devfs.c): the two circular logs, the RPC worker threads that persist    *)
(* data chunks and commit transactions, the prepare thread, and the main   *)
(* thread that checkpoints on a signal.                                    *)
(*                                                                         *)
(* Block addresses are offsets from the first block of a log.  A block of  *)
(* a log holds <<t, k>>, the k-th block of transaction t in the layout     *)
(*   desc | data ... | etag and stage trace ... | super | commit           *)
(***************************************************************************)
EXTENDS JournalClient, Integers

CONSTANTS LogSize,   \* half_log_size: blocks of one log
          Workers,   \* rpc_thread_num: threads shared by RPC handlers and I/O jobs
          Trigger,   \* CKPT_THRESHOLD_FREE_TRIGGER, in percent
          Word       \* width of n_free_blks, an unsigned counter

ASSUME DevfsAssumption ==
    /\ LogSize \in Nat
    /\ MaxData + MaxMeta + 2 <= LogSize   \* a transaction is no longer than a log
    /\ ChunkBlks <= LogSize
    /\ Workers \in Nat \ {0}
    /\ Trigger \in 0..100
    /\ Word \in Nat
    /\ LogSize < Word

VARIABLES
    queue,      \* the job queue of worker_thpool
    fetching,   \* chunks whose I/O is in flight in handle_fetch_data()
    cmt,        \* cmt[d]: the handle_journal() call running for log d
    resp,       \* commit responses on their way to the daemon
    log,        \* g_journal_ctx.logs: head, tail and n_free_blks
    lock,       \* holder of logs[d].lock
    fctx,       \* g_fetch_ctx
    seqn,       \* g_tx_seqn
    sb,         \* the in-memory journal superblock
    dsb,        \* the journal superblock on the device
    disk,       \* contents of the blocks of the logs
    ckptList,   \* g_ckpt_list
    prepq,      \* the job queue of ckpt_prepare_thpool: transaction ids
    flag,       \* flag_ckpt
    ck,         \* the main thread in start_checkpoint()
    fsTx,       \* the last transaction applied to the file system area
    failed,     \* the assertion that stopped DevFS, or "no"
    overrun,    \* history: data went past the free space of a log
    dropped     \* fetch requests answered, with ok or an error, but not written

devVars == <<queue, fetching, cmt, resp, log, lock, fctx, seqn, sb, dsb, disk,
             ckptList, prepq, flag, ck, fsTx, failed, overrun, dropped>>
vars == <<cl, devVars>>

Blk  == 0..(LogSize - 1)
Last == LogSize - 1
Tx   == 1..MaxTx
NoBlk == -1          \* desc_blk_baddr = 0: no descriptor block yet

FetchReq  == [op : {"fetch"}, tx : Tx, df : DF, req : 0..MaxData, n : 1..ChunkBlks]
CommitReq == [op : {"journal"}, tx : Tx, df : DF, reqs : 0..MaxData,
              data : 0..MaxData, meta : 1..MaxMeta]
IoJob     == [op |-> "io"]
Fetch     == [tx : Tx, df : DF, req : 0..MaxData, n : 1..ChunkBlks, start : Blk]
Handler   == [pc : {"lock", "wait", "meta", "order"}, r : CommitReq,
              start : Blk, tail : Blk]
Entry     == [tx : Tx, df : DF, start : Blk \cup {NoBlk}, len : 1..LogSize,
              ready : BOOLEAN]
NoHandler == [pc |-> "none"]
NoEntry   == [tx |-> 0]
Job       == FetchReq \cup CommitReq \cup {IoJob}
Response  == [tx : Tx, ok : BOOLEAN]
Log       == [head : Blk, tail : Blk, free : 0..(Word - 1)]
FetchCtx  == [cnt : Nat, desc : Blk \cup {NoBlk}, total : Nat]
Super     == [tx_id : 1..(MaxTx + 1), start : {<<>>} \cup (DF \X Blk)]
Image     == [Blk -> (0..MaxTx) \X Nat]
Ckpt      == [pc : {"idle", "loop", "copy", "copied", "free", "sync", "synced"},
              e : Entry \cup {NoEntry}]
Failure   == {"no", "reset", "total", "size", "tail", "chunk", "space", "trigger"}
Holder    == {"free", "commit", "ckpt"}

(* Blocks of transaction r in its log: descriptor, data, the metadata      *)
(* buffer without its descriptor, superblock and commit block.             *)
TxLen(r) == r.data + r.meta + 2

EmptyCtx == [cnt |-> 0, desc |-> NoBlk, total |-> 0]

-----------------------------------------------------------------------------
(* Circular log arithmetic.                                                *)

(* The head and tail update of alloc_journal_space(), update_log_state()   *)
(* and free_journal_space().                                               *)
Advance(pos, n) ==
    IF pos + n > Last THEN n - (Last - pos + 1) ELSE pos + n

(* get_chunck_start() and the step over the descriptor block in            *)
(* persist_data(): the address does not wrap.                              *)
DataStart(d, req) == log[d].head + req * ChunkBlks + 1

(* Mutant: blocks past the end of the log are not written at its start.    *)
WriteNoWrap(img, start, n, t, k) ==
    [b \in Blk |-> IF b \in start..(start + n - 1) THEN <<t, k + (b - start)>>
                                                  ELSE img[b]]

(* n blocks of transaction t, from its k-th one on, written at start by    *)
(* the bio helpers that split at the end of the log.                       *)
WriteBlks(img, start, n, t, k) ==
    [b \in Blk |-> IF (b - start) % LogSize < n
                     THEN <<t, k + ((b - start) % LogSize)>>
                     ELSE img[b]]

(* journal_free_percent(); once n_free_blks has wrapped below zero the     *)
(* product overflows and its conversion to int can be anything.            *)
FreePercent(d) == (log[d].free * 100) \div LogSize
MayBeBelow(d, p)   == log[d].free > LogSize \/ FreePercent(d) < p
MayBeAtLeast(d, p) == log[d].free > LogSize \/ FreePercent(d) >= p

(* Space of log d that is free and recorded as free on the device.         *)
Avail(d) == log[d].free - (IF ck.pc = "sync" /\ ck.e.df = d THEN ck.e.len ELSE 0)

Busy == Cardinality(fetching) + Cardinality({d \in DF : cmt[d].pc # "none"})
IdleWorker == Busy < Workers
Alive == failed = "no"

-----------------------------------------------------------------------------
Init ==
    /\ ClientInit
    /\ queue = <<>>
    /\ fetching = {}
    /\ cmt = [d \in DF |-> NoHandler]
    /\ resp = {}
    /\ log = [d \in DF |-> [head |-> 0, tail |-> 0, free |-> LogSize]]
    /\ lock = [d \in DF |-> "free"]
    /\ fctx = [d \in DF |-> EmptyCtx]
    /\ seqn = 0
    /\ sb = [tx_id |-> 1, start |-> <<>>]
    /\ dsb = sb
    /\ disk = [d \in DF |-> [b \in Blk |-> <<0, 0>>]]
    /\ ckptList = <<>>
    /\ prepq = <<>>
    /\ flag = FALSE
    /\ ck = [pc |-> "idle", e |-> NoEntry]
    /\ fsTx = 0
    /\ failed = "no"
    /\ overrun = FALSE
    /\ dropped = {}

-----------------------------------------------------------------------------
(* Requests and responses: the daemon's side of the protocol.              *)

SdBegin ==
    /\ \E d \in DF : Begin(d)
    /\ UNCHANGED <<queue, fetching, cmt, resp, log, lock, fctx, seqn, sb, dsb, disk,
                   ckptList, prepq, flag, ck, fsTx, failed, overrun, dropped>>

SdSendFetch ==
    \E n \in 1..ChunkBlks :
        /\ SendFetch(n)
        /\ queue' = Append(queue, [op |-> "fetch", tx |-> cl.tx, df |-> cl.df,
                                   req |-> cl.reqs, n |-> n])
        /\ UNCHANGED <<fetching, cmt, resp, log, lock, fctx, seqn, sb, dsb, disk,
                       ckptList, prepq, flag, ck, fsTx, failed, overrun, dropped>>

SdSendCommit ==
    \E m \in 1..MaxMeta :
        /\ SendCommit(m)
        /\ queue' = Append(queue, [op |-> "journal", tx |-> cl.tx, df |-> cl.df,
                                   reqs |-> cl.reqs, data |-> cl.data, meta |-> m])
        /\ UNCHANGED <<fetching, cmt, resp, log, lock, fctx, seqn, sb, dsb, disk,
                       ckptList, prepq, flag, ck, fsTx, failed, overrun, dropped>>

SdAnswered ==
    \E r \in resp :
        /\ r.tx = cl.tx
        /\ Answered(r.ok)
        /\ resp' = resp \ {r}
        /\ UNCHANGED <<queue, fetching, cmt, log, lock, fctx, seqn, sb, dsb, disk,
                       ckptList, prepq, flag, ck, fsTx, failed, overrun, dropped>>

SdFetchFailed ==
    /\ \E r \in dropped : r.tx = cl.tx /\ ~r.ok
    /\ FetchFailed
    /\ UNCHANGED <<queue, fetching, cmt, resp, log, lock, fctx, seqn, sb, dsb, disk,
                   ckptList, prepq, flag, ck, fsTx, failed, overrun, dropped>>

-----------------------------------------------------------------------------
(* handle_fetch_data() and persist_data().                                 *)

(* The dispatch of the bios of a chunk.  One that starts one block past    *)
(* the end of the log leaves the first bio list empty: the dispatch        *)
(* returns 0, persist_data() jumps to its end with ret = 0 and the request *)
(* is answered without being written or counted.  One that starts further  *)
(* out makes n_blks1 wrap below zero and trips the single-bio assertion of *)
(* the storage engine.                                                     *)
Dispatch(r, start) ==
    \/ /\ start <= Last
       /\ fetching' = fetching \cup {[tx |-> r.tx, df |-> r.df, req |-> r.req,
                                     n |-> r.n, start |-> start]}
       /\ overrun' = (overrun \/ r.req * ChunkBlks + r.n + 1 > Avail(r.df))
       /\ UNCHANGED <<failed, dropped>>
    \/ /\ start = Last + 1
       /\ dropped' = dropped \cup {[tx |-> r.tx, ok |-> TRUE]}
       /\ UNCHANGED <<fetching, failed, overrun>>
    \/ /\ start > Last + 1
       /\ failed' = "chunk"
       /\ UNCHANGED <<fetching, dropped, overrun>>

(* The first half, up to the wait for the I/O; or the data fetcher fails   *)
(* and the request is answered with an error.                              *)
PersistDataStart ==
    /\ Alive
    /\ IdleWorker
    /\ queue # <<>>
    /\ Head(queue).op = "fetch"
    /\ queue' = Tail(queue)
    /\ LET r == Head(queue)
       IN  \/ /\ dropped' = dropped \cup {[tx |-> r.tx, ok |-> FALSE]}
              /\ UNCHANGED <<fctx, fetching, failed, overrun>>
           \/ /\ r.req = 0 /\ fctx[r.df].desc # NoBlk
              /\ failed' = "reset"
              /\ UNCHANGED <<fctx, fetching, dropped, overrun>>
           \/ /\ r.req = 0 => fctx[r.df].desc = NoBlk
              /\ fctx' = IF r.req = 0
                           THEN [fctx EXCEPT ![r.df].desc = log[r.df].head]
                           ELSE fctx
              /\ Dispatch(r, DataStart(r.df, r.req))
    /\ UNCHANGED <<cl, cmt, resp, log, lock, seqn, sb, dsb, disk, ckptList, prepq,
                   flag, ck, fsTx>>

(* Mutant: every chunk counts as a full one.                               *)
CountedFull(c, n) == [c EXCEPT !.total = @ + ChunkBlks, !.cnt = @ + 1]

Counted(c, n) == [c EXCEPT !.total = @ + n, !.cnt = @ + 1]

(* Mutant: the chunk is counted without waiting for its I/O.               *)
PersistDataEarly ==
    /\ Alive
    /\ \E f \in fetching : fctx' = [fctx EXCEPT ![f.df] = Counted(@, f.n)]
    /\ UNCHANGED <<cl, queue, fetching, cmt, resp, log, lock, seqn, sb, dsb, disk,
                   ckptList, prepq, flag, ck, fsTx, failed, overrun, dropped>>

(* The second half: the I/O is complete, the chunk is counted and the      *)
(* commit thread is woken.                                                 *)
PersistDataDone ==
    /\ Alive
    /\ \E f \in fetching :
          /\ fetching' = fetching \ {f}
          /\ disk' = [disk EXCEPT ![f.df] =
                        WriteBlks(@, f.start, f.n, f.tx, f.req * ChunkBlks + 1)]
          /\ fctx' = [fctx EXCEPT ![f.df] = Counted(@, f.n)]
    /\ UNCHANGED <<cl, queue, cmt, resp, log, lock, seqn, sb, dsb, ckptList, prepq,
                   flag, ck, fsTx, failed, overrun, dropped>>

-----------------------------------------------------------------------------
(* handle_journal() and persist_meta_and_commit().                         *)

(* The metadata buffer is fetched; when that fails the handler returns.    *)
TakeJournal ==
    /\ Alive
    /\ IdleWorker
    /\ queue # <<>>
    /\ Head(queue).op = "journal"
    /\ LET r == Head(queue)
       IN  \/ /\ cmt' = [cmt EXCEPT ![r.df] = [pc |-> "lock", r |-> r,
                                               start |-> 0, tail |-> 0]]
              /\ UNCHANGED resp
           \/ /\ resp' = resp \cup {[tx |-> r.tx, ok |-> FALSE]}
              /\ UNCHANGED cmt
    /\ queue' = Tail(queue)
    /\ UNCHANGED <<cl, fetching, log, lock, fctx, seqn, sb, dsb, disk,
                   ckptList, prepq, flag, ck, fsTx, failed, overrun, dropped>>

LockLog(d) ==
    /\ Alive
    /\ cmt[d].pc = "lock"
    /\ lock[d] = "free"
    /\ lock' = [lock EXCEPT ![d] = "commit"]
    /\ cmt' = [cmt EXCEPT ![d].pc = "wait"]
    /\ UNCHANGED <<cl, queue, fetching, resp, log, fctx, seqn, sb, dsb, disk,
                   ckptList, prepq, flag, ck, fsTx, failed, overrun, dropped>>

(* The waiting loop of wait_for_all_persist_data_completion(); a           *)
(* transaction without data does not wait.                                 *)
DataPersisted(d) == cmt[d].r.reqs = 0 \/ fctx[d].cnt = cmt[d].r.reqs

(* The assertions on the fetch context, and the free-space checks of the   *)
(* two calls of alloc_journal_space(); the data blocks are not checked.    *)
ReserveFailure(d) ==
    LET r    == cmt[d].r
        left == (log[d].free - (r.data + 1)) % Word
    IN  CASE r.reqs = 0 /\ r.data # 0              -> "size"
          [] r.reqs = 0 /\ log[d].free < 1         -> "space"
          [] r.reqs = 0 /\ fctx[d] # EmptyCtx      -> "reset"
          [] r.reqs # 0 /\ fctx[d].total # r.data  -> "total"
          [] OTHER -> IF left < r.meta + 1 THEN "space" ELSE "no"

(* Mutant: the commit block is not taken from n_free_blks.                 *)
AllocatedShort(l, r) == [l EXCEPT !.head = Advance(l.head, TxLen(r)),
                                  !.free = (@ - (TxLen(r) - 1)) % Word]

(* Log l after the descriptor and data blocks of r, and then its metadata, *)
(* super and commit blocks, are taken from it; and the handler that keeps  *)
(* where the metadata starts and the tail.                                 *)
MetaStart(l, r) == Advance(l.head, r.data + 1)
Allocated(l, r) == [l EXCEPT !.head = Advance(MetaStart(l, r), r.meta + 1),
                             !.free = (@ - TxLen(r)) % Word]
Reserved(h, l)  == [h EXCEPT !.pc = "meta", !.start = MetaStart(l, h.r),
                             !.tail = l.tail]

(* Everything between the lock and the unlock of the log.                  *)
Reserve(d) ==
    /\ Alive
    /\ cmt[d].pc = "wait"
    /\ DataPersisted(d)
    /\ failed' = ReserveFailure(d)
    /\ IF failed' # "no"
         THEN UNCHANGED <<cmt, log, lock, fctx>>
         ELSE LET r == cmt[d].r
              IN  /\ log' = [log EXCEPT ![d] = Allocated(@, r)]
                  /\ fctx' = IF r.reqs = 0
                               THEN [fctx EXCEPT ![d].desc = log[d].head]
                               ELSE fctx
                  /\ lock' = [lock EXCEPT ![d] = "free"]
                  /\ cmt' = [cmt EXCEPT ![d] = Reserved(@, log[d])]
    /\ UNCHANGED <<cl, queue, fetching, resp, seqn, sb, dsb, disk, ckptList,
                   prepq, flag, ck, fsTx, overrun, dropped>>

(* Write the metadata, superblock and descriptor blocks, and allocate the  *)
(* checkpoint entry.  When that fails the handler returns -1 at once.      *)
WriteMeta(d) ==
    /\ Alive
    /\ cmt[d].pc = "meta"
    /\ LET h == cmt[d]
       IN  /\ disk' = [disk EXCEPT ![d] =
                         WriteBlks(WriteBlks(@, h.start, h.r.meta, h.r.tx, h.r.data + 1),
                                   fctx[d].desc, 1, h.r.tx, 0)]
           /\ \/ /\ cmt' = [cmt EXCEPT ![d].pc = "order"]
                 /\ UNCHANGED resp
              \/ /\ cmt' = [cmt EXCEPT ![d] = NoHandler]
                 /\ resp' = resp \cup {[tx |-> h.r.tx, ok |-> FALSE]}
    /\ UNCHANGED <<cl, queue, fetching, log, lock, fctx, seqn, sb, dsb, ckptList,
                   prepq, flag, ck, fsTx, failed, overrun, dropped>>

MyTurn(t) == seqn = 0 \/ t = seqn + 1

(* Mutant: list_add() for list_add_tail().                                 *)
PushFront(list, e) == <<e>> \o list

Enqueue(list, e) == Append(list, e)

(* The section under g_tx_seqn_mutex, and the response.                    *)

Commit(d) ==
    /\ Alive
    /\ cmt[d].pc = "order"
    /\ LET h == cmt[d]
           t == h.r.tx
       IN  /\ MyTurn(t)
           /\ sb' = [tx_id |-> IF sb.tx_id = 0 THEN t ELSE sb.tx_id,
                     start |-> <<d, h.tail>>]
           /\ disk' = [disk EXCEPT ![d] =
                         WriteBlks(@, (h.start + h.r.meta) % LogSize, 1, t,
                                   h.r.data + h.r.meta + 1)]
           /\ ckptList' = Enqueue(ckptList, [tx |-> t, df |-> d,
                                             start |-> fctx[d].desc,
                                             len |-> TxLen(h.r), ready |-> FALSE])
           /\ fctx' = [fctx EXCEPT ![d] = EmptyCtx]
           /\ prepq' = Append(prepq, t)
           /\ seqn' = t
           /\ resp' = resp \cup {[tx |-> t, ok |-> TRUE]}
           /\ cmt' = [cmt EXCEPT ![d] = NoHandler]
    /\ UNCHANGED <<cl, queue, fetching, log, lock, dsb, flag, ck, fsTx, failed,
                   overrun, dropped>>

-----------------------------------------------------------------------------

MarkReady(list, i) == [list EXCEPT ![i].ready = TRUE]

(* prepare_ckpt(), in the single thread of ckpt_prepare_thpool.            *)
Prepare ==
    /\ Alive
    /\ prepq # <<>>
    /\ \E i \in DOMAIN ckptList :
          /\ ckptList[i].tx = Head(prepq)
          /\ ckptList' = MarkReady(ckptList, i)
          /\ \/ /\ MayBeBelow(ckptList[i].df, Trigger)
                /\ failed' = "trigger"
             \/ /\ MayBeAtLeast(ckptList[i].df, Trigger)
                /\ UNCHANGED failed
    /\ prepq' = Tail(prepq)
    /\ UNCHANGED <<cl, queue, fetching, cmt, resp, log, lock, fctx, seqn, sb, dsb,
                   disk, flag, ck, fsTx, overrun, dropped>>

-----------------------------------------------------------------------------
(* The checkpoint signal and start_checkpoint(100) in the main thread.     *)
(* The thread does its I/O through jobs of the RPC worker threads.         *)

Signal ==
    /\ Alive
    /\ ~flag
    /\ flag' = TRUE
    /\ UNCHANGED <<cl, queue, fetching, cmt, resp, log, lock, fctx, seqn, sb, dsb,
                   disk, ckptList, prepq, ck, fsTx, failed, overrun, dropped>>

CkptStart ==
    /\ Alive
    /\ ck.pc = "idle"
    /\ flag
    /\ ck' = [ck EXCEPT !.pc = "loop"]
    /\ UNCHANGED <<cl, queue, fetching, cmt, resp, log, lock, fctx, seqn, sb, dsb,
                   disk, ckptList, prepq, flag, fsTx, failed, overrun, dropped>>

CkptEnd ==
    /\ Alive
    /\ ck.pc = "loop"
    /\ \A d \in DF : MayBeAtLeast(d, 100)
    /\ ck' = [ck EXCEPT !.pc = "idle"]
    /\ flag' = FALSE
    /\ UNCHANGED <<cl, queue, fetching, cmt, resp, log, lock, fctx, seqn, sb, dsb,
                   disk, ckptList, prepq, fsTx, failed, overrun, dropped>>

(* ckpt_list_dequeue(), and the submission of the copy to the file system  *)
(* area.                                                                   *)
CkptDequeue ==
    /\ Alive
    /\ ck.pc = "loop"
    /\ \E d \in DF : MayBeBelow(d, 100)
    /\ ckptList # <<>>
    /\ Head(ckptList).ready
    /\ ck' = [pc |-> "copy", e |-> Head(ckptList)]
    /\ ckptList' = Tail(ckptList)
    /\ queue' = Append(queue, IoJob)
    /\ UNCHANGED <<cl, fetching, cmt, resp, log, lock, fctx, seqn, sb, dsb, disk,
                   prepq, flag, fsTx, failed, overrun, dropped>>

(* A worker runs the I/O job of the checkpoint: the copy of transaction t, *)
(* or the flush of the superblock.                                         *)
RunIo(t) ==
    /\ Alive
    /\ IdleWorker
    /\ queue # <<>>
    /\ Head(queue).op = "io"
    /\ queue' = Tail(queue)
    /\ \/ /\ ck.pc = "copy"
          /\ fsTx' = t
          /\ ck' = [ck EXCEPT !.pc = "copied"]
          /\ UNCHANGED dsb
       \/ /\ ck.pc = "sync"
          /\ dsb' = sb
          /\ ck' = [ck EXCEPT !.pc = "synced"]
          /\ UNCHANGED fsTx
    /\ UNCHANGED <<cl, fetching, cmt, resp, log, lock, fctx, seqn, sb, disk,
                   ckptList, prepq, flag, failed, overrun, dropped>>

(* Mutant: the copy takes the newest transaction, not the dequeued one.    *)
RunIoNewest == RunIo(seqn)

RunIoJob == RunIo(ck.e.tx)

(* increase_journal_sb_tx_id(), and the assertion at the top of            *)
(* free_journal_space().                                                   *)
CkptTxId ==
    /\ Alive
    /\ ck.pc = "copied"
    /\ sb' = [sb EXCEPT !.tx_id = ck.e.tx + 1]
    /\ IF ck.e.start # log[ck.e.df].tail
         THEN failed' = "tail" /\ UNCHANGED ck
         ELSE ck' = [ck EXCEPT !.pc = "free"] /\ UNCHANGED failed
    /\ UNCHANGED <<cl, queue, fetching, cmt, resp, log, lock, fctx, seqn, dsb, disk,
                   ckptList, prepq, flag, fsTx, overrun, dropped>>

Released(l, n) == [l EXCEPT !.tail = Advance(@, n), !.free = (@ + n) % Word]

(* free_journal_space() up to the flush of the superblock, which it waits  *)
(* for with the log locked.                                                *)
FreeJournalSpace ==
    /\ Alive
    /\ ck.pc = "free"
    /\ LET d == ck.e.df
       IN  /\ lock[d] = "free"
           /\ lock' = [lock EXCEPT ![d] = "ckpt"]
           /\ log' = [log EXCEPT ![d] = Released(@, ck.e.len)]
           /\ sb' = [sb EXCEPT !.start = <<d, log'[d].tail>>]
    /\ queue' = Append(queue, IoJob)
    /\ ck' = [ck EXCEPT !.pc = "sync"]
    /\ UNCHANGED <<cl, fetching, cmt, resp, fctx, seqn, dsb, disk, ckptList, prepq,
                   flag, fsTx, failed, overrun, dropped>>

(* Mutant: free_journal_space() returns with the log locked.               *)
KeepLocked ==
    /\ Alive
    /\ ck.pc = "synced"
    /\ ck' = [pc |-> "loop", e |-> NoEntry]
    /\ UNCHANGED <<cl, queue, fetching, cmt, resp, log, lock, fctx, seqn, sb, dsb,
                   disk, ckptList, prepq, flag, fsTx, failed, overrun, dropped>>

UnlockFreed ==
    /\ Alive
    /\ ck.pc = "synced"
    /\ lock' = [lock EXCEPT ![ck.e.df] = "free"]
    /\ ck' = [pc |-> "loop", e |-> NoEntry]
    /\ UNCHANGED <<cl, queue, fetching, cmt, resp, log, fctx, seqn, sb, dsb, disk,
                   ckptList, prepq, flag, fsTx, failed, overrun, dropped>>

-----------------------------------------------------------------------------
SdNext == SdBegin \/ SdSendFetch \/ SdSendCommit \/ SdAnswered \/ SdFetchFailed

CommitNext ==
    \E d \in DF : LockLog(d) \/ Reserve(d) \/ WriteMeta(d) \/ Commit(d)

CkptNext ==
    \/ CkptStart \/ CkptEnd \/ CkptDequeue \/ CkptTxId \/ FreeJournalSpace
    \/ UnlockFreed

(* A chunk was answered with ok and never written: its commit waits for it *)
(* forever (AnsweredChunkWritten).                                         *)
Unwritten == \E r \in dropped : r.ok

(* Nothing is left to do once an assertion has stopped DevFS, the daemon   *)
(* has aborted, every transaction is answered, or a chunk is missing.      *)
Stopped ==
    /\ \/ ~Alive
       \/ cl.st = "aborted"
       \/ cl.st = "idle" /\ cl.tx = MaxTx
       \/ Unwritten
    /\ UNCHANGED vars

Next ==
    \/ SdNext
    \/ PersistDataStart \/ PersistDataDone
    \/ TakeJournal \/ CommitNext
    \/ Prepare
    \/ Signal \/ CkptNext \/ RunIoJob
    \/ Stopped

Spec == Init /\ [][Next]_vars

(* The worker threads, the prepare thread and the main thread keep running *)
(* and device I/O completes; a spinlock that stays free is taken.  Nothing *)
(* is assumed of the daemon except that it handles responses.              *)
Fairness ==
    /\ WF_vars(PersistDataStart)
    /\ WF_vars(PersistDataDone)
    /\ WF_vars(TakeJournal)
    /\ \A d \in DF : /\ WF_vars(LockLog(d))
                     /\ WF_vars(Reserve(d))
                     /\ WF_vars(WriteMeta(d))
                     /\ WF_vars(Commit(d))
    /\ WF_vars(Prepare)
    /\ WF_vars(RunIoJob)
    /\ WF_vars(CkptNext)
    /\ WF_vars(SdAnswered)
    /\ WF_vars(SdFetchFailed)

FairSpec == Spec /\ Fairness

-----------------------------------------------------------------------------
(* Properties.                                                             *)

(* Every variable has its type.                                            *)
TypeOK ==
    /\ cl \in Client
    /\ queue \in Seq(Job)
    /\ fetching \in SUBSET Fetch
    /\ cmt \in [DF -> Handler \cup {NoHandler}]
    /\ resp \in SUBSET Response
    /\ log \in [DF -> Log]
    /\ lock \in [DF -> Holder]
    /\ fctx \in [DF -> FetchCtx]
    /\ seqn \in 0..MaxTx
    /\ sb \in Super
    /\ dsb \in Super
    /\ disk \in [DF -> Image]
    /\ ckptList \in Seq(Entry)
    /\ prepq \in Seq(Tx)
    /\ flag \in BOOLEAN
    /\ ck \in Ckpt
    /\ fsTx \in 0..MaxTx
    /\ failed \in Failure
    /\ overrun \in BOOLEAN
    /\ dropped \in SUBSET Response

(* Commits follow transaction-id order, and g_ckpt_list holds exactly the  *)
(* committed transactions that are not checkpointed, oldest first: the     *)
(* guarantee claimed above the wait on g_tx_seqn.                          *)
CommitOrder ==
    /\ \A i \in DOMAIN ckptList : ckptList[i].tx = seqn - Len(ckptList) + i
    /\ ck.e # NoEntry => ck.e.tx = seqn - Len(ckptList)

(* The file system area receives the transactions one by one, in           *)
(* transaction-id order (CKPT_THREAD_NUM: "Checkpoint must be in order").  *)
CheckpointOrder == [][fsTx' # fsTx => fsTx' = fsTx + 1]_vars

(* As long as data chunks fit the free space, n_free_blks and the distance *)
(* from tail to head of a log agree.                                       *)
FreeAccounting ==
    ~overrun => \A d \in DF :
        /\ log[d].free <= LogSize
        /\ log[d].head = (log[d].tail + (LogSize - log[d].free)) % LogSize

(* Entry e of the checkpoint list is in its log, block by block.           *)
EntryIntact(e) ==
    \A k \in 0..(e.len - 1) : disk[e.df][(e.start + k) % LogSize] = <<e.tx, k>>

Pending == {ckptList[i] : i \in DOMAIN ckptList} \cup ({ck.e} \ {NoEntry})

(* Crash consistency: whenever DevFS stops, every committed transaction    *)
(* from the tx_id of the superblock on the device on is intact in its log. *)
(* This is why free_journal_space() flushes the superblock under the lock. *)
CommittedRecoverable ==
    ~overrun /\ failed # "chunk" =>
        \A t \in dsb.tx_id..seqn : \E e \in Pending : e.tx = t /\ EntryIntact(e)

(* A log's head does not move while a chunk is on its way to the log:      *)
(* get_chunck_start() reads it without the lock on these grounds.          *)
HeadStable ==
    [][\A f \in fetching : log'[f.df].head = log[f.df].head]_vars

(* The assertions on the fetch context and on the order of frees hold: the *)
(* context of a data fetcher is clean when its next transaction starts,    *)
(* the counted chunks add up, and space is freed in allocation order.      *)
NoInternalFailure == failed \notin {"reset", "total", "size", "tail"}

(* A commit request is answered, unless DevFS stops on an assertion or a   *)
(* chunk of the transaction was dropped.  Workers, commit handler and      *)
(* checkpoint wait for one another through the job queue, the log lock and *)
(* the chunk counter without a cycle.                                      *)
CommitAnswered ==
    (cl.st = "waiting") ~> (cl.st # "waiting" \/ ~Alive \/ Unwritten)

(* A checkpoint that was asked for ends, unless DevFS or the daemon stops, *)
(* a chunk was dropped, or data ran over the free space.                   *)
CheckpointEnds ==
    flag ~> (~flag \/ ~Alive \/ cl.st = "aborted" \/ Unwritten \/ overrun)

-----------------------------------------------------------------------------
(* Statements of the source that do not hold.                              *)

(* The blocks n blocks from start on occupy.                               *)
Blocks(start, n) == {(start + k) % LogSize : k \in 0..(n - 1)}

(* free_journal_space() says that freed space can be given to others after *)
(* the superblock is persisted: no chunk that n_free_blks has room for     *)
(* goes to blocks whose release is not yet on the device.                  *)
FreedAfterSync ==
    [][\A f \in fetching' \ fetching :
          (/\ ck.pc = "sync"
           /\ ck.e.df = f.df
           /\ f.req * ChunkBlks + f.n + 1 <= log[f.df].free)
          => Blocks(f.start, f.n) \cap Blocks(ck.e.start, ck.e.len) = {}]_vars

(* A fetch request answered with MSG_RC_OK ("success") has been written    *)
(* and counted.                                                            *)
AnsweredChunkWritten == ~Unwritten
=============================================================================
