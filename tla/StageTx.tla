------------------------------- MODULE StageTx -------------------------------
(***************************************************************************)
(* fsync of regular files in the Secure Daemon (secure_daemon/src/fs/      *)
(* sync.c, stage_file()) beside the journal worker that takes the same     *)
(* dirty pages and the stage transactions for a journal transaction        *)
(* (secure_daemon/src/fs/journal.c).                                       *)
(*                                                                         *)
(* A stage transaction 1, 2, ... is one call of stage_file(); it fills the *)
(* sequence buffers (slots) of its thread, which the NVMe device reads     *)
(* when it completes the write, in any order.  A block is known by its     *)
(* kind, its transaction and, for data, the page and its version.  Pages   *)
(* are not adjacent, so that each one is a range with a tag of its own.    *)
(***************************************************************************)
EXTENDS Naturals, Sequences, FiniteSets, SequencesExt, FiniteSetsExt, TLC

CONSTANTS Inodes, Pages,
          Grows,              \* whether a write may dirty an index block
          Sb, Nr,             \* ox_staging_sb, ox_nr_staging_blocks
          SlotBlks, SeqMax,   \* blocks of a sequence buffer, and their number
          DescTags, EtagTags, \* STAGE_DESC_BLK_TAG_MAX, JOURNAL_ETAG_MAX
          IrdEnts,            \* ranges in a block of a dumped range list
          Threads,            \* threads that call fsync
          MaxWrites,          \* bound: writes to a file
          MaxStx,             \* bound: calls of stage_file()
          MaxTid              \* bound: journal transactions

ASSUME StageAssumption ==
    /\ Pages \subseteq Nat
    /\ Grows \subseteq BOOLEAN
    /\ {Nr, SlotBlks, SeqMax, DescTags, EtagTags, IrdEnts} \subseteq Nat \ {0}
    /\ Sb \in Nat /\ Sb > 1           \* the log lies before the stage area
    /\ SlotBlks > 1
    /\ {Threads, MaxWrites, MaxStx, MaxTid} \subseteq Nat

VARIABLES
    file,    \* per inode: page versions, dirty and lock bits, index block,
             \* i_stage_list, the waiting dirty lists and their txids
    stx,     \* the stage transactions
    nstx,    \* calls of stage_file() so far
    head,    \* j->stage_start
    reqs,    \* writes the device has not completed
    media,   \* the blocks around and in the stage area
    jw,      \* the journal transaction being built or committed
    trace,   \* stage addresses written into stage trace blocks
    jdisk,   \* history: page versions in committed journal transactions
    need,    \* history: page versions when stage_file() was called
    failed   \* the assertion or panic that stopped the daemon, or "no"

svars == <<file, stx, nstx, head, reqs, media, jw, trace, jdisk, need, failed>>

DF    == 0..1
Slots == 0..(SeqMax - 1)
None  == 0                           \* txid -1, and an address not set yet
Free  == 0                           \* of the shared inode lock
Worker == MaxStx + 1                 \* the journal worker as its holder
Alive == failed = "no"
Old   == [kind |-> "old", tx |-> 0, page |-> 0, ver |-> 0]

(* mkfs writes the stage superblock at Sb; get_stage_used_blks() and       *)
(* stage_reserve_area() compute base from the end and the total.           *)
StageStart == Sb + 1
StageEnd   == Sb + Nr - 1
StageBase  == StageEnd - Nr
Device     == StageBase..(StageEnd + 1)

NoBlks == [q \in Slots |-> [k \in 0..(SlotBlks - 1) |-> Old]]
NewStx(i) ==
    [pc |-> "begin", i |-> i, pages |-> <<>>, todo |-> <<>>,
     wtx |-> [d \in DF |-> None], wpages |-> [d \in DF |-> <<>>], wq |-> <<>>,
     wskip |-> {}, bits |-> {}, idx |-> FALSE, netags |-> 0,
     seq |-> 0, left |-> SlotBlks - 1, turn |-> FALSE, pend |-> 1, issued |-> 0,
     start |-> None, commit |-> None, skipped |-> FALSE, cnt |-> 0, other |-> 0,
     busy |-> {}, done |-> {}, tail |-> 0,
     buf |-> NoBlks,
     put |-> <<>>,      \* history: the blocks copied
     taken |-> {}]      \* history: pages taken to be processed by another fsync

NewJtx(tid, df) ==
    [pc |-> "pick", tid |-> tid, df |-> df, files |-> {}, i |-> None,
     bits |-> {}, cut |-> <<>>, stage |-> <<>>, todo |-> {}, copied |-> {}]

Init ==
    /\ file = [i \in Inodes |->
                 [ver |-> [p \in Pages |-> 0], dirty |-> {}, locked |-> {},
                  idx |-> FALSE, list |-> <<>>, lock |-> Free,
                  wlist |-> [d \in DF |-> {}], wtx |-> [d \in DF |-> None]]]
    /\ stx = <<>>
    /\ nstx = 0
    /\ head = StageStart
    /\ reqs = {}
    /\ media = [a \in Device |-> Old]
    /\ jw = NewJtx(1, 0)
    /\ trace = {}
    /\ jdisk = [i \in Inodes |-> [p \in Pages |-> 0]]
    /\ need = <<>>
    /\ failed = "no"

Sorted(S) == SetToSortSeq(S, <)
CeilDiv(a, b) == (a + b - 1) \div b
Active == {n \in DOMAIN stx : stx[n].pc # "done"}

-----------------------------------------------------------------------------
(* A write of LibFS into a page of the shared mapping: it takes the shared *)
(* inode lock and waits for the lock bit of the page.                      *)
Write(i, p) ==
    /\ Alive
    /\ file[i].lock = Free
    /\ p \notin file[i].locked
    /\ MapThenSumSet(LAMBDA q : file[i].ver[q], Pages) < MaxWrites
    /\ \E g \in Grows :
          file' = [file EXCEPT ![i].ver[p] = @ + 1, ![i].dirty = @ \union {p},
                               ![i].idx = @ \/ g]
    /\ UNCHANGED <<stx, nstx, head, reqs, media, jw, trace, jdisk, need, failed>>

(* stage_file() up to build_stage_tx(): the block of the descriptor is     *)
(* reserved in the first slot.                                             *)
Fsync(i) ==
    /\ Alive
    /\ nstx < MaxStx
    /\ Cardinality(Active) < Threads
    /\ nstx' = nstx + 1
    /\ stx' = Append(stx, NewStx(i))
    /\ need' = Append(need, file[i].ver)
    /\ UNCHANGED <<file, head, reqs, media, jw, trace, jdisk, failed>>

(* build_stage_tx() under the shared inode lock: the dirty pages are       *)
(* gathered and locked, a waiting list that a journal transaction has not  *)
(* finished with and no other fsync has taken is cut, and the transaction  *)
(* is put on i_stage_list.                                                 *)
Waiting(f, d) == f.wtx[d] # None /\ f.wlist[d] # {}

(* gather_dirty_bits() sets lock bits by reading and writing their byte:   *)
(* the byte is read here and written with the next step of its caller, and *)
(* an unlock of a page in between is lost.                                 *)
Lock(n) ==
    LET f == file[stx[n].i]
    IN  /\ Alive
        /\ stx[n].pc = "begin"
        /\ f.lock = Free
        /\ stx' = [stx EXCEPT ![n].pc = "gather", ![n].bits = f.locked]
        /\ file' = [file EXCEPT ![stx[n].i].lock = n]
        /\ UNCHANGED <<nstx, head, reqs, media, jw, trace, jdisk, need, failed>>

LockDirty(f, bits) == IF f.dirty = {} THEN f.locked ELSE bits \union f.dirty

TakenFrom(i, d) ==
    IF file[i].wtx[d] # None /\ file[i].wlist[d] = {}
    THEN UNION {ToSet(stx[m].wpages[d]) :
                  m \in {k \in DOMAIN stx : stx[k].i = i /\ stx[k].wtx[d] = file[i].wtx[d]}}
    ELSE {}

Snapshot(n) ==
    LET s == stx[n]
        f == file[s.i]
    IN  /\ Alive
        /\ s.pc = "gather"
        /\ stx' = [stx EXCEPT ![n] =
              [s EXCEPT !.pc = "tags", !.bits = {}, !.pages = Sorted(f.dirty),
                        !.taken = UNION {TakenFrom(s.i, d) : d \in DF},
                        !.wtx = [d \in DF |-> IF Waiting(f, d) THEN f.wtx[d] ELSE None],
                        !.wpages = [d \in DF |-> IF Waiting(f, d) THEN Sorted(f.wlist[d])
                                                                  ELSE <<>>]]]
        /\ file' = [file EXCEPT ![s.i] =
              [f EXCEPT !.dirty = {}, !.locked = LockDirty(f, s.bits),
                        !.list = Append(@, n), !.lock = Free,
                        !.wlist = [d \in DF |-> IF Waiting(f, d) THEN {} ELSE @[d]]]]
        /\ UNCHANGED <<nstx, head, reqs, media, jw, trace, jdisk, need, failed>>

-----------------------------------------------------------------------------
(* stage_fill_index_blk() and stage_fill_tags(): a tag for the index block *)
(* and for every page; the tag that fills the descriptor or the last       *)
(* extent tag block reserves another one.                                  *)
EtagBlks(tags) == IF tags < DescTags THEN 0 ELSE 1 + (tags - DescTags) \div EtagTags

Item(kind, p) == [kind |-> kind, page |-> p]
Items(kind, ps) == [k \in 1..Len(ps) |-> Item(kind, ps[k])]
Repeat(kind, k) == [j \in 1..k |-> Item(kind, 0)]

(* Mutant: the extent tag blocks are not counted in the descriptor.        *)
FillTagsUncounted(n) ==
    LET s == stx[n]
        x == file[s.i].idx
        e == EtagBlks(Len(s.pages) + IF x THEN 1 ELSE 0)
    IN  /\ Alive
        /\ s.pc = "tags"
        /\ stx' = [stx EXCEPT ![n].pc = "meta", ![n].idx = x,
                       ![n].todo = Repeat("index", IF x THEN 1 ELSE 0) \o Repeat("etag", e)]
        /\ file' = [file EXCEPT ![s.i].idx = FALSE]
        /\ UNCHANGED <<nstx, head, reqs, media, jw, trace, jdisk, need, failed>>

FillTags(n) ==
    LET s == stx[n]
        x == file[s.i].idx
        e == EtagBlks(Len(s.pages) + IF x THEN 1 ELSE 0)
    IN  /\ Alive
        /\ s.pc = "tags"
        /\ stx' = [stx EXCEPT ![n].pc = "meta", ![n].idx = x, ![n].netags = e,
                       ![n].todo = Repeat("index", IF x THEN 1 ELSE 0) \o Repeat("etag", e)]
        /\ file' = [file EXCEPT ![s.i].idx = FALSE]
        /\ UNCHANGED <<nstx, head, reqs, media, jw, trace, jdisk, need, failed>>

-----------------------------------------------------------------------------
(* resv_blk() and the slots.                                               *)

(* nvme_direct_write_async_internal(): a write for each slot that holds    *)
(* pending blocks, without the descriptor's block when "skip".             *)
SlotWrites(n, s, skip) ==
    {[tx |-> n, slot |-> q,
      addr |-> s.start + s.issued + q * SlotBlks + IF skip /\ q = 0 THEN 1 ELSE 0,
      off  |-> IF skip /\ q = 0 THEN 1 ELSE 0,
      len  |-> Min({SlotBlks, s.pend - q * SlotBlks}) - IF skip /\ q = 0 THEN 1 ELSE 0]
        : q \in {r \in Slots : r * SlotBlks < s.pend}}

(* stx_mark_slots_issued_prefix() and the counters.                        *)
Issued(s, ws) ==
    [s EXCEPT !.busy = @ \union {r.slot : r \in ws},
              !.done = @ \ {r.slot : r \in ws},
              !.issued = @ + s.pend, !.pend = 0, !.seq = 0]

StillBusy(s, ws) == s.busy \intersect {r.slot : r \in ws} # {}

(* The slot is full and another block is wanted: the next slot, or, after  *)
(* the last one, a write of all slots.                                     *)
NextSlot(n) ==
    LET s  == stx[n]
        ws == SlotWrites(n, s, ~s.skipped)
    IN  /\ Alive
        /\ s.todo # <<>> /\ s.left = 0 /\ ~s.turn
        /\ IF s.seq < SeqMax - 1
           THEN /\ stx' = [stx EXCEPT ![n].seq = @ + 1, ![n].turn = TRUE]
                /\ UNCHANGED <<reqs, failed>>
           ELSE IF s.start = None \/ StillBusy(s, ws)
           THEN /\ failed' = "reclaim"
                /\ UNCHANGED <<stx, reqs>>
           ELSE /\ reqs' = reqs \union ws
                /\ stx' = [stx EXCEPT ![n] =
                             [Issued(s, ws) EXCEPT !.skipped = TRUE, !.turn = TRUE]]
                /\ UNCHANGED failed
        /\ UNCHANGED <<file, nstx, head, media, jw, trace, jdisk, need>>

(* Mutant: the slot is used again before its write is complete.            *)
SlotReady(s) == TRUE
(* Mutant: waits for slot_done, which the reclaim has reset.               *)
SlotDone(s) == s.seq \in s.done
(* stx_drain_until_slot_free().                                            *)
SlotFree(s) == s.seq \notin s.busy

TakeSlot(n) ==
    LET s == stx[n]
    IN  /\ Alive
        /\ s.turn
        /\ SlotFree(s)
        /\ stx' = [stx EXCEPT ![n].turn = FALSE, ![n].left = SlotBlks]
        /\ UNCHANGED <<file, nstx, head, reqs, media, jw, trace, jdisk, need, failed>>

(* copy_blk(), copy_data_blks(): a data page is copied as it is now, and   *)
(* its lock bit cleared.                                                   *)
Put(n) ==
    LET s == stx[n]
        h == Head(s.todo)
        data == h.kind = "data"
        b == [kind |-> h.kind, tx |-> n, page |-> h.page,
              ver |-> IF data THEN file[s.i].ver[h.page] ELSE 0]
    IN  /\ Alive
        /\ s.todo # <<>> /\ s.left > 0 /\ ~s.turn
        /\ stx' = [stx EXCEPT ![n] =
              [s EXCEPT !.buf[s.seq][SlotBlks - s.left] = b, !.put = Append(@, b),
                        !.todo = Tail(@), !.left = @ - 1, !.pend = @ + 1,
                        !.cnt = @ + IF data THEN 1 ELSE 0]]
        /\ file' = [file EXCEPT ![s.i].locked = IF data THEN @ \ {h.page} ELSE @]
        /\ UNCHANGED <<nstx, head, reqs, media, jw, trace, jdisk, need, failed>>

(* stx_reclaim_done_slots_inorder(): from the tail, every slot done.       *)
Reclaimable(s) ==
    {q \in Slots : \A r \in Slots :
        (r + SeqMax - s.tail) % SeqMax <= (q + SeqMax - s.tail) % SeqMax
            => r \in s.busy \intersect s.done}

Reclaim(s) ==
    LET q == Reclaimable(s)
    IN  [s EXCEPT !.busy = @ \ q, !.done = @ \ q,
                  !.tail = (@ + Cardinality(q)) % SeqMax]

(* The device completes a write, and the thread polls the completion.  The *)
(* descriptor and the commit block have buffers of their own.              *)
Contents(r) ==
    IF r.slot \in Slots
    THEN [a \in r.addr..(r.addr + r.len - 1) |->
             stx[r.tx].buf[r.slot][r.off + a - r.addr]]
    ELSE [a \in {r.addr} |-> [Old EXCEPT !.kind = IF r.slot = SeqMax THEN "desc" ELSE "commit",
                                         !.tx = r.tx]]

Complete(r) ==
    /\ Alive
    /\ reqs' = reqs \ {r}
    /\ media' = Contents(r) @@ media
    /\ stx' = IF r.slot \in Slots
              THEN [stx EXCEPT ![r.tx] = Reclaim([@ EXCEPT !.done = @ \union {r.slot}])]
              ELSE stx
    /\ UNCHANGED <<file, nstx, head, jw, trace, jdisk, need, failed>>

-----------------------------------------------------------------------------
(* stage_fix_blocks(), stage_reserve_area() under the journal lock.  No    *)
(* checkpoint of the stage area is requested: stage_tail stays.            *)
WaitIrd(s, d)  == CeilDiv(Len(s.wpages[d]), IrdEnts)
WaitBlks(s, d) == Len(s.wpages[d]) + WaitIrd(s, d)
StageTail      == StageStart
UsedBlks       == IF head >= StageTail THEN head - StageTail
                                       ELSE Nr - (StageTail - StageBase) + (head - StageBase)

Total(s) == s.pend + Len(s.pages) + WaitBlks(s, 0) + WaitBlks(s, 1) + 1

(* The order of stage_file_data(): the recent transaction first.           *)
WaitOrder(s) ==
    SetToSortSeq({d \in DF : s.wtx[d] # None}, LAMBDA a, b : s.wtx[a] > s.wtx[b])

(* Mutant: the head stays on the commit block.                             *)
HeadOnCommit(end) == end - 1
(* The head wraps when it reaches the end exactly.                         *)
NewHead(end) == IF end = StageEnd THEN StageBase ELSE end

FixBlocks(n) ==
    LET s     == stx[n]
        nr    == Total(s)
        wrap  == head + nr > StageEnd
        gap   == IF wrap THEN StageEnd - head ELSE 0
        start == IF wrap THEN StageBase ELSE head
        full  == nr + gap > Nr - UsedBlks
        overrun == \/ wrap /\ start + nr > StageEnd
                   \/ (head < StageTail \/ start < head) /\ start + nr > StageTail
    IN  /\ Alive
        /\ s.pc = "meta" /\ s.todo = <<>>
        /\ IF full \/ overrun
           THEN /\ failed' = IF full THEN "full" ELSE "overrun"
                /\ UNCHANGED <<stx, head>>
           ELSE /\ head' = NewHead(start + nr)
                /\ stx' = [stx EXCEPT ![n] =
                      [s EXCEPT !.pc = "data", !.start = start, !.commit = start + nr - 1,
                                !.other = s.pend, !.todo = Items("data", s.pages),
                                !.wq = WaitOrder(s)]]
                /\ UNCHANGED failed
        /\ UNCHANGED <<file, nstx, reqs, media, jw, trace, jdisk, need>>

(* A waiting list is staged, after its ranges, unless the journal          *)
(* transaction it belongs to has been committed in the meantime.           *)
(* Mutant: the txid is not looked at again, and the list is dropped.       *)
NotFinished(s, d) == FALSE
Unfinished(s, d) == file[s.i].wtx[d] = s.wtx[d]

StageWaiting(n) ==
    LET s == stx[n]
        d == Head(s.wq)
    IN  /\ Alive
        /\ s.pc = "data" /\ s.todo = <<>> /\ s.wq # <<>>
        /\ stx' = [stx EXCEPT ![n] =
              IF Unfinished(s, d)
              THEN [s EXCEPT !.wq = Tail(@), !.todo = Repeat("ird", WaitIrd(s, d)) \o
                                                     Items("data", s.wpages[d])]
              ELSE [s EXCEPT !.wq = Tail(@), !.wskip = @ \union {d}]]
        /\ UNCHANGED <<file, nstx, head, reqs, media, jw, trace, jdisk, need, failed>>

(* The remaining blocks; the descriptor goes into the first slot unless    *)
(* that one has been written without it.                                   *)
IssueTail(n) ==
    LET s  == IF stx[n].skipped THEN stx[n]
              ELSE [stx[n] EXCEPT !.buf[0][0] = [Old EXCEPT !.kind = "desc", !.tx = n]]
        ws == SlotWrites(n, s, FALSE)
    IN  /\ Alive
        /\ s.pc = "data" /\ s.todo = <<>> /\ s.wq = <<>>
        /\ IF StillBusy(s, ws)
           THEN /\ failed' = "tail"
                /\ UNCHANGED <<stx, reqs>>
           ELSE /\ reqs' = reqs \union ws
                /\ stx' = [stx EXCEPT ![n] =
                             [Issued(s, ws) EXCEPT !.pc = "commit", !.left = SlotBlks]]
                /\ UNCHANGED failed
        /\ UNCHANGED <<file, nstx, head, media, jw, trace, jdisk, need>>

(* The descriptor, if it was skipped, and the commit block, with the       *)
(* checks that the blocks written are the ones reserved.                   *)
IssueCommit(n) ==
    LET s == stx[n]
        skip == IF 0 \in s.wskip THEN {0} ELSE s.wskip
        ird  == MapThenSumSet(LAMBDA d : WaitIrd(s, d), DF \ skip)
        at   == s.start + s.issued + MapThenSumSet(LAMBDA d : WaitBlks(s, d), skip)
        blk(slot, a) == [tx |-> n, slot |-> slot, addr |-> a, off |-> 0, len |-> 1]
    IN  /\ Alive
        /\ s.pc = "commit"
        /\ IF s.issued # s.cnt + s.other + ird \/ at # s.commit
           THEN /\ failed' = "commit"
                /\ UNCHANGED <<stx, reqs>>
           ELSE /\ reqs' = reqs \union {blk(SeqMax + 1, s.commit)} \union
                             (IF s.skipped THEN {blk(SeqMax, s.start)} ELSE {})
                /\ stx' = [stx EXCEPT ![n].pc = "drain"]
                /\ UNCHANGED failed
        /\ UNCHANGED <<file, nstx, head, media, jw, trace, jdisk, need>>

(* stx_drain_all_outstanding(), then is_completed is set; the slots belong *)
(* to the thread and are filled anew by its next fsync.                    *)
Drained(n) == \A r \in reqs : r.tx # n

Return(n) ==
    /\ Alive
    /\ stx[n].pc = "drain"
    /\ Drained(n)
    /\ IF stx[n].busy = {}
       THEN /\ stx' = [stx EXCEPT ![n] =
                  [@ EXCEPT !.pc = "done", !.tail = 0, !.buf = NoBlks]]
            /\ UNCHANGED failed
       ELSE /\ failed' = "slots"
            /\ UNCHANGED stx
    /\ UNCHANGED <<file, nstx, head, reqs, media, jw, trace, jdisk, need>>

-----------------------------------------------------------------------------
(* The journal worker and the callback of its commit.  HostJournal has the *)
(* rules by which files join a transaction and the data fetchers pass from *)
(* one to the next; here a transaction takes any files that have something *)
(* to commit, and one follows the other.                                   *)

(* build_jtx_regular_file(), with and after the shared inode lock.         *)
LockFile(i) ==
    LET f == file[i]
    IN  /\ Alive
        /\ jw.pc = "pick"
        /\ i \notin jw.files
        /\ f.lock = Free
        /\ f.dirty # {} \/ f.list # <<>>
        /\ file' = [file EXCEPT ![i].lock = Worker]
        /\ jw' = [jw EXCEPT !.pc = "gather", !.i = i, !.bits = f.locked]
        /\ UNCHANGED <<stx, nstx, head, reqs, media, trace, jdisk, need, failed>>

Build ==
    LET i == jw.i
        f == file[i]
    IN  /\ Alive
        /\ jw.pc = "gather"
        /\ IF f.wlist[jw.df] # {} \/ f.wtx[jw.df] # None
           THEN /\ failed' = "waiting"
                /\ UNCHANGED <<file, jw>>
           ELSE /\ file' = [file EXCEPT ![i] =
                      [f EXCEPT !.list = <<>>, !.dirty = {}, !.idx = FALSE,
                                !.locked = LockDirty(f, jw.bits), !.lock = Free,
                                !.wlist[jw.df] = f.dirty,
                                !.wtx[jw.df] = IF f.dirty # {} THEN jw.tid ELSE None]]
                /\ jw' = [jw EXCEPT !.pc = "trace", !.bits = {}, !.files = @ \union {i},
                                    !.cut = f.list, !.todo = f.dirty,
                                    !.stage = IF f.list # <<>> THEN f.list ELSE @]
                /\ UNCHANGED failed
        /\ UNCHANGED <<stx, nstx, head, reqs, media, trace, jdisk, need>>

(* journal_stage_trace(), without the shared inode lock.                   *)
Trace ==
    /\ Alive
    /\ jw.pc = "trace"
    /\ trace' = trace \union {[tx |-> n, start |-> stx[n].start] : n \in ToSet(jw.cut)}
    /\ jw' = [jw EXCEPT !.pc = IF jw.todo = {} THEN "pick" ELSE "copy", !.cut = <<>>]
    /\ UNCHANGED <<file, stx, nstx, head, reqs, media, jdisk, need, failed>>

(* journal_file_data(): a page is copied as it is now, and unlocked.       *)
CopyPage ==
    /\ Alive
    /\ jw.pc = "copy"
    /\ LET p == Min(jw.todo)
       IN  /\ jw' = [jw EXCEPT !.pc = IF jw.todo = {p} THEN "pick" ELSE "copy",
                               !.todo = @ \ {p},
                               !.copied = @ \union {[i |-> jw.i, page |-> p,
                                                     ver |-> file[jw.i].ver[p]]}]
           /\ file' = [file EXCEPT ![jw.i].locked = @ \ {p}]
    /\ UNCHANGED <<stx, nstx, head, reqs, media, trace, jdisk, need, failed>>

RequestCommit ==
    /\ Alive
    /\ jw.pc = "pick"
    /\ jw.files # {}
    /\ jw' = [jw EXCEPT !.pc = "sent"]
    /\ UNCHANGED <<file, stx, nstx, head, reqs, media, trace, jdisk, need, failed>>

(* DevFS has written the commit block.                                     *)
Committed ==
    /\ Alive
    /\ jw.pc = "sent"
    /\ jdisk' = [i \in Inodes |-> [p \in Pages |->
                   Max({jdisk[i][p]} \union
                       {c.ver : c \in {b \in jw.copied : b.i = i /\ b.page = p}})]]
    /\ jw' = [jw EXCEPT !.pc = "clear"]
    /\ UNCHANGED <<file, stx, nstx, head, reqs, media, trace, need, failed>>

(* clear_waiting_dirty_lists(), one inode at a time.                       *)
Cleared(f) == [f EXCEPT !.wlist[jw.df] = {}, !.wtx[jw.df] = None]

ClearWaiting(i) ==
    /\ Alive
    /\ jw.pc = "clear"
    /\ i \in jw.files
    /\ file' = [file EXCEPT ![i] = Cleared(@)]
    /\ jw' = [jw EXCEPT !.files = @ \ {i}]
    /\ UNCHANGED <<stx, nstx, head, reqs, media, trace, jdisk, need, failed>>

(* free_transaction() waits for the stage transactions of the last file    *)
(* that had any; the next transaction has the other data fetcher.          *)
FreeTx ==
    /\ Alive
    /\ jw.pc = "clear"
    /\ jw.files = {}
    /\ \A n \in ToSet(jw.stage) : stx[n].pc = "done"
    /\ jw' = IF jw.tid < MaxTid THEN NewJtx(jw.tid + 1, 1 - jw.df)
                                ELSE [NewJtx(jw.tid, jw.df) EXCEPT !.pc = "off"]
    /\ UNCHANGED <<file, stx, nstx, head, reqs, media, trace, jdisk, need, failed>>

StxStep(n) ==
    \/ Lock(n) \/ Snapshot(n) \/ FillTags(n) \/ FixBlocks(n) \/ NextSlot(n) \/ TakeSlot(n)
    \/ Put(n) \/ StageWaiting(n) \/ IssueTail(n) \/ IssueCommit(n) \/ Return(n)

JournalStep ==
    \/ \E i \in Inodes : LockFile(i) \/ ClearWaiting(i)
    \/ Build \/ CopyPage \/ Trace \/ RequestCommit \/ Committed \/ FreeTx

Next ==
    \/ \E i \in Inodes : Fsync(i) \/ \E p \in Pages : Write(i, p)
    \/ \E n \in DOMAIN stx : StxStep(n)
    \/ \E r \in reqs : Complete(r)
    \/ JournalStep

(* The fsync threads and the worker are scheduled, the device answers.     *)
Fairness ==
    /\ \A n \in 1..MaxStx : WF_svars(n \in DOMAIN stx /\ StxStep(n))
    /\ WF_svars(\E r \in reqs : Complete(r))
    /\ WF_svars(JournalStep)

Spec == Init /\ [][Next]_svars
FairSpec == Spec /\ Fairness

-----------------------------------------------------------------------------
Block == [kind : {"old", "desc", "index", "etag", "data", "ird", "commit"},
          tx : 0..MaxStx, page : Pages \union {0}, ver : 0..MaxWrites]

(* Every variable keeps its type (the structures of sync.c and journal.c). *)
TypeOK ==
    /\ nstx \in 0..MaxStx
    /\ Len(stx) = nstx /\ Len(need) = nstx
    /\ \A n \in DOMAIN stx :
          /\ stx[n].i \in Inodes
          /\ stx[n].busy \subseteq Slots /\ stx[n].done \subseteq stx[n].busy
          /\ stx[n].seq \in Slots /\ stx[n].tail \in Slots
          /\ stx[n].left \in 0..SlotBlks /\ stx[n].pend \in 0..(SeqMax * SlotBlks)
    /\ \A i \in Inodes :
          /\ file[i].dirty \subseteq Pages /\ file[i].locked \subseteq Pages
          /\ file[i].ver \in [Pages -> 0..MaxWrites]
          /\ file[i].wlist \in [DF -> SUBSET Pages]
          /\ file[i].wtx \in [DF -> 0..MaxTid]
          /\ file[i].lock \in 0..(MaxStx + 1)
    /\ head \in Device
    /\ media \in [Device -> Block]
    /\ jw.tid \in 1..MaxTid /\ jw.df \in DF

(* No assertion of stage_file(), resv_blk() or build_jtx_regular_file()    *)
(* fails: the blocks written are the blocks reserved, whichever waiting    *)
(* lists were found finished in between, and a slot is free when used.     *)
AssertionsHold == failed = "no"

(* When stage_file() returns, the device holds the whole transaction: the  *)
(* descriptor, every block as it was copied, at its place, and the commit  *)
(* block; no slot was overwritten before the device had read it.           *)
StagedWhole ==
    \A n \in DOMAIN stx : stx[n].pc = "done" =>
        LET s == stx[n]
        IN  /\ media[s.start].kind = "desc" /\ media[s.start].tx = n
            /\ \A k \in DOMAIN s.put : media[s.start + k] = s.put[k]
            /\ media[s.commit].kind = "commit" /\ media[s.commit].tx = n

(* What a crash now would leave of page p: the newest version in a         *)
(* committed journal transaction or in a stage transaction whose blocks    *)
(* are all on the device.                                                  *)
OnDisk(n) ==
    /\ stx[n].pc \in {"drain", "done"}
    /\ \A r \in reqs : r.tx # n
Durable(i, p) ==
    Max({jdisk[i][p]} \union
        {b.ver : b \in {c \in UNION {ToSet(stx[n].put) : n \in {m \in DOMAIN stx : stx[m].i = i /\ OnDisk(m)}} :
                          c.kind = "data" /\ c.page = p}})

(* When fsync returns, every page of the file is durable in the version it *)
(* had when fsync was called, whether this fsync, an earlier one or the    *)
(* journal worker has written it.                                          *)
FsyncDurable ==
    \A n \in DOMAIN stx : stx[n].pc = "done" =>
        \A p \in Pages : Durable(stx[n].i, p) >= need[n][p]

(* Until the stage area wraps, the blocks reserved for two stage           *)
(* transactions are disjoint (stage_reserve_area()).                       *)
Area(s) == s.start..s.commit
Reserved == {n \in DOMAIN stx : stx[n].start # None}
Disjoint ==
    (\A n \in Reserved : stx[n].start >= StageStart) =>
        \A m, n \in Reserved : m # n => Area(stx[m]) \intersect Area(stx[n]) = {}

(* A stage trace block names the first block of a stage transaction.       *)
TraceNamesTx == \A t \in trace : t.start # None /\ t.start = stx[t.tx].start

(* DevFS finds the extent tag blocks behind the descriptor and then one    *)
(* block for every tag, in the order of the tags, unless an index block    *)
(* was written in front of the extent tag blocks.                          *)
DevfsReads(s) ==
    /\ \A k \in 1..s.netags : s.put[k].kind = "etag"
    /\ s.idx => s.put[s.netags + 1].kind = "index"
    /\ \A k \in DOMAIN s.pages :
          LET b == s.put[s.netags + (IF s.idx THEN 1 ELSE 0) + k]
          IN  b.kind = "data" /\ b.page = s.pages[k]
LayoutAgrees ==
    \A n \in DOMAIN stx :
        stx[n].pc = "done" /\ ~(stx[n].idx /\ stx[n].netags > 0) => DevfsReads(stx[n])

(* A fsync that finds a waiting list empty, because another fsync has      *)
(* processed it, returns when the pages of that list are durable.          *)
ProcessedDurable ==
    \A n \in DOMAIN stx : stx[n].pc = "done" =>
        \A p \in stx[n].taken : Durable(stx[n].i, p) >= need[n][p]

(* Every fsync returns.                                                    *)
FsyncReturns == []<>(Active = {})

(* The callback of a commit is not held up for ever by the waiting lists   *)
(* or by a stage transaction it has to free.                               *)
JournalFrees == []<>(jw.pc # "clear")
(* The stage transactions are sound: no assertion fails, what is done is   *)
(* whole on the device, and no two of them share a block.                  *)
StageCorrect == TypeOK /\ AssertionsHold /\ StagedWhole /\ Disjoint

(* Every fsync returns, and no callback of a commit waits for ever for the *)
(* stage transactions it has to free.                                      *)
StageProgress == FsyncReturns /\ JournalFrees
=============================================================================
