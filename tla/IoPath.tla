------------------------------- MODULE IoPath -------------------------------
(***************************************************************************)
(* The Secure Daemon's I/O path (kernfs/file_ops.c, fs/mpage.c,            *)
(* fs/buffer.c, io_dispatcher.c, io/nvme.c).                               *)
(*                                                                         *)
(* Threads.  An io worker (a member of IW) takes jobs from one pool: the   *)
(* read of a metadata block on behalf of another thread, an fsync, a write *)
(* of the loader, a read pump.  A read worker (RW) drains the kernel's     *)
(* readahead and readpage messages of a file, collects read requests       *)
(* (BIOs) in a batch and submits and polls them on its own queue pair.     *)
(* Every worker owns one queue pair and its sequence slots.  Other threads *)
(* (FS: directory workers, the journal thread) own none and hand their     *)
(* metadata reads to the pool.  One administrator thread dumps or loads    *)
(* the staging area through the BIO queue and the pumps.                   *)
(*                                                                         *)
(* The kernel and the NVMe device are external: the kernel locks the pages *)
(* of a window and waits for RA_END or READ_END, the device completes the  *)
(* commands of a queue pair in any order.                                  *)
(***************************************************************************)
EXTENDS SeqRing, MpmcRing, Sequences, SequencesExt

CONSTANTS
    SeThreads,    \* storage_engine_thread_num: io workers
    RdThreads,    \* read_worker_thread_num
    HwQpairs,     \* <<q_1, .., q_n>>: queue pairs each virtual function offers, 0 if unknown
    FS,           \* threads without a queue pair
    NPages,       \* pages of the file the kernel may ask for
    FileBlks,     \* SIZE_TO_BLK_NR(i_size)
    ExtEnd,       \* ExtEnd[p]: end of the extent that holds page p
    NoMap,        \* pages get_blocks has no block for
    MallocFails,  \* allocations that may fail: a subset of {"mmap", "bio", "bh"}
    GrpPages,     \* MPAGE_RA_GRP_PAGES
    MaxIo,        \* pages per NVMe command (g_max_nvme_max_io_size)
    TargetQd,     \* nvme_target_qd
    BatchMax,     \* INLINE_BATCH_MAX
    MsgBatch,     \* EPOLL_MSG_BATCH
    BudgetNormal, BudgetFsync,  \* read submit budgets of a pump
    PumpMax, PumpPct, MinQuota, \* how many pumps may run: normally, and during fsyncs
    ChunkBlks,    \* blocks of one BIO of the administrator
    AdminBlks,    \* blocks the administrator moves
    SeqsPerFsync, \* staging commands of one fsync
    MaxWindow,    \* pages of the largest readahead window
    Workloads     \* how often each client acts: records of counts, one is chosen

\* The administrator's BIOs fit a queue pair's slots, so a write BIO never
\* waits for one (MAX_BUFFER_SIZE is 16 pages).
ASSUME AdminAssumption == ChunkBlks <= MaxIo * SeqCap

Pages == 0 .. NPages - 1

\* nvme_init: the queue pairs are split evenly over the virtual functions,
\* the remainder to the first ones, and each share is cut to what the
\* hardware offers.
QpairsPerVf ==
    LET n    == Len(HwQpairs)
        want == SeThreads + RdThreads
        even(v) == (want \div n) + (IF v <= want % n THEN 1 ELSE 0)
    IN  [v \in 1 .. n |-> IF HwQpairs[v] > 0 /\ even(v) > HwQpairs[v]
                          THEN HwQpairs[v] ELSE even(v)]

NumQpair == FoldSeq(LAMBDA q, acc : q + acc, 0, QpairsPerVf)

Tids == 0 .. NumQpair - 1
IW == 0 .. SeThreads - 1
RW == SeThreads .. SeThreads + RdThreads - 1
Threads == IW \cup RW \cup FS

VARIABLES
    kq,        \* messages the kernel queued on the file's descriptor
    folio,     \* folio[p]: the kernel's page, "locked" until the daemon ends the read
    lost,      \* pages of windows the daemon gave up without an answer
    uptodate,  \* the page's uptodate bit in the shared metadata
    held,      \* the page's memory holds what the disk holds
    bios,      \* every BIO allocated so far; live until its end_io frees it
    io,        \* io[t]: sequence ring, commands in flight and pending BIO of a queue pair
    rw,        \* read workers
    iw,        \* io workers
    rd,        \* rd[t]: where thread t is in sb_bread of the metadata block
    buf,       \* the buffer head of the metadata block
    jobs,      \* the io workers' job queue
    rdq,       \* g_rd_bio_ring_buf
    pumps,     \* g_nvme_rd_pump_active and g_nvme_rd_pump_scheduled
    fsyncs,    \* g_nvme_fsync_inflight
    adm,       \* the administrator's dump or load
    left,      \* requests the kernel and the applications still make
    up         \* FALSE after a panic

page_vars == <<folio, lost, uptodate, held>>
pool_vars == <<jobs, rdq, pumps, fsyncs>>
vars == <<kq, page_vars, bios, io, rw, iw, rd, buf, pool_vars, adm, left, up>>

----------------------------------------------------------------------------
(* BIOs and the commands they are cut into.                                *)

NoBio == 0

\* alloc_bio and the fields its callers fill in.
NewBio(kind, pg, nr) == [kind |-> kind, pg |-> pg, nr |-> nr, vcnt |-> nr, live |-> TRUE]

\* A command in flight: the slot it borrows, its BIO and the pages of the BIO
\* it moves.  Metadata reads ("bh") use the worker's bh_seqs, staging writes
\* ("dw") the slots from 0 on.
Cmd(kind, slot, bio, first, nr) ==
    [kind |-> kind, slot |-> slot, bio |-> bio, first |-> first, nr |-> nr]
BhCmd == Cmd("bh", 0, NoBio, 0, 1)

\* __nvme_rd_submit_bio_one: one slot and one command per MaxIo pages, until
\* the BIO is used up or no slot is to be had; then it stays pending.
RECURSIVE SubmitOne(_, _, _)
SubmitOne(s, b, off) ==
    IF off >= bios[b].nr THEN [s EXCEPT !.pend = NoBio, !.off = 0]
    ELSE IF ~CanAcquire(s.ring, 1) THEN [s EXCEPT !.pend = b, !.off = off]
    ELSE LET n == Min({MaxIo, bios[b].nr - off})
             c == Cmd("rd", s.ring.head, b, off, n)
         IN  SubmitOne([s EXCEPT !.ring = Acquire(s.ring, 1), !.qp = @ \cup {c}],
                       b, off + n)

\* create_spdk_io_threads_multi: what a queue pair starts with.
IdleThread == [ring |-> EmptyRing, qp |-> {}, pend |-> NoBio, off |-> 0]

\* nvme_submit_bio and its inline form clamp the target to the slots there are.
Qd == IF TargetQd <= 0 \/ TargetQd > SeqCap THEN SeqCap ELSE TargetQd

\* The state completion callbacks change.
Done == [folio |-> folio, uptodate |-> uptodate, held |-> held, bios |-> bios,
         buf |-> buf, sem |-> adm.sem]

PagesOf(b) == b.pg .. b.pg + b.nr - 1

\* The ioctls that end a read.  RA_END says whether the pages are valid;
\* READ_END only wakes the reader.
Tell(f, pages, how) == [p \in Pages |-> IF p \in pages THEN how ELSE f[p]]

\* mpage_end_io and single_end_io: report the pages, free the BIO.
MpageEndIo(d, b) ==
    LET how == IF d.bios[b].kind = "ra" THEN "valid" ELSE "woken"
    IN  [d EXCEPT !.folio = Tell(@, PagesOf(d.bios[b]), how), !.bios[b].live = FALSE]

\* sync_device.c: bio_end_io frees the BIO and posts the semaphore.
BioEndIo(d, b) == [d EXCEPT !.bios[b].live = FALSE, !.sem = @ + 1]

\* io_dispatcher.c: bh_end_io
BhEndIo(d) == [d EXCEPT !.buf.new = FALSE, !.buf.uptodate = TRUE, !.buf.locked = FALSE]

EndIo(d, b) ==
    IF d.bios[b].kind \in {"ra", "page"} THEN MpageEndIo(d, b) ELSE BioEndIo(d, b)

\* The pages of the file a read command fills.
CmdPages(b, c) == IF b.kind = "adm" THEN {} ELSE b.pg + c.first .. b.pg + c.first + c.nr - 1

\* The BIO ends when no page of it is left.
EndIfDone(d, b) == IF d.bios[b].vcnt = 0 THEN EndIo(d, b) ELSE d

\* __read_complete: copy the command's pages and mark them uptodate.
ReadComplete(d, c) ==
    LET pg == CmdPages(d.bios[c.bio], c)
    IN  EndIfDone([d EXCEPT !.held     = [p \in Pages |-> @[p] \/ p \in pg],
                            !.uptodate = [p \in Pages |-> @[p] \/ p \in pg],
                            !.bios[c.bio].vcnt = @ - c.nr], c.bio)

\* bio_wr_complete
WriteComplete(d, c) == EndIfDone([d EXCEPT !.bios[c.bio].vcnt = @ - c.nr], c.bio)

CompleteCmd(c, d) ==
    CASE c.kind = "rd" -> ReadComplete(d, c)
      [] c.kind = "wr" -> WriteComplete(d, c)
      [] c.kind = "bh" -> BhEndIo(d)
      [] c.kind = "dw" -> d

\* read_complete and bio_wr_complete give the slot back.
ReleaseSlot(c, ring) == IF c.kind \in {"rd", "wr"} THEN Release(ring, c.slot, 1) ELSE ring

\* nvme_process_cmpls / spdk_nvme_qpair_process_completions: the device has
\* finished the commands S of t's queue pair and their callbacks run.
Poll(t, S) ==
    LET d == FoldSet(CompleteCmd, Done, S)
    IN  /\ folio' = d.folio
        /\ uptodate' = d.uptodate
        /\ held' = d.held
        /\ bios' = d.bios
        /\ buf' = d.buf
        /\ adm' = [adm EXCEPT !.sem = d.sem]
        /\ io' = [io EXCEPT ![t].qp = @ \ S,
                            ![t].ring = FoldSet(ReleaseSlot, @, S)]

Finished(t) == SUBSET io[t].qp \ {{}}

----------------------------------------------------------------------------
(* Reading a metadata block: fs/buffer.c, sb_bread.  rd[t] is the thread's *)
(* place in it; a caller starts at "get" and resumes at "got" or "fail".   *)

Maybe(what) == IF what \in MallocFails THEN BOOLEAN ELSE {TRUE}

RdAt(t, pcs) == up /\ rd[t] \in pcs
Rd(t, pc) == rd' = [rd EXCEPT ![t] = pc]

\* get_buffer_head
BreadGet(t) ==
    /\ RdAt(t, {"get"})
    /\ Rd(t, IF buf.cached THEN "check" ELSE "alloc")
    /\ UNCHANGED <<kq, page_vars, bios, io, rw, iw, buf, pool_vars, adm, left, up>>

\* alloc_buffer: whoever loses the race for the hash slot takes the winner's.
BreadAlloc(t) ==
    /\ RdAt(t, {"alloc"})
    /\ buf' = IF buf.cached THEN buf
              ELSE [cached |-> TRUE, new |-> TRUE, uptodate |-> FALSE, locked |-> FALSE]
    /\ Rd(t, "check")
    /\ UNCHANGED <<kq, page_vars, bios, io, rw, iw, pool_vars, adm, left, up>>

\* __sb_bread
BreadCheck(t) ==
    /\ RdAt(t, {"check"})
    /\ Rd(t, IF buf.uptodate THEN "got" ELSE "lock")
    /\ UNCHANGED <<kq, page_vars, bios, io, rw, iw, buf, pool_vars, adm, left, up>>

\* slow_bread up to wait_on_buffer, with submit_bh and iod_submit_bh: an io
\* thread puts the command on its own queue pair, any other queues a job.
\* Without memory for the BIO nothing is submitted and the buffer stays locked.
BreadLock(t) ==
    /\ RdAt(t, {"lock"})
    /\ ~buf.locked
    /\ \E ok \in Maybe("bh") :
         LET own == t \in Tids /\ ok /\ ~buf.uptodate
             job == t \notin Tids /\ ok /\ ~buf.uptodate
         IN  /\ buf' = [buf EXCEPT !.locked = ~buf.uptodate]
             /\ io' = IF own THEN [io EXCEPT ![t].qp = @ \cup {BhCmd}] ELSE io
             /\ jobs' = IF job THEN Append(jobs, [kind |-> "bh", bio |-> NoBio]) ELSE jobs
             /\ Rd(t, IF buf.uptodate THEN "got" ELSE IF own THEN "poll" ELSE "wait")
    /\ UNCHANGED <<kq, page_vars, bios, rw, iw, rdq, pumps, fsyncs, adm, left, up>>

\* nvme_rd_submit_bh polls until something has completed on its queue pair.
BreadPoll(t) ==
    /\ RdAt(t, {"poll"})
    /\ \E S \in Finished(t) : Poll(t, S)
    /\ Rd(t, "wait")
    /\ UNCHANGED <<kq, lost, rw, iw, pool_vars, left, up>>

\* wait_on_buffer
BreadWait(t) ==
    /\ RdAt(t, {"wait"})
    /\ ~buf.locked
    /\ Rd(t, IF buf.uptodate THEN "got" ELSE "fail")
    /\ UNCHANGED <<kq, page_vars, bios, io, rw, iw, buf, pool_vars, adm, left, up>>

Bread(t) ==
    \/ BreadGet(t)
    \/ BreadAlloc(t)
    \/ BreadCheck(t)
    \/ BreadLock(t)
    \/ BreadPoll(t)
    \/ BreadWait(t)

\* A directory worker or the journal thread reads the block.
FsStart(t) ==
    /\ RdAt(t, {"none"})
    /\ left.bread > 0
    /\ left' = [left EXCEPT !.bread = @ - 1]
    /\ Rd(t, "get")
    /\ UNCHANGED <<kq, page_vars, bios, io, rw, iw, buf, pool_vars, adm, up>>

FsDone(t) ==
    /\ RdAt(t, {"got", "fail"})
    /\ Rd(t, "none")
    /\ UNCHANGED <<kq, page_vars, bios, io, rw, iw, buf, pool_vars, adm, left, up>>

----------------------------------------------------------------------------
(* The kernel's requests.                                                  *)

Ask(ev, pages) ==
    /\ up /\ left.kernel > 0
    /\ pages \subseteq {p \in Pages : folio[p] \notin {"locked", "valid"}}
    /\ left' = [left EXCEPT !.kernel = @ - 1]
    /\ folio' = Tell(folio, pages, "locked")
    /\ kq' = Append(kq, [ev |-> ev, pg |-> Min(pages), nr |-> Cardinality(pages)])
    /\ UNCHANGED <<lost, uptodate, held, bios, io, rw, iw, rd, buf, pool_vars, adm, up>>

KernelReadahead ==
    \E p \in Pages, n \in 1 .. MaxWindow : p + n <= NPages /\ Ask("ra", p .. p + n - 1)

KernelReadFolio == \E p \in Pages : Ask("page", {p})

----------------------------------------------------------------------------
(* Read workers: kernfs/file_ops.c, fs/mpage.c.  pg .. fin - 1 are the     *)
(* pages of the current message that no BIO and no answer covers yet.      *)

IdleReader ==
    [pc |-> "idle", ev |-> "ra", pg |-> 0, end |-> 0, fin |-> 0, msgs |-> <<>>,
     cur |-> NoBio, batch |-> <<>>, idx |-> 1, infl |-> 0, ret |-> "idle"]

RwAt(t, pcs) == up /\ rw[t].pc \in pcs

\* drain_legacy_fd_messages: read a batch of messages.
RwTake(t) ==
    /\ RwAt(t, {"idle", "msg"})
    /\ rw[t].msgs = <<>>
    /\ kq # <<>>
    /\ LET n == Min({MsgBatch, Len(kq)})
       IN  /\ rw' = [rw EXCEPT ![t].pc = "msg", ![t].msgs = SubSeq(kq, 1, n)]
           /\ kq' = SubSeq(kq, n + 1, Len(kq))
    /\ UNCHANGED <<page_vars, bios, io, iw, rd, buf, pool_vars, adm, left, up>>

\* read_worker_loop: nothing is left to read, inline_batch_flush.
RwFlush(t) ==
    /\ RwAt(t, {"msg"})
    /\ rw[t].msgs = <<>>
    /\ kq = <<>>
    /\ rw' = [rw EXCEPT ![t].pc = "submit", ![t].ret = "idle", ![t].idx = 1]
    /\ UNCHANGED <<kq, page_vars, bios, io, iw, rd, buf, pool_vars, adm, left, up>>

\* do_readahead and the start of mpage_readahead: a window that starts beyond
\* the end of the file is reported without reading it, the part of it beyond
\* the end is left for the last step.
RwReadahead(t) ==
    LET m == Head(rw[t].msgs)
    IN  /\ RwAt(t, {"msg"})
        /\ rw[t].msgs # <<>>
        /\ m.ev = "ra"
        /\ \E mapped \in Maybe("mmap") :
             LET go  == mapped /\ m.pg < FileBlks
                 all == m.pg .. m.pg + m.nr - 1
             IN  /\ rw' = [rw EXCEPT ![t].msgs = Tail(@),
                                     ![t].ev = "ra",
                                     ![t].pc = IF go THEN "group" ELSE "msg",
                                     ![t].pg = IF go THEN m.pg ELSE 0,
                                     ![t].end = IF go THEN Min({m.pg + m.nr, FileBlks}) ELSE 0,
                                     ![t].fin = IF go THEN m.pg + m.nr ELSE 0]
                 /\ folio' = IF go THEN folio
                             ELSE Tell(folio, all, IF mapped THEN "valid" ELSE "failed")
        /\ UNCHANGED <<kq, lost, uptodate, held, bios, io, iw, rd, buf, pool_vars, adm, left, up>>

\* do_readpage and mpage_readpage up to get_blocks: every early return wakes
\* the reader with READ_END.
RwReadpage(t) ==
    LET m == Head(rw[t].msgs)
    IN  /\ RwAt(t, {"msg"})
        /\ rw[t].msgs # <<>>
        /\ m.ev = "page"
        /\ \E mapped \in Maybe("mmap"), ok \in Maybe("bio") :
             LET go == ~uptodate[m.pg] /\ mapped /\ ok /\ m.pg < FileBlks
             IN  /\ rw' = [rw EXCEPT ![t].msgs = Tail(@),
                                     ![t].ev = "page",
                                     ![t].pc = IF go THEN "issue" ELSE "msg",
                                     ![t].pg = IF go THEN m.pg ELSE 0,
                                     ![t].end = IF go THEN m.pg + 1 ELSE 0,
                                     ![t].fin = IF go THEN m.pg + 1 ELSE 0]
                 /\ rd' = IF go THEN [rd EXCEPT ![t] = "get"] ELSE rd
                 /\ folio' = IF go THEN folio ELSE Tell(folio, {m.pg}, "woken")
        /\ UNCHANGED <<kq, lost, uptodate, held, bios, io, iw, buf, pool_vars, adm, left, up>>

\* The pages of the next group of the window.
GroupSize(t) == Min({rw[t].end - rw[t].pg, GrpPages})
Group(t) == rw[t].pg .. rw[t].pg + GroupSize(t) - 1

\* mpage_readahead: a group all of whose pages are uptodate is reported at
\* once, for any other the block mapping is read.
RwGroup(t) ==
    /\ RwAt(t, {"group"})
    /\ rw[t].pg < rw[t].end
    /\ IF \A p \in Group(t) : uptodate[p]
       THEN /\ folio' = Tell(folio, Group(t), "valid")
            /\ rw' = [rw EXCEPT ![t].pg = @ + GroupSize(t)]
            /\ UNCHANGED rd
       ELSE /\ Rd(t, "get")
            /\ rw' = [rw EXCEPT ![t].pc = "issue"]
            /\ UNCHANGED folio
    /\ UNCHANGED <<kq, lost, uptodate, held, bios, io, iw, buf, pool_vars, adm, left, up>>

\* mpage_readahead: the pages beyond the end of the file are reported last.
RwLeftover(t) ==
    /\ RwAt(t, {"group"})
    /\ rw[t].pg >= rw[t].end
    /\ folio' = Tell(folio, rw[t].pg .. rw[t].fin - 1, "valid")
    /\ rw' = [rw EXCEPT ![t].pc = "msg", ![t].pg = 0, ![t].end = 0, ![t].fin = 0]
    /\ UNCHANGED <<kq, lost, uptodate, held, bios, io, iw, rd, buf, pool_vars, adm, left, up>>

\* The group's pages up to the end of the extent.
IoNr(t) == Min({GroupSize(t), ExtEnd[rw[t].pg] - rw[t].pg})

\* Mutant: the window moves on by the group, not by the pages of the BIO.
NextPgGroup(t) == rw[t].pg + GroupSize(t)

\* Where the window continues after a BIO.
NextPg(t) == rw[t].pg + IoNr(t)

\* mpage_readahead, from the answer of get_blocks to mpage_bio_submit.  A
\* failure reports the group, or the part of it the BIO was for, and returns:
\* the rest of the window is never reported.
RwIssue(t) ==
    /\ RwAt(t, {"issue"})
    /\ rw[t].ev = "ra"
    /\ RdAt(t, {"got", "fail"})
    /\ Rd(t, "none")
    /\ \E ok \in Maybe("bio") :
         LET hole == rd[t] = "fail" \/ rw[t].pg \in NoMap
             n    == IF hole THEN GroupSize(t) ELSE IoNr(t)
             pg   == rw[t].pg
         IN  IF hole \/ ~ok
             THEN /\ folio' = Tell(folio, pg .. pg + n - 1, "failed")
                  /\ lost' = lost \cup (pg + n .. rw[t].fin - 1)
                  /\ rw' = [rw EXCEPT ![t].pc = "msg", ![t].pg = 0, ![t].end = 0, ![t].fin = 0]
                  /\ UNCHANGED bios
             ELSE /\ bios' = Append(bios, NewBio("ra", pg, n))
                  /\ rw' = [rw EXCEPT ![t].pc = "append", ![t].cur = Len(bios) + 1,
                                      ![t].pg = NextPg(t)]
                  /\ UNCHANGED <<folio, lost>>
    /\ UNCHANGED <<kq, uptodate, held, io, iw, buf, pool_vars, adm, left, up>>

\* mpage_readpage after get_blocks; a page without a block is a panic.
RwIssuePage(t) ==
    /\ RwAt(t, {"issue"})
    /\ rw[t].ev = "page"
    /\ RdAt(t, {"got", "fail"})
    /\ Rd(t, "none")
    /\ LET hole == rd[t] = "fail" \/ rw[t].pg \in NoMap
           pg   == rw[t].pg
       IN  /\ up' = ~hole
           /\ folio' = IF hole THEN Tell(folio, {pg}, "woken") ELSE folio
           /\ bios' = IF hole THEN bios ELSE Append(bios, NewBio("page", pg, 1))
           /\ rw' = [rw EXCEPT ![t].pc = IF hole THEN "msg" ELSE "append",
                               ![t].cur = IF hole THEN NoBio ELSE Len(bios) + 1,
                               ![t].pg = 0, ![t].end = 0, ![t].fin = 0]
    /\ UNCHANGED <<kq, lost, uptodate, held, io, iw, buf, pool_vars, adm, left>>

\* iod_submit_bio: append to the batch, after draining a full one.
RwAppend(t) ==
    /\ RwAt(t, {"append"})
    /\ rw' = IF Len(rw[t].batch) >= BatchMax
             THEN [rw EXCEPT ![t].pc = "submit", ![t].ret = "append", ![t].idx = 1]
             ELSE [rw EXCEPT ![t].pc = IF rw[t].ev = "ra" THEN "group" ELSE "msg",
                             ![t].batch = Append(@, rw[t].cur),
                             ![t].cur = NoBio]
    /\ UNCHANGED <<kq, page_vars, bios, io, iw, rd, buf, pool_vars, adm, left, up>>

\* nvme_submit_bio_inline, "Top up": the pending BIO first, then the batch;
\* idx moves on only when the call that was given batch[idx] used it up.
RECURSIVE TopUp(_, _)
TopUp(s, r) ==
    LET b    == IF s.pend # NoBio THEN s.pend ELSE r.batch[r.idx]
        s1   == SubmitOne(s, b, s.off)
        sent == Cardinality(s1.qp) - Cardinality(s.qp)
        r1   == [r EXCEPT !.infl = @ + sent,
                          !.idx = IF s.pend = NoBio /\ s1.pend = NoBio THEN @ + 1 ELSE @]
    IN  IF r.infl >= Qd \/ (s.pend = NoBio /\ r.idx > Len(r.batch)) THEN <<s, r>>
        ELSE IF sent = 0 THEN <<s1, r1>>
        ELSE TopUp(s1, r1)

\* nvme_submit_bio_inline, "Done?"
InlineDone(s, r) == r.infl = 0 /\ r.idx > Len(r.batch) /\ s.pend = NoBio

RwSubmit(t) ==
    /\ RwAt(t, {"submit"})
    /\ \E x \in {TopUp(io[t], rw[t])} :
         LET s == x[1]
             r == x[2]
         IN  /\ io' = [io EXCEPT ![t] = s]
             /\ rw' = [rw EXCEPT ![t] =
                         IF InlineDone(s, r)
                         THEN [r EXCEPT !.pc = r.ret, !.batch = <<>>, !.idx = 1, !.infl = 0]
                         ELSE [r EXCEPT !.pc = IF r.infl > 0 THEN "poll" ELSE "submit"]]
    /\ UNCHANGED <<kq, page_vars, bios, iw, rd, buf, pool_vars, adm, left, up>>

\* nvme_submit_bio_inline, the polling loop; more completions than commands
\* in flight is a panic (nvme_process_cmpls).
RwPoll(t) ==
    /\ RwAt(t, {"poll"})
    /\ \E S \in Finished(t) :
         LET infl == rw[t].infl - Cardinality(S)
             more == infl < Qd /\ (rw[t].idx <= Len(rw[t].batch) \/ io[t].pend # NoBio)
         IN  /\ Poll(t, S)
             /\ up' = (infl >= 0)
             /\ rw' = [rw EXCEPT ![t].infl = infl,
                                 ![t].pc = IF infl = 0 \/ more THEN "submit" ELSE "poll"]
    /\ UNCHANGED <<kq, lost, iw, rd, pool_vars, left>>

RwNext(t) ==
    \/ RwTake(t)
    \/ RwFlush(t)
    \/ RwReadahead(t)
    \/ RwReadpage(t)
    \/ RwGroup(t)
    \/ RwLeftover(t)
    \/ RwIssue(t)
    \/ RwIssuePage(t)
    \/ RwAppend(t)
    \/ RwSubmit(t)
    \/ RwPoll(t)
    \/ Bread(t)

----------------------------------------------------------------------------
(* Read pumps: how many there should be and what each may submit.          *)

FsyncActive == fsyncs > 0

\* nvme_rd_budget_for_qos
Budget == Max({1, IF FsyncActive THEN BudgetFsync ELSE BudgetNormal})

\* nvme_rd_max_pumps_for_qos
MaxPumps ==
    LET hard == Max({1, NumQpair})
        pct  == Max({0, Min({100, PumpPct})})
        cfg  == IF FsyncActive THEN (hard * pct + 99) \div 100
                ELSE IF PumpMax > 0 THEN PumpMax ELSE hard
    IN  Min({hard, Max({1, cfg})})

\* nvme_rd_min_quota_for_qos
MinPumps == IF FsyncActive THEN Min({MaxPumps, Max({0, MinQuota})}) ELSE 0

\* nvme_rd_desired_pumps
DesiredPumps(backlog) == Max({1, MinPumps, Min({backlog, MaxPumps})})

\* nvme_schedule_read_pump up to its loop: pumps still needed.
NeededPumps ==
    IF RingCount(rdq) = 0 THEN 0
    ELSE Max({0, DesiredPumps(RingCount(rdq)) - (pumps.active + pumps.scheduled)})

PumpJob == [kind |-> "pump", bio |-> NoBio]

\* The loop of nvme_schedule_read_pump.
AddPumps(n) ==
    /\ pumps' = [pumps EXCEPT !.scheduled = @ + n]
    /\ jobs' = jobs \o [i \in 1 .. n |-> PumpJob]

----------------------------------------------------------------------------
(* Io workers.                                                             *)

IdleWorker == [pc |-> "idle", bio |-> NoBio, pos |-> 0, infl |-> 0, tot |-> 0, work |-> 0, budget |-> 0]

IwAt(t, pcs) == up /\ iw[t].pc \in pcs
Job == Head(jobs)

\* nvme_rd_submit_bh on behalf of another thread.
TakeBh(t) ==
    /\ IwAt(t, {"idle"})
    /\ jobs # <<>>
    /\ Job.kind = "bh"
    /\ jobs' = Tail(jobs)
    /\ io' = [io EXCEPT ![t].qp = @ \cup {BhCmd}]
    /\ iw' = [iw EXCEPT ![t].pc = "bh"]
    /\ UNCHANGED <<kq, page_vars, bios, rw, rd, buf, rdq, pumps, fsyncs, adm, left, up>>

PollBh(t) ==
    /\ IwAt(t, {"bh"})
    /\ \E S \in Finished(t) : Poll(t, S)
    /\ iw' = [iw EXCEPT ![t] = IdleWorker]
    /\ UNCHANGED <<kq, lost, rw, rd, pool_vars, left, up>>

\* do_fsync: fsync_inflight covers stage_file, which reads metadata first and
\* then writes its staging transaction from the slots 0, 1, ...
TakeFsync(t) ==
    /\ IwAt(t, {"idle"})
    /\ jobs # <<>>
    /\ Job.kind = "fsync"
    /\ jobs' = Tail(jobs)
    /\ fsyncs' = fsyncs + 1
    /\ iw' = [iw EXCEPT ![t].pc = "stage"]
    /\ Rd(t, "get")
    /\ UNCHANGED <<kq, page_vars, bios, io, rw, buf, rdq, pumps, adm, left, up>>

\* nvme_direct_write_async: one command per slot, no slot is taken from the
\* ring.  Without its metadata the fsync returns an error.
DirectWrite(t) ==
    /\ IwAt(t, {"stage"})
    /\ RdAt(t, {"got", "fail"})
    /\ Rd(t, "none")
    /\ LET n == IF rd[t] = "fail" THEN 0 ELSE SeqsPerFsync
       IN  /\ io' = [io EXCEPT ![t].qp = @ \cup {Cmd("dw", i, NoBio, 0, 1) : i \in 0 .. n - 1}]
           /\ iw' = [iw EXCEPT ![t] = IF n = 0 THEN IdleWorker
                                      ELSE [@ EXCEPT !.pc = "drain", !.infl = n]]
           /\ fsyncs' = IF n = 0 THEN fsyncs - 1 ELSE fsyncs
    /\ UNCHANGED <<kq, page_vars, bios, rw, buf, jobs, rdq, pumps, adm, left, up>>

\* nvme_direct_write_async_wait_complete
DrainWrites(t) ==
    /\ IwAt(t, {"drain"})
    /\ \E S \in Finished(t) :
         LET infl == iw[t].infl - Cardinality(S)
         IN  /\ Poll(t, S)
             /\ iw' = [iw EXCEPT ![t] = IF infl <= 0 THEN IdleWorker ELSE [@ EXCEPT !.infl = infl]]
             /\ fsyncs' = IF infl <= 0 THEN fsyncs - 1 ELSE fsyncs
    /\ UNCHANGED <<kq, lost, rw, rd, jobs, rdq, pumps, left, up>>

\* nvme_wr_submit_bio: a slot and a command per MaxIo pages, then polling.
TakeWrite(t) ==
    /\ IwAt(t, {"idle"})
    /\ jobs # <<>>
    /\ Job.kind = "wr"
    /\ jobs' = Tail(jobs)
    /\ iw' = [iw EXCEPT ![t].pc = "write", ![t].bio = Job.bio]
    /\ UNCHANGED <<kq, page_vars, bios, io, rw, rd, buf, rdq, pumps, fsyncs, adm, left, up>>

SubmitWrite(t) ==
    LET b == iw[t].bio
        n == Min({MaxIo, bios[b].nr - iw[t].pos})
    IN  /\ IwAt(t, {"write"})
        /\ iw[t].pos < bios[b].nr
        /\ CanAcquire(io[t].ring, 1)
        /\ io' = [io EXCEPT ![t].ring = Acquire(@, 1),
                            ![t].qp = @ \cup {Cmd("wr", io[t].ring.head, b, iw[t].pos, n)}]
        /\ iw' = [iw EXCEPT ![t].pos = @ + n, ![t].infl = @ + 1]
        /\ UNCHANGED <<kq, page_vars, bios, rw, rd, buf, pool_vars, adm, left, up>>

PollWrite(t) ==
    /\ IwAt(t, {"write"})
    /\ iw[t].pos >= bios[iw[t].bio].nr
    /\ \E S \in Finished(t) :
         LET infl == iw[t].infl - Cardinality(S)
         IN  /\ Poll(t, S)
             /\ iw' = [iw EXCEPT ![t] = IF infl <= 0 THEN IdleWorker ELSE [@ EXCEPT !.infl = infl]]
    /\ UNCHANGED <<kq, lost, rw, rd, pool_vars, left, up>>

\* nvme_rd_submit_bio up to nvme_submit_bio.
TakePump(t) ==
    /\ IwAt(t, {"idle"})
    /\ jobs # <<>>
    /\ Job.kind = "pump"
    /\ jobs' = Tail(jobs)
    /\ pumps' = [active |-> pumps.active + 1, scheduled |-> Max({0, pumps.scheduled - 1})]
    /\ iw' = [iw EXCEPT ![t].pc = "pump", ![t].budget = Budget]
    /\ UNCHANGED <<kq, page_vars, bios, io, rw, rd, buf, rdq, fsyncs, adm, left, up>>

\* nvme_submit_bio, pipelined: another BIO is submitted while the budget lasts
\* and fewer than Qd commands are in flight, if there is one.
MoreWork(t) ==
    /\ iw[t].tot < iw[t].budget
    /\ iw[t].infl < Qd
    /\ io[t].pend # NoBio \/ DequeueReady(rdq)

\* __nvme_rd_submit_bio: ring_buffer_mpmc_try_dequeue claims the position ...
PumpClaim(t) ==
    /\ IwAt(t, {"pump"})
    /\ MoreWork(t)
    /\ rdq' = IF io[t].pend # NoBio THEN rdq ELSE DequeueClaim(rdq)
    /\ iw' = [iw EXCEPT ![t].pc = "claimed", ![t].pos = rdq.deq,
                        ![t].bio = IF io[t].pend # NoBio THEN io[t].pend
                                   ELSE SlotOf(rdq, rdq.deq).value]
    /\ UNCHANGED <<kq, page_vars, bios, io, rw, rd, buf, jobs, pumps, fsyncs, adm, left, up>>

\* ... and gives the slot back; the BIO is submitted.
PumpSubmit(t) ==
    /\ IwAt(t, {"claimed"})
    /\ rdq' = IF io[t].pend # NoBio THEN rdq ELSE DequeueRelease(rdq, iw[t].pos)
    /\ \E s \in {SubmitOne(io[t], iw[t].bio, io[t].off)} :
         LET sent == Cardinality(s.qp) - Cardinality(io[t].qp)
         IN  /\ io' = [io EXCEPT ![t] = s]
             /\ iw' = [iw EXCEPT ![t].pc = "pump", ![t].bio = NoBio, ![t].pos = 0,
                                 ![t].infl = @ + sent, ![t].tot = @ + sent]
    /\ UNCHANGED <<kq, page_vars, bios, rw, rd, buf, jobs, pumps, fsyncs, adm, left, up>>

PumpPoll(t) ==
    /\ IwAt(t, {"pump"})
    /\ iw[t].infl > 0
    /\ \E S \in Finished(t) :
         LET infl == iw[t].infl - Cardinality(S)
         IN  /\ Poll(t, S)
             /\ up' = (infl >= 0)
             /\ iw' = [iw EXCEPT ![t].infl = infl, ![t].work = @ + Cardinality(S)]
    /\ UNCHANGED <<kq, lost, rw, rd, pool_vars, left>>

\* nvme_submit_bio returns: nothing in flight, and no budget or no BIO left.
PumpExit(t) ==
    /\ IwAt(t, {"pump"})
    /\ iw[t].infl = 0
    /\ ~MoreWork(t)
    /\ pumps' = [pumps EXCEPT !.active = @ - 1]
    /\ iw' = [iw EXCEPT ![t].pc = "exit"]
    /\ UNCHANGED <<kq, page_vars, bios, io, rw, rd, buf, jobs, rdq, fsyncs, adm, left, up>>

\* Mutant: a pump that leaves does not look at the backlog.
PumpAgainNever(t) ==
    /\ IwAt(t, {"exit"})
    /\ iw' = [iw EXCEPT ![t] = IdleWorker]
    /\ UNCHANGED <<kq, page_vars, bios, io, rw, rd, buf, pool_vars, adm, left, up>>

\* The end of nvme_rd_submit_bio: look at the backlog once more ...
PumpAgain(t) ==
    /\ IwAt(t, {"exit"})
    /\ LET again == RingCount(rdq) > 0 \/ iw[t].work > 0
           need  == IF again THEN NeededPumps ELSE 0
       IN  iw' = [iw EXCEPT ![t] = IF need = 0 THEN IdleWorker
                                   ELSE [IdleWorker EXCEPT !.pc = "add", !.tot = need]]
    /\ UNCHANGED <<kq, page_vars, bios, io, rw, rd, buf, pool_vars, adm, left, up>>

\* ... and queue the pumps it needs.
PumpAdd(t) ==
    /\ IwAt(t, {"add"})
    /\ AddPumps(iw[t].tot)
    /\ iw' = [iw EXCEPT ![t] = IdleWorker]
    /\ UNCHANGED <<kq, page_vars, bios, io, rw, rd, buf, rdq, fsyncs, adm, left, up>>

IwNext(t) ==
    \/ TakeBh(t)
    \/ PollBh(t)
    \/ TakeFsync(t)
    \/ DirectWrite(t)
    \/ DrainWrites(t)
    \/ TakeWrite(t)
    \/ SubmitWrite(t)
    \/ PollWrite(t)
    \/ TakePump(t)
    \/ PumpClaim(t)
    \/ PumpSubmit(t)
    \/ PumpPoll(t)
    \/ PumpExit(t)
    \/ PumpAgain(t)
    \/ PumpAdd(t)
    \/ Bread(t)

\* An application's fsync reaches the pool.
FsyncRequest ==
    /\ up /\ left.fsync > 0
    /\ left' = [left EXCEPT !.fsync = @ - 1]
    /\ jobs' = Append(jobs, [kind |-> "fsync", bio |-> NoBio])
    /\ UNCHANGED <<kq, page_vars, bios, io, rw, iw, rd, buf, rdq, pumps, fsyncs, adm, up>>

----------------------------------------------------------------------------
(* The administrator: utils/sync_device.c, one BIO at a time.              *)

IdleAdmin == [pc |-> "idle", op |-> "dump", todo |-> 0, bio |-> NoBio, need |-> 0,
              pos |-> 0, sem |-> 0]

AdmAt(pc) == up /\ adm.pc = pc

\* sync_device_sig_handler starts a dump of the staging area or a load of the
\* file system area.
AdmStart ==
    /\ AdmAt("idle")
    /\ left.admin > 0
    /\ left' = [left EXCEPT !.admin = @ - 1]
    /\ \E op \in {"dump", "load"} :
         adm' = [IdleAdmin EXCEPT !.pc = "next", !.op = op, !.todo = AdminBlks]
    /\ UNCHANGED <<kq, page_vars, bios, io, rw, iw, rd, buf, pool_vars, up>>

AdmChunk == Min({ChunkBlks, adm.todo})

\* load_blocks_from_file: the write BIO becomes a job.
AdmWrite ==
    /\ AdmAt("next")
    /\ adm.todo > 0
    /\ adm.op = "load"
    /\ bios' = Append(bios, NewBio("adm", 0, AdmChunk))
    /\ jobs' = Append(jobs, [kind |-> "wr", bio |-> Len(bios) + 1])
    /\ adm' = [adm EXCEPT !.pc = "wait", !.todo = @ - AdmChunk]
    /\ UNCHANGED <<kq, page_vars, io, rw, iw, rd, buf, rdq, pumps, fsyncs, left, up>>

\* dump_blocks_to_file, iod_submit_bio_general, iod_enqueue_bio: claim a
\* position of the BIO queue, ...
AdmRead ==
    /\ AdmAt("next")
    /\ adm.todo > 0
    /\ adm.op = "dump"
    /\ EnqueueReady(rdq)
    /\ bios' = Append(bios, NewBio("adm", 0, AdmChunk))
    /\ rdq' = EnqueueClaim(rdq)
    /\ adm' = [adm EXCEPT !.pc = "publish", !.bio = Len(bios) + 1, !.pos = rdq.enq,
                        !.todo = @ - AdmChunk]
    /\ UNCHANGED <<kq, page_vars, io, rw, iw, rd, buf, jobs, pumps, fsyncs, left, up>>

\* ... publish the BIO there, ...
AdmPublish ==
    /\ AdmAt("publish")
    /\ rdq' = EnqueuePublish(rdq, adm.pos, adm.bio)
    /\ adm' = [adm EXCEPT !.pc = "sched", !.bio = NoBio, !.pos = 0]
    /\ UNCHANGED <<kq, page_vars, bios, io, rw, iw, rd, buf, jobs, pumps, fsyncs, left, up>>

\* ... and see to it that a pump runs.
AdmSchedule ==
    /\ AdmAt("sched")
    /\ adm' = [adm EXCEPT !.pc = IF NeededPumps > 0 THEN "add" ELSE "wait", !.need = NeededPumps]
    /\ UNCHANGED <<kq, page_vars, bios, io, rw, iw, rd, buf, pool_vars, left, up>>

AdmAddPumps ==
    /\ AdmAt("add")
    /\ AddPumps(adm.need)
    /\ adm' = [adm EXCEPT !.pc = "wait", !.need = 0]
    /\ UNCHANGED <<kq, page_vars, bios, io, rw, iw, rd, buf, rdq, fsyncs, left, up>>

\* sem_wait(&sync_dev_sem)
AdmWait ==
    /\ AdmAt("wait")
    /\ adm.sem > 0
    /\ adm' = [adm EXCEPT !.pc = IF adm.todo = 0 THEN "idle" ELSE "next", !.sem = @ - 1]
    /\ UNCHANGED <<kq, page_vars, bios, io, rw, iw, rd, buf, pool_vars, left, up>>

AdmNext ==
    \/ AdmWrite
    \/ AdmRead
    \/ AdmPublish
    \/ AdmSchedule
    \/ AdmAddPumps
    \/ AdmWait

----------------------------------------------------------------------------

Init ==
    /\ kq = <<>>
    /\ folio = [p \in Pages |-> "absent"]
    /\ lost = {}
    /\ uptodate = [p \in Pages |-> FALSE]
    /\ held = [p \in Pages |-> FALSE]
    /\ bios = <<>>
    /\ io = [t \in Tids |-> IdleThread]
    /\ rw = [t \in RW |-> IdleReader]
    /\ iw = [t \in IW |-> IdleWorker]
    /\ rd = [t \in Threads |-> "none"]
    /\ buf = [cached |-> FALSE, new |-> FALSE, uptodate |-> FALSE, locked |-> FALSE]
    /\ jobs = <<>>
    /\ rdq = CreateRing
    /\ pumps = [active |-> 0, scheduled |-> 0]
    /\ fsyncs = 0
    /\ adm = IdleAdmin
    /\ left \in Workloads
    /\ up = TRUE

FsNext(t) == FsDone(t) \/ Bread(t)

Next ==
    \/ KernelReadahead
    \/ KernelReadFolio
    \/ FsyncRequest
    \/ AdmStart
    \/ AdmNext
    \/ \E t \in FS : FsStart(t) \/ FsNext(t)
    \/ \E t \in RW : RwNext(t)
    \/ \E t \in IW : IwNext(t)

\* Every thread runs, and the device completes what it was given: a poll that
\* finds something is a step of the thread that polls.  The requests of the
\* kernel, of applications and of the administrator may stop at any time.
Fairness ==
    /\ \A t \in RW : WF_vars(RwNext(t))
    /\ \A t \in IW : WF_vars(IwNext(t))
    /\ \A t \in FS : WF_vars(FsNext(t))
    /\ WF_vars(AdmNext)

Spec == Init /\ [][Next]_vars /\ Fairness

----------------------------------------------------------------------------
(* Properties.                                                             *)

BioIds == 0 .. Len(bios)

\* Types of the variables; a panic is not among the reachable states unless a
\* page has no block.
TypeOK ==
    /\ folio \in [Pages -> {"absent", "locked", "valid", "failed", "woken"}]
    /\ lost \subseteq Pages
    /\ uptodate \in [Pages -> BOOLEAN]
    /\ held \in [Pages -> BOOLEAN]
    /\ \A b \in DOMAIN bios : bios[b].vcnt \in 0 .. bios[b].nr
    /\ \A t \in Tids : io[t].ring \in RingType /\ io[t].pend \in BioIds
    /\ \A t \in RW : rw[t].infl \in 0 .. SeqCap
    /\ rd \in [Threads -> {"none", "get", "alloc", "check", "lock", "poll", "wait", "got", "fail"}]
    /\ pumps.active \in 0 .. SeThreads /\ pumps.scheduled \in Nat
    /\ fsyncs \in 0 .. SeThreads
    /\ adm.sem \in {0, 1}
    /\ NoMap = {} => up

Msgs == ToSet(kq) \cup UNION {ToSet(rw[t].msgs) : t \in RW}

\* Who will end the read of page p: a message not yet dispatched, the rest of
\* the message a worker is at, or a BIO.
Owners(p) ==
    {m \in Msgs : p \in m.pg .. m.pg + m.nr - 1}
    \cup {t \in RW : p \in rw[t].pg .. rw[t].fin - 1}
    \cup {<<b>> : b \in {b \in DOMAIN bios : /\ bios[b].live
                                             /\ bios[b].kind # "adm"
                                             /\ p \in PagesOf(bios[b])}}

\* A page the kernel keeps locked has exactly one owner that will unlock it,
\* and a page that is not locked has none: no page is reported twice, none is
\* forgotten, whatever the group, extent and end-of-file boundaries do to the
\* window (mpage_readahead, iod_submit_bio, mpage_end_io).
OneOwner ==
    up => \A p \in Pages :
            Cardinality(Owners(p)) = IF folio[p] = "locked" /\ p \notin lost THEN 1 ELSE 0

\* A page marked uptodate in the shared metadata, and a page of the file that
\* RA_END reported as good, has been filled from the disk.
ServedHolds ==
    \A p \in Pages : uptodate[p] \/ (folio[p] = "valid" /\ p < FileBlks) => held[p]

Sent(b) ==
    FoldSet(LAMBDA x, acc : acc + x[2].nr, 0,
            {x \in UNION {{t} \X io[t].qp : t \in Tids} : x[2].bio = b})

\* A command on a queue pair belongs to a BIO that is still allocated, and a
\* BIO never has more pages on the way than it still waits for ("inconsistent"
\* in __read_complete, a use after free in the callback otherwise).
LiveBios ==
    \A t \in Tids : \A c \in io[t].qp :
        c.bio # NoBio => bios[c.bio].live /\ Sent(c.bio) <= bios[c.bio].vcnt

\* The commands of a queue pair use different slots, and the ring's busy bits
\* and count are those of its commands: staging writes take their slots
\* without asking the ring (nvme_direct_write_async_internal).
SlotsAgree ==
    \A t \in Tids :
        LET data == {c \in io[t].qp : c.kind # "bh"}
            ring == {c \in io[t].qp : c.kind \in {"rd", "wr"}}
        IN  /\ \A c, d \in data : c.slot = d.slot => c = d
            /\ io[t].ring.used = Cardinality(ring)
            /\ \A i \in Slots : io[t].ring.busy[i] <=> \E c \in ring : c.slot = i

\* A thread that polls for a metadata block has nothing else on its queue
\* pair: nvme_rd_submit_bh and nvme_direct_write_async_wait_complete count
\* completions without looking whose they are.
OwnCompletion ==
    /\ \A t \in Tids : rd[t] = "poll" => io[t].qp = {BhCmd}
    /\ \A t \in IW : iw[t].pc = "bh" => io[t].qp = {BhCmd}
    /\ \A t \in IW : iw[t].pc = "idle" => io[t].qp = {} /\ io[t].pend = NoBio
    /\ \A t \in RW : rw[t].pc = "idle" => io[t].qp = {} /\ io[t].pend = NoBio

\* Every page the kernel locks is unlocked, unless its window was given up:
\* a bounded load always drains.
Ended == []<>(up => \A p \in Pages : folio[p] = "locked" => p \in lost)

\* Every metadata read returns: some io worker is left to run the job of a
\* thread that holds the buffer's lock (slow_bread, iod_submit_bh).
BreadReturns == []<>(up => \A t \in Threads : rd[t] \notin {"get", "lock", "poll", "wait"})

\* The administrator's dump or load comes to its end: a BIO enqueued while the
\* last pump is about to leave is not stranded (nvme_schedule_read_pump).
AdminDone == []<>(up => adm.pc = "idle")
\* What a read relies on from the kernel's message to the completion: one owner
\* ends each page, what is served was filled, commands have live BIOs and slots
\* of their own, and a poller sees only its own completion.
RequestsOwned ==
    TypeOK /\ OneOwner /\ ServedHolds /\ LiveBios /\ SlotsAgree /\ OwnCompletion

\* Every page the kernel locks is unlocked, every metadata read returns, and
\* the administrator's dump or load comes to its end.
ReadsEnd == Ended /\ BreadReturns /\ AdminDone
=============================================================================
