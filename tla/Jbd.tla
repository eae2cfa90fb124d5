------------------------------- MODULE Jbd -------------------------------
(* The block journal that lwext4 carries along (ext4_journal.c): transactions
   of metadata blocks written to a circular log, checkpointed when the block
   cache writes the buffers, revoked when blocks are freed, and replayed after a
   crash.

   The code is sequential.  An operation changes the memory at once and leaves
   the blocks it writes in w, in order; they reach the device one by one, and a
   crash may come before any of them. *)
EXTENDS Integers, Sequences, FiniteSets, SequencesExt

CONSTANTS Blks,       \* file system blocks
          First, LogEnd, \* the log is the blocks First..LogEnd-1
          TagMax,     \* tags that fit in a descriptor block
          MaxVer,     \* modifications and data writes
          MaxTx,      \* transactions
          MaxCrash, MaxErr,
          Restart,    \* whether a session follows one that was stopped
          Off

VARIABLES mem,        \* journal, transactions, block records and block cache
          w,          \* device writes still to be made
          disk, log, jsb,
          pc, com,    \* where the session is, and the commit in progress
          vis,        \* contents as the file system sees them
          img,        \* contents after the last durable transaction
          ver, crashes, errs

vars == <<mem, w, disk, log, jsb, pc, com, vis, img, ver, crashes, errs>>

Free == -1            \* the block is free: its contents do not matter
NoRec == [own |-> 0, q |-> << >>]
NoBuf == [v |-> 0, up |-> FALSE, dirty |-> FALSE, arg |-> 0]
NoTx == [id |-> 0, start |-> 0, alloc |-> 0, bufs |-> << >>, jl |-> << >>,
         data |-> 0, written |-> 0, rev |-> {}]
NoCommit == [pend |-> << >>, desc |-> 0, tags |-> << >>, last |-> 0]

Without(s, x) == SelectSeq(s, LAMBDA y : y # x)

Wrap(i) == IF i >= LogEnd THEN i - (LogEnd - First) ELSE i

DiskWrite(b, v) == [k |-> "disk", b |-> b, v |-> v]
LogWrite(i, r) == [k |-> "log", i |-> i, r |-> r]

(* jbd_journal_write_sb, and jbd_write_sb when the super block is dirty. *)
SetSb(s) == [s EXCEPT !.sb = [start |-> s.start, seq |-> s.tid], !.sbd = TRUE]
WriteSb(s) == IF s.sbd THEN [s EXCEPT !.sbd = FALSE, !.w = Append(@, [k |-> "sb", sb |-> s.sb])]
              ELSE s

-----------------------------------------------------------------------
(* jbd_trans_remove_block_rec for the records transaction n still owns *)
DropRecs(s, n) ==
    [s EXCEPT !.rec = [b \in Blks |-> IF @[b].own = n THEN NoRec ELSE @[b]],
              !.tr = [@ EXCEPT ![n] = NoTx]]

ShiftStart(s, n) ==
    [s EXCEPT !.start = Wrap(s.tr[n].start + s.tr[n].alloc), !.tid = s.tr[n].id + 1,
              !.cpq = Without(@, n)]

(* jbd_journal_purge_cp_trans without flushing: transactions at the head of the
   checkpoint queue that are on disk, or only revoke, leave it. *)
RECURSIVE Purge(_)
Purge(s) ==
    IF s.cpq = << >> THEN s
    ELSE LET n == Head(s.cpq)
         IN IF s.tr[n].data = s.tr[n].written
            THEN Purge(SetSb(DropRecs(ShiftStart(s, n), n)))
            ELSE SetSb([s EXCEPT !.start = Wrap(s.tr[n].start), !.tid = s.tr[n].id])

(* jbd_trans_end_write: the contents of block b that transaction n logged are on
   the device.  The older transactions that logged b are done with it too when n
   owns the block, and the log's start moves when the first transaction of the
   queue is complete. *)
RECURSIVE EndWrite(_, _, _, _)
RECURSIVE EndOlder(_, _, _)

EndOlderNone(s, q, b) == s

EndOlder(s, q, b) ==
    IF q = << >> THEN s ELSE EndOlder(EndWrite(s, Head(q), b, FALSE), Tail(q), b)

LastDoneAny(s, n) == s.tr[n].written = s.tr[n].data

LastDone(s, n) ==
    s.tr[n].written = s.tr[n].data /\ s.cpq # << >> /\ Head(s.cpq) = n

EndWrite(s, n, b, buf) ==
    LET s1 == [s EXCEPT !.tr[n].bufs = Without(@, b), !.rec[b].q = Without(@, n)]
        s2 == IF s1.rec[b].own = n THEN EndOlder(s1, s1.rec[b].q, b) ELSE s1
        s3 == IF s2.rec[b].own = n /\ buf THEN [s2 EXCEPT !.ca[b].arg = 0] ELSE s2
        s4 == [s3 EXCEPT !.tr[n].written = @ + 1]
    IN IF LastDone(s4, n)
       THEN WriteSb(SetSb(Purge(DropRecs(ShiftStart(s4, n), n))))
       ELSE s4

(* ext4_block_flush_buf: the cache writes a dirty buffer and tells the journal. *)
FlushBuf(s, b) ==
    LET s1 == [s EXCEPT !.w = Append(@, DiskWrite(b, s.ca[b].v)), !.ca[b].dirty = FALSE]
    IN IF ~(s.ca[b].dirty /\ s.ca[b].up) THEN s
       ELSE IF s.ca[b].arg = 0 THEN s1 ELSE EndWrite(s1, s.ca[b].arg, b, TRUE)

(* jbd_journal_flush_trans: contents a newer transaction has replaced in the
   cache are copied from the log. *)
RECURSIVE FlushTrans(_, _, _)
FlushTrans(s, n, bs) ==
    IF bs = << >> THEN s
    ELSE LET b == Head(bs)
         IN FlushTrans(IF s.ca[b].up /\ s.rec[b].own = n THEN FlushBuf(s, b)
                       ELSE EndWrite([s EXCEPT !.w = Append(@, DiskWrite(b, log[s.tr[n].jl[b]].v))],
                                     n, b, TRUE),
                       n, Tail(bs))

(* jbd_journal_purge_cp_trans with flushing: the first transaction is written
   out, which moves the start of the log past it. *)
FlushFirst(s) ==
    IF s.cpq = << >> THEN s
    ELSE LET n == Head(s.cpq)
         IN IF s.tr[n].data = s.tr[n].written
            THEN SetSb(DropRecs(ShiftStart(s, n), n))
            ELSE FlushTrans(s, n, s.tr[n].bufs)

RECURSIVE FlushAll(_)
FlushAll(s) == IF s.cpq = << >> THEN s ELSE FlushAll(FlushFirst(s))

(* jbd_journal_alloc_block, which asserts that flushing made room. *)
AllocBlock(s, n) ==
    LET s1 == [s EXCEPT !.last = Wrap(@ + 1), !.tr[n].alloc = @ + 1]
    IN IF s1.last # s1.start THEN s1 ELSE FlushFirst(s1)

(* jbd_trans_finish_callback of an abort: the block belongs to the newest older
   transaction that logged it again, with the contents that one logged unless
   the block is revoked. *)
AbortBuf(s, n, b, revoked) ==
    LET s1 == [s EXCEPT !.rec[b].q = Without(@, n)]
        q  == s1.rec[b].q
        m  == Last(q)
    IN IF s1.rec[b].own # n \/ q = << >> THEN s1
       ELSE IF revoked THEN [s1 EXCEPT !.rec[b].own = m]
       ELSE [s1 EXCEPT !.rec[b].own = m,
                       !.ca[b] = [v |-> log[s1.tr[m].jl[b]].v, up |-> TRUE,
                                  dirty |-> TRUE, arg |-> m]]

(* jbd_journal_free_trans of an aborted transaction *)
RECURSIVE AbortBufs(_, _, _)
AbortBufs(s, n, bs) ==
    IF bs = << >> THEN s
    ELSE LET b == Head(bs)
         IN AbortBufs(AbortBuf([s EXCEPT !.ca[b] = [@ EXCEPT !.up = FALSE, !.dirty = FALSE,
                                                           !.arg = 0]],
                               n, b, FALSE), n, Tail(bs))

Abort(s, n) == [DropRecs(AbortBufs(s, n, s.tr[n].bufs), n) EXCEPT !.run = 0]

(* The buffers of the transaction that were freed after they were modified drop
   out of it at the start of jbd_journal_prepare. *)
RECURSIVE DropClean(_, _, _)
DropClean(s, n, bs) ==
    IF bs = << >> THEN s
    ELSE LET b  == Head(bs)
             s1 == AbortBuf([s EXCEPT !.ca[b].arg = 0, !.tr[n].bufs = Without(@, b),
                                      !.tr[n].data = @ - 1], n, b, b \in s.tr[n].rev)
             s2 == IF s1.rec[b].own = n THEN [s1 EXCEPT !.rec[b] = NoRec] ELSE s1
         IN DropClean(IF s.ca[b].dirty THEN s ELSE s2, n, Tail(bs))

-----------------------------------------------------------------------
(* Recovery: jbd_iterate_log over what is on the device. *)
Rec(L, i) == IF i \in DOMAIN L THEN L[i] ELSE [k |-> "none", id |-> 0]

TagBlock(i, k) == Wrap(i + k)

RECURSIVE Scan(_, _, _, _, _)
Scan(L, start, i, id, out) ==
    LET r    == Rec(L, i)
        skip == IF r.k = "desc" THEN Len(r.tags) ELSE 0
        next == Wrap(Wrap(i + skip) + 1)
        o    == Append(out, [r |-> r, i |-> i])
        id1  == IF r.k = "commit" THEN id + 1 ELSE id
    IN IF r.k \notin {"desc", "revoke", "commit"} \/ r.id # id
       THEN [id |-> id, recs |-> out]
       ELSE IF next = start THEN [id |-> id1, recs |-> o]
       ELSE Scan(L, start, next, id1, o)

(* jbd_replay_block_tags: only a transaction after the last one that revoked
   the block replays it. *)
Replays(b, id, revs) == \A r \in revs : b \in r.bs => id > r.id

(* jbd_build_revoke_tree *)
Revokes(recs) ==
    {[bs |-> x.r.bs, id |-> x.r.id] : x \in {y \in ToSet(recs) : y.r.k = "revoke"}}

(* jbd_iterate_block_table: the contents of the tags of a descriptor block are
   in the log blocks after it. *)
Tags(L, x) ==
    IF x.r.k # "desc" THEN << >>
    ELSE [j \in 1..Len(x.r.tags) |->
            [b |-> x.r.tags[j], v |-> Rec(L, TagBlock(x.i, j)).v, id |-> x.r.id]]

(* jbd_recover: the blocks to write, and the last valid transaction. *)
Recovery(L, sb) ==
    LET sc   == Scan(L, sb.start, sb.start, sb.seq, << >>)
        last == IF sc.id > sb.seq THEN sc.id - 1 ELSE sc.id
        recs == IF sc.id = sb.seq THEN << >>
                ELSE SelectSeq(sc.recs, LAMBDA x : x.r.id <= last)
        all  == FlattenSeq([j \in DOMAIN recs |-> Tags(L, recs[j])])
    IN IF sb.start = 0 THEN [writes |-> << >>, seq |-> sb.seq]
       ELSE [writes |-> SelectSeq(all, LAMBDA t : Replays(t.b, t.id, Revokes(recs))),
             seq |-> last]

Replayed(d, ws) == FoldLeft(LAMBDA a, t : [a EXCEPT ![t.b] = t.v], d, ws)

-----------------------------------------------------------------------
Init ==
    /\ mem = Off /\ w = << >>
    /\ disk = [b \in Blks |-> 0]
    /\ log = [i \in First..(LogEnd - 1) |-> [k |-> "none", id |-> 0]]
    /\ jsb = [start |-> 0, seq |-> 0]
    /\ pc = "mounted" /\ com = NoCommit
    /\ vis = disk /\ img = disk
    /\ ver = 0 /\ crashes = 0 /\ errs = 0

Quiet == w = << >>
Idle == Quiet /\ pc = "idle"
(* The memory after an operation; its writes go to w. *)
Mem(s) == mem' = [s EXCEPT !.w = << >>] /\ w' = s.w
Device == UNCHANGED <<disk, log, jsb>>

(* jbd_journal_start *)
Start ==
    /\ Quiet /\ (pc = "mounted" \/ (Restart /\ pc = "stopped"))
    /\ LET s == [start |-> First, last |-> First, tid |-> jsb.seq + 1, alloc |-> jsb.seq + 1,
                 cpq |-> << >>, tr |-> [n \in 1..MaxTx |-> NoTx],
                 rec |-> [b \in Blks |-> NoRec], ca |-> [b \in Blks |-> NoBuf],
                 run |-> 0, nr |-> 0, freed |-> {}, sb |-> jsb, sbd |-> FALSE, w |-> << >>]
       IN Mem(WriteSb(SetSb(s)))
    /\ pc' = "idle"
    /\ UNCHANGED <<disk, log, jsb, com, vis, img, ver, crashes, errs>>

(* jbd_journal_new_trans *)
NewTrans ==
    /\ Idle /\ mem.run = 0 /\ mem.nr < MaxTx
    /\ mem' = [mem EXCEPT !.run = mem.nr + 1, !.nr = @ + 1, !.freed = {}]
    /\ UNCHANGED <<w, disk, log, jsb, pc, com, vis, img, ver, crashes, errs>>

(* jbd_trans_insert_block_rec, and the queue of the transactions that hold
   contents of the block *)
InsertRec(s, b, n) == [s EXCEPT !.rec[b] = [own |-> n, q |-> Append(@.q, n)]]

(* jbd_trans_set_block_dirty for new contents of block b *)
SetBlockDirty(b) ==
    /\ Idle /\ mem.run # 0 /\ ver < MaxVer /\ b \notin mem.freed
    /\ LET n  == mem.run
           s1 == [mem EXCEPT !.ca[b].v = ver + 1, !.ca[b].up = TRUE]
           s2 == [InsertRec(s1, b, n) EXCEPT
                            !.ca[b] = [@ EXCEPT !.dirty = TRUE, !.arg = n],
                            !.tr[n] = [@ EXCEPT !.data = @ + 1, !.bufs = <<b>> \o @,
                                                !.rev = @ \ {b}]]
       IN mem' = IF mem.ca[b].arg = n THEN s1 ELSE s2
    /\ vis' = [vis EXCEPT ![b] = ver + 1]
    /\ ver' = ver + 1
    /\ UNCHANGED <<w, disk, log, jsb, pc, com, img, crashes, errs>>

(* The block is freed: jbd_trans_try_revoke_block, then the cache forgets its
   buffer (ext4_balloc_free_block). *)
FreeBlock(b) ==
    /\ Idle /\ mem.run # 0 /\ vis[b] # Free
    /\ LET n == mem.run
           r == mem.rec[b]
           revoke == r.own # 0 /\ (r.own # n \/ Head(r.q) # Last(r.q))
       IN mem' = [mem EXCEPT !.tr[n].rev = IF revoke THEN @ \cup {b} ELSE @,
                             !.ca[b] = [@ EXCEPT !.up = FALSE, !.dirty = FALSE, !.arg = 0],
                             !.freed = @ \cup {b}]
    /\ vis' = [vis EXCEPT ![b] = Free]
    /\ UNCHANGED <<w, disk, log, jsb, pc, com, img, ver, crashes, errs>>

(* A free block is used for file data, which bypasses the journal. *)
DataWrite(b) ==
    /\ Idle /\ mem.run = 0 /\ img[b] = Free /\ ver < MaxVer
    /\ w' = <<[k |-> "data", b |-> b, v |-> ver + 1]>>
    /\ vis' = [vis EXCEPT ![b] = ver + 1]
    /\ ver' = ver + 1
    /\ UNCHANGED <<mem, disk, log, jsb, pc, com, img, crashes, errs>>

(* The cache writes a dirty buffer nobody holds: the buffers of the running
   transaction are held. *)
Flush(b) ==
    /\ Quiet /\ pc \in {"idle", "prepare", "revoke", "commit"}
    /\ mem.ca[b].dirty /\ mem.ca[b].up /\ mem.ca[b].arg # mem.run
    /\ Mem(FlushBuf(mem, b))
    /\ UNCHANGED <<disk, log, jsb, pc, com, vis, img, ver, crashes, errs>>

(* jbd_journal_commit_trans begins. *)
Commit ==
    /\ Idle /\ mem.run # 0
    /\ LET n == mem.run
           s == DropClean([mem EXCEPT !.tr[n].id = mem.alloc], n, mem.tr[n].bufs)
       IN /\ mem' = s
          /\ com' = [NoCommit EXCEPT !.pend = s.tr[n].bufs, !.last = mem.last]
    /\ pc' = "prepare"
    /\ UNCHANGED <<w, disk, log, jsb, vis, img, ver, crashes, errs>>

Desc(n) == LogWrite(com.desc, [k |-> "desc", id |-> mem.tr[n].id, tags |-> com.tags])
SetStart(s, n, i) == IF s.tr[n].start = 0 THEN [s EXCEPT !.tr[n].start = i] ELSE s

(* jbd_write_block_tag: no room for another tag *)
TagsFull == com.desc # 0 /\ Len(com.tags) = TagMax

(* jbd_journal_prepare, one buffer: a descriptor block is allocated when there is
   none, closed when its tags are full; the contents go into the log before the
   descriptor that names them. *)
LogBuf ==
    /\ Quiet /\ pc = "prepare" /\ com.pend # << >>
    /\ LET n    == mem.run
           b    == Head(com.pend)
           new  == com.desc = 0 \/ TagsFull
           s0   == IF TagsFull THEN [mem EXCEPT !.w = <<Desc(n)>>] ELSE mem
           di   == IF new THEN s0.last ELSE com.desc
           s1   == IF new THEN SetStart(AllocBlock(s0, n), n, di) ELSE s0
           i    == s1.last
           s2   == AllocBlock(s1, n)
       IN /\ Mem([s2 EXCEPT !.tr[n].jl = [x \in DOMAIN @ \cup {b} |-> IF x = b THEN i ELSE @[x]],
                            !.w = Append(@, LogWrite(i, [k |-> "data", id |-> 0, v |-> mem.ca[b].v]))])
          /\ com' = [com EXCEPT !.pend = Tail(@), !.desc = di,
                                !.tags = IF new THEN <<b>> ELSE Append(@, b)]
    /\ UNCHANGED <<disk, log, jsb, pc, vis, img, ver, crashes, errs>>

LogDesc ==
    /\ Quiet /\ pc = "prepare" /\ com.pend = << >>
    /\ w' = IF com.desc = 0 THEN << >> ELSE <<Desc(mem.run)>>
    /\ pc' = "revoke"
    /\ UNCHANGED <<mem, disk, log, jsb, com, vis, img, ver, crashes, errs>>

(* jbd_journal_prepare_revoke; a transaction with nothing in it ends here. *)
LogRevokes ==
    /\ Quiet /\ pc = "revoke"
    /\ LET n == mem.run
           s == SetStart(AllocBlock(mem, n), n, mem.last)
       IN IF mem.tr[n].rev # {}
          THEN /\ Mem([s EXCEPT !.w = Append(@, LogWrite(mem.last, [k |-> "revoke",
                                       id |-> mem.tr[n].id, bs |-> mem.tr[n].rev]))])
               /\ pc' = "commit"
          ELSE IF mem.tr[n].bufs = << >>
          THEN mem' = [DropRecs(mem, n) EXCEPT !.run = 0] /\ pc' = "idle" /\ UNCHANGED w
          ELSE pc' = "commit" /\ UNCHANGED <<mem, w>>
    /\ img' = IF pc' = "idle" THEN vis ELSE img
    /\ UNCHANGED <<disk, log, jsb, com, vis, ver, crashes, errs>>

LogCommit ==
    /\ Quiet /\ pc = "commit"
    /\ LET n == mem.run
           s == AllocBlock(mem, n)
       IN Mem([s EXCEPT !.alloc = @ + 1,
                        !.w = Append(@, LogWrite(mem.last, [k |-> "commit", id |-> mem.tr[n].id]))])
    /\ pc' = "finish"
    /\ UNCHANGED <<disk, log, jsb, com, vis, img, ver, crashes, errs>>

(* The checkpoint of revoked buffers is complete. *)
EndRevoked(s, B) ==
    FoldSet(LAMBDA b, a : IF a.rec[b].q = << >> THEN a
                          ELSE EndWrite(a, Last(a.rec[b].q), b, a.ca[b].up), s, B)

(* The end of jbd_journal_commit_trans: the transaction joins the checkpoint
   queue and its buffers are released. *)
Finish ==
    /\ Quiet /\ pc = "finish"
    /\ LET n == mem.run
           s == EndRevoked(mem, mem.tr[n].rev)
           t == s.tr[n]
           q == [s EXCEPT !.cpq = Append(@, n), !.run = 0]
       IN Mem(IF s.cpq # << >> THEN q
              ELSE IF t.data # 0 THEN WriteSb(SetSb([q EXCEPT !.start = Wrap(t.start), !.tid = t.id]))
              ELSE [DropRecs(SetSb(ShiftStart(s, n)), n) EXCEPT !.run = 0])
    /\ pc' = "idle" /\ com' = NoCommit
    /\ UNCHANGED <<disk, log, jsb, vis, img, ver, crashes, errs>>

(* A log block cannot be written: the commit gives the log space back and
   aborts. *)
CommitFails ==
    /\ Quiet /\ pc \in {"prepare", "revoke", "commit"} /\ errs < MaxErr
    /\ mem.freed = {}
    /\ mem' = [Abort(mem, mem.run) EXCEPT !.last = com.last]
    /\ vis' = img
    /\ pc' = "idle" /\ com' = NoCommit
    /\ errs' = errs + 1
    /\ UNCHANGED <<w, disk, log, jsb, img, ver, crashes>>

(* jbd_journal_free_trans with abort, by the caller *)
AbortTrans ==
    /\ Idle /\ mem.run # 0 /\ mem.freed = {} /\ errs < MaxErr
    /\ mem' = Abort(mem, mem.run)
    /\ vis' = img
    /\ errs' = errs + 1
    /\ UNCHANGED <<w, disk, log, jsb, pc, com, img, ver, crashes>>

(* jbd_journal_stop *)
Stop ==
    /\ Idle /\ mem.run = 0
    /\ Mem(WriteSb(SetSb([FlushAll(mem) EXCEPT !.start = 0, !.tid = 0])))
    /\ pc' = "stopped"
    /\ UNCHANGED <<disk, log, jsb, com, vis, img, ver, crashes, errs>>

(* The device makes the next write; the commit block makes the transaction
   durable. *)
Write ==
    /\ w # << >>
    /\ LET x == Head(w)
       IN /\ disk' = IF x.k \in {"disk", "data"} THEN [disk EXCEPT ![x.b] = x.v] ELSE disk
          /\ log' = IF x.k = "log" THEN [log EXCEPT ![x.i] = x.r] ELSE log
          /\ jsb' = IF x.k = "sb" THEN x.sb ELSE jsb
          /\ img' = IF x.k = "log" /\ x.r.k = "commit" THEN vis
                     ELSE IF x.k = "data" THEN [img EXCEPT ![x.b] = x.v] ELSE img
    /\ w' = Tail(w)
    /\ UNCHANGED <<mem, pc, com, vis, ver, crashes, errs>>

Crash ==
    /\ pc # "mounted" /\ crashes < MaxCrash
    /\ pc = "stopped" /\ Quiet => Restart
    /\ mem' = Off /\ w' = << >> /\ com' = NoCommit
    /\ vis' = img
    /\ pc' = "crashed" /\ crashes' = crashes + 1
    /\ UNCHANGED <<disk, log, jsb, img, ver, errs>>

(* jbd_recover and jbd_put_fs *)
Recover ==
    /\ pc = "crashed"
    /\ LET r == Recovery(log, jsb)
       IN w' = [j \in DOMAIN r.writes |-> DiskWrite(r.writes[j].b, r.writes[j].v)]
               \o IF jsb.start = 0 THEN << >>
                  ELSE <<[k |-> "sb", sb |-> [start |-> 0, seq |-> r.seq]]>>
    /\ pc' = "mounted"
    /\ UNCHANGED <<mem, disk, log, jsb, com, vis, img, ver, crashes, errs>>

Next ==
    \/ Start
    \/ NewTrans
    \/ \E b \in Blks : SetBlockDirty(b)
    \/ \E b \in Blks : FreeBlock(b)
    \/ \E b \in Blks : DataWrite(b)
    \/ \E b \in Blks : Flush(b)
    \/ Commit
    \/ LogBuf
    \/ LogDesc
    \/ LogRevokes
    \/ LogCommit
    \/ Finish
    \/ CommitFails
    \/ AbortTrans
    \/ Stop
    \/ Write
    \/ Crash
    \/ Recover

Spec == Init /\ [][Next]_vars

-----------------------------------------------------------------------
Live == {mem.cpq[i] : i \in DOMAIN mem.cpq} \cup (IF mem.run = 0 THEN {} ELSE {mem.run})

(* The log positions stay within the log, the checkpoint queue holds distinct
   transactions in the order of their ids, and a transaction that takes log
   blocks never fills the log (the assertion of jbd_journal_alloc_block). *)
TypeOK ==
    mem # Off =>
      /\ pc = "stopped" \/ mem.start \in First..(LogEnd - 1)
      /\ mem.last \in First..(LogEnd - 1)
      /\ mem.run # 0 => mem.tr[mem.run].alloc = 0 \/ mem.last # mem.start
      /\ \A i, j \in DOMAIN mem.cpq : i < j => mem.tr[mem.cpq[i]].id < mem.tr[mem.cpq[j]].id
      /\ \A n \in Live : mem.tr[n].written + Len(mem.tr[n].bufs) = mem.tr[n].data

(* A block record lists exactly the live transactions whose contents of the
   block are not on the device yet, oldest first, and the newest of them owns
   it (jbd_trans_insert_block_rec, jbd_trans_end_write,
   jbd_trans_finish_callback). *)
BlockRecs ==
    mem # Off /\ pc # "stopped" =>
      \A b \in Blks :
        LET r == mem.rec[b]
        IN /\ ToSet(r.q) = {n \in Live : b \in ToSet(mem.tr[n].bufs)}
           /\ \A i, j \in DOMAIN r.q : i < j => r.q[i] < r.q[j]
           /\ r.q # << >> => r.own = Last(r.q)

(* Between two operations a reader finds the newest contents of a block, in the
   cache or on the device, after an abort the committed ones
   (jbd_trans_finish_callback: "We have to roll back data if the block is going
   to be aborted."). *)
Visible ==
    Idle => \A b \in Blks :
              vis[b] # Free =>
                (IF mem.ca[b].up THEN mem.ca[b].v ELSE disk[b]) = vis[b]

(* Whenever the machine stops, replaying the log leaves exactly the contents of
   the last durable transaction on the device: nothing committed is lost when
   the log wraps or a checkpoint moves its start, nothing uncommitted appears,
   and the data written to a freed block is not overwritten (jbd_recover). *)
Recoverable ==
    LET d == Replayed(disk, Recovery(log, jsb).writes)
    IN \A b \in Blks : img[b] # Free => d[b] = img[b]
========================================================================
