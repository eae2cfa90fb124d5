-------------------------- MODULE BufferCache --------------------------
(* The Secure Daemon's buffer heads under the ext4 code: getting a block with
   or without its contents (ext4_blockdev.c, ext4_bcache.c, blockdev.c), the
   state bits and the dirty lists (buffer.c, ext4_bcache.h), and the commit that
   takes the dirty buffers away (fs/journal.c).  A block belongs to the super
   block's list (bitmaps and group descriptors), to a file's (index blocks) or
   to a directory's (entry blocks); the commit treats each in its own way.

   The bits of b_state are set and cleared with plain "bts" and "btr", so each
   such operation is a read step and a write step, and another thread's or the
   device's operation may fall in between.  The contents of a block are the set
   of fields written to it. *)
EXTENDS Integers, Sequences, FiniteSets, SequencesExt

CONSTANTS Threads,   \* worker threads
          Blks,      \* blocks
          KindOf,    \* block -> the list it is kept on: "sb", "file" or "dir"
          Scripts,   \* what the threads do, a set of [Threads -> Seq(op)]
          Off        \* stands for "not part of this instance"

VARIABLES map,       \* g_bdev->bhs: block -> buffer head, None when absent
          bh,        \* the buffer heads, by the thread and block that made them
          list,      \* private_list of the mapping of each kind
          lk,        \* the lock of each kind: who holds it, and how
          th,        \* the threads: program counter, block, handle, saved bits
          io,        \* buffer heads with a read in flight -> step of bh_end_io
          todo,      \* the operations each thread still has to do
          disk,      \* contents on the device
          want,      \* what the block ought to contain
          logged     \* contents the journal or the device has

vars == <<map, bh, list, lk, th, io, todo, disk, want, logged>>

None == <<"none">>
Kinds == {"sb", "file", "dir"}
Bits == {"New", "Uptodate", "Dirty"}
Idle == [pc |-> "idle", op |-> None, b |-> None, h |-> None, s |-> {}]

Step(t, pc) == th' = [th EXCEPT ![t].pc = pc]
B(t) == bh[th[t].h]

(* What an operation writes: a stamp of the thread and of its operation. *)
Stamp(t) == <<t, Len(todo[t])>>
Old == <<"device", 0>>

(* A non-atomic update of b_state by thread t: read now, write later. *)
ReadBits(t, pc) == th' = [th EXCEPT ![t].pc = pc, ![t].s = B(t).st]
WriteBits(t, pc, s) ==
    /\ bh' = [bh EXCEPT ![th[t].h].st = s]
    /\ Step(t, pc)

-----------------------------------------------------------------------
Init ==
    /\ map = [b \in Blks |-> None]
    /\ bh = << >>
    /\ list = [k \in Kinds |-> << >>]
    /\ lk = [k \in Kinds |-> [t \in Threads |-> "none"]]
    /\ th = [t \in Threads |-> Idle]
    /\ io = << >>
    /\ todo \in Scripts
    /\ disk = [b \in Blks |-> {Old}]
    /\ want = disk
    /\ logged = disk

(* The file system lock of the super block's blocks is shared by the allocators
   and taken alone by the commit; the index lock of a file and the inode lock of
   a directory are shared by readers and taken alone by everyone else. *)
Mode(o) ==
    IF o.k = "read" \/ (KindOf[o.b] = "sb" /\ o.k # "commit") THEN "shared" ELSE "alone"

Grants(k, m, t) ==
    \A u \in Threads \ {t} : lk[k][u] = "none" \/ (m = "shared" /\ lk[k][u] = "shared")

Start(t) ==
    /\ th[t].pc = "idle" /\ todo[t] # << >>
    /\ LET o == Head(todo[t])
           k == KindOf[o.b]
       IN /\ Grants(k, Mode(o), t)
          /\ lk' = [lk EXCEPT ![k][t] = Mode(o)]
          /\ th' = [th EXCEPT ![t] = [Idle EXCEPT !.op = o.k, !.b = o.b,
                                         !.pc = IF o.k = "commit" THEN "gather" ELSE "lookup"]]
    /\ todo' = [todo EXCEPT ![t] = Tail(@)]
    /\ UNCHANGED <<map, bh, list, io, disk, want, logged>>

(* get_buffer_head in sb_balloc *)
Lookup(t) ==
    /\ th[t].pc = "lookup"
    /\ th' = [th EXCEPT ![t].h = map[th[t].b],
                        ![t].pc = IF map[th[t].b] = None THEN "alloc" ELSE "got"]
    /\ UNCHANGED <<map, bh, list, lk, io, todo, disk, want, logged>>

InsertOver(t) ==
    LET b == th[t].b
        h == <<t, b>>
    IN /\ th[t].pc = "alloc"
       /\ map' = [map EXCEPT ![b] = h]
       /\ bh' = [x \in DOMAIN bh \cup {h} |->
                   IF x = h THEN [st |-> {"New"}, data |-> {}, lock |-> FALSE, assoc |-> FALSE]
                   ELSE bh[x]]
       /\ th' = [th EXCEPT ![t].h = h, ![t].pc = "got"]
       /\ UNCHANGED <<list, lk, io, todo, disk, want, logged>>

(* alloc_buffer: the new head goes into the table, unless another thread put
   one there first, which is then used. *)
Insert(t) ==
    LET b == th[t].b
        h == <<t, b>>
    IN /\ th[t].pc = "alloc"
       /\ IF map[b] = None
          THEN /\ map' = [map EXCEPT ![b] = h]
               /\ bh' = [x \in DOMAIN bh \cup {h} |->
                           IF x = h THEN [st |-> {"New"}, data |-> {}, lock |-> FALSE,
                                          assoc |-> FALSE]
                           ELSE bh[x]]
               /\ th' = [th EXCEPT ![t].h = h, ![t].pc = "got"]
          ELSE /\ th' = [th EXCEPT ![t].h = map[b], ![t].pc = "got"]
               /\ UNCHANGED <<map, bh>>
       /\ UNCHANGED <<list, lk, io, todo, disk, want, logged>>

(* ext4_block_get_noread hands the buffer out as it is; ext4_block_get reads
   it from the device when it is new. *)
Got(t) ==
    /\ th[t].pc = "got"
    /\ Step(t, IF th[t].op = "create" THEN "fill"
               ELSE IF "New" \notin B(t).st THEN "use" ELSE "bread")
    /\ UNCHANGED <<map, bh, list, lk, io, todo, disk, want, logged>>

(* __sb_bread and the start of slow_bread: a thread that gets the buffer lock
   and finds no valid contents starts the read. *)
Bread(t) ==
    /\ th[t].pc = "bread"
    /\ IF "Uptodate" \in B(t).st
       THEN Step(t, "use") /\ UNCHANGED <<bh, io>>
       ELSE /\ ~B(t).lock
            /\ bh' = [bh EXCEPT ![th[t].h].lock = TRUE]
            /\ Step(t, "locked")
            /\ UNCHANGED io
    /\ UNCHANGED <<map, list, lk, todo, disk, want, logged>>

SlowBread(t) ==
    /\ th[t].pc = "locked"
    /\ IF "Uptodate" \in B(t).st
       THEN /\ bh' = [bh EXCEPT ![th[t].h].lock = FALSE]
            /\ Step(t, "use") /\ UNCHANGED io
       ELSE /\ io' = [x \in DOMAIN io \cup {th[t].h} |->
                        IF x = th[t].h THEN [pc |-> "dma", s |-> {}] ELSE io[x]]
            /\ Step(t, "wait") /\ UNCHANGED bh
    /\ UNCHANGED <<map, list, lk, todo, disk, want, logged>>

(* wait_on_buffer *)
Waited(t) ==
    /\ th[t].pc = "wait" /\ ~B(t).lock
    /\ "Uptodate" \in B(t).st
    /\ Step(t, "use")
    /\ UNCHANGED <<map, bh, list, lk, io, todo, disk, want, logged>>

(* The device fills the buffer; bh_end_io then clears BH_New and sets
   BH_Uptodate, each in two steps, and unlocks. *)
EndIo(h) ==
    /\ h \in DOMAIN io
    /\ LET pc == io[h].pc
           go(p, s) == io' = [io EXCEPT ![h] = [pc |-> p, s |-> s]]
       IN CASE pc = "dma" -> bh' = [bh EXCEPT ![h].data = disk[h[2]]] /\ go("new1", {})
            [] pc = "new1" -> go("new2", bh[h].st) /\ UNCHANGED bh
            [] pc = "new2" -> bh' = [bh EXCEPT ![h].st = io[h].s \ {"New"}] /\ go("up1", {})
            [] pc = "up1" -> go("up2", bh[h].st) /\ UNCHANGED bh
            [] pc = "up2" -> bh' = [bh EXCEPT ![h].st = io[h].s \cup {"Uptodate"}]
                             /\ go("unlock", {})
            [] pc = "unlock" -> bh' = [bh EXCEPT ![h].lock = FALSE]
                                /\ io' = [x \in DOMAIN io \ {h} |-> io[x]]
    /\ UNCHANGED <<map, list, lk, th, todo, disk, want, logged>>

(* The caller looks at the block, or writes its field of it. *)
Use(t) ==
    /\ th[t].pc = "use"
    /\ IF th[t].op = "read"
       THEN Step(t, "release") /\ UNCHANGED <<bh, want>>
       ELSE /\ bh' = [bh EXCEPT ![th[t].h].data = @ \cup {Stamp(t)}]
            /\ want' = [want EXCEPT ![th[t].b] = @ \cup {Stamp(t)}]
            /\ Step(t, "new1")
    /\ UNCHANGED <<map, list, lk, io, todo, disk, logged>>

(* A block obtained without its contents is filled from scratch. *)
Fill(t) ==
    /\ th[t].pc = "fill"
    /\ bh' = [bh EXCEPT ![th[t].h].data = {Stamp(t)}]
    /\ want' = [want EXCEPT ![th[t].b] = {Stamp(t)}]
    /\ Step(t, "new1")
    /\ UNCHANGED <<map, list, lk, io, todo, disk, logged>>

(* ext4_bcache_set_dirty: clear BH_New, set BH_Uptodate, set BH_Dirty. *)
SetDirty(t) ==
    /\ CASE th[t].pc = "new1" -> ReadBits(t, "new2") /\ UNCHANGED bh
         [] th[t].pc = "new2" -> WriteBits(t, "up1", th[t].s \ {"New"})
         [] th[t].pc = "up1" -> ReadBits(t, "up2") /\ UNCHANGED bh
         [] th[t].pc = "up2" -> WriteBits(t, "dirty1", th[t].s \cup {"Uptodate"})
         [] th[t].pc = "dirty1" -> ReadBits(t, "dirty2") /\ UNCHANGED bh
         [] th[t].pc = "dirty2" -> WriteBits(t, "mark", th[t].s \cup {"Dirty"})
         [] OTHER -> FALSE
    /\ UNCHANGED <<map, list, lk, io, todo, disk, want, logged>>

(* mark_buffer_dirty: nothing to do when the bit is seen set. *)
MarkDirty(t, pc, next) ==
    /\ th[t].pc = pc
    /\ IF "Dirty" \in B(t).st
       THEN Step(t, next)
       ELSE ReadBits(t, pc \o "2")
    /\ UNCHANGED <<map, bh, list, lk, io, todo, disk, want, logged>>

MarkDirty2(t, pc, next) ==
    /\ th[t].pc = pc \o "2"
    /\ WriteBits(t, next, th[t].s \cup {"Dirty"})
    /\ UNCHANGED <<map, list, lk, io, todo, disk, want, logged>>

(* mark_buffer_dirty_sb and mark_buffer_dirty_inode: whether the buffer is on
   a list is looked up before the list is locked. *)
Assoc(t) ==
    /\ th[t].pc = "assoc"
    /\ Step(t, IF B(t).assoc THEN "release" ELSE "enlist")
    /\ UNCHANGED <<map, bh, list, lk, io, todo, disk, want, logged>>

Enlist(t) ==
    /\ th[t].pc = "enlist"
    /\ list' = [list EXCEPT ![KindOf[th[t].b]] =
                   Append(SelectSeq(@, LAMBDA x : x # th[t].h), th[t].h)]
    /\ bh' = [bh EXCEPT ![th[t].h].assoc = TRUE]
    /\ Step(t, "release")
    /\ UNCHANGED <<map, lk, io, todo, disk, want, logged>>

(* ext4_block_set: a dirty buffer is looked up and marked dirty once more
   (ext4_blocks_set_direct, blockdev_bwrite, sb_bwrite). *)
Release(t) ==
    /\ th[t].pc = "release"
    /\ IF "Dirty" \in B(t).st
       THEN th' = [th EXCEPT ![t].pc = "remark", ![t].h = map[th[t].b]]
       ELSE Step(t, "end")
    /\ UNCHANGED <<map, bh, list, lk, io, todo, disk, want, logged>>

End(t) ==
    /\ th[t].pc = "end"
    /\ th' = [th EXCEPT ![t] = Idle]
    /\ lk' = [lk EXCEPT ![KindOf[th[t].b]][t] = "none"]
    /\ UNCHANGED <<map, bh, list, io, todo, disk, want, logged>>

(* The commit copies the buffers H into the transaction: they are clean then. *)
Copied(H) ==
    logged' = [b \in Blks |-> IF map[b] \in H THEN bh[map[b]].data ELSE logged[b]]

DirtyOn(k) == {h \in ToSet(list[k]) : "Dirty" \in bh[h].st}

(* snapshot_metadata_blocks: all buffers of the super block's list leave it. *)
GatherMeta(t) ==
    LET H == ToSet(list["sb"])
    IN /\ th[t].pc = "gather" /\ KindOf[th[t].b] = "sb"
       /\ \A h \in H : ~bh[h].lock
       /\ Copied(H)
       /\ bh' = [h \in DOMAIN bh |->
                   IF h \in H THEN [bh[h] EXCEPT !.st = @ \ {"Dirty"}] ELSE bh[h]]
       /\ list' = [list EXCEPT !["sb"] = << >>]
       /\ Step(t, "end")
       /\ UNCHANGED <<map, lk, io, todo, disk, want>>

(* journal_reg_inode, which holds the file's locks: every buffer leaves the list
   and loses its association, the dirty ones after they were copied. *)
GatherFile(t) ==
    LET H == DirtyOn("file")
    IN /\ th[t].pc = "gather" /\ KindOf[th[t].b] = "file"
       /\ \A h \in H : ~bh[h].lock
       /\ Copied(H)
       /\ bh' = [h \in DOMAIN bh |->
                   IF h \in ToSet(list["file"])
                   THEN [bh[h] EXCEPT !.st = @ \ {"Dirty"}, !.assoc = FALSE] ELSE bh[h]]
       /\ list' = [list EXCEPT !["file"] = << >>]
       /\ Step(t, "end")
       /\ UNCHANGED <<map, lk, io, todo, disk, want>>

(* build_jtx_directory: the buffers stay on the list, clean. *)
GatherDir(t) ==
    LET H == DirtyOn("dir")
    IN /\ th[t].pc = "gather" /\ KindOf[th[t].b] = "dir"
       /\ Copied(H)
       /\ bh' = [h \in DOMAIN bh |->
                   IF h \in H THEN [bh[h] EXCEPT !.st = @ \ {"Dirty"}] ELSE bh[h]]
       /\ Step(t, "end")
       /\ UNCHANGED <<map, list, lk, io, todo, disk, want>>

Next ==
    \/ \E t \in Threads : Start(t)
    \/ \E t \in Threads : Lookup(t)
    \/ \E t \in Threads : Insert(t)
    \/ \E t \in Threads : Got(t)
    \/ \E t \in Threads : Bread(t)
    \/ \E t \in Threads : SlowBread(t)
    \/ \E t \in Threads : Waited(t)
    \/ \E h \in DOMAIN bh : EndIo(h)
    \/ \E t \in Threads : Use(t)
    \/ \E t \in Threads : Fill(t)
    \/ \E t \in Threads : SetDirty(t)
    \/ \E t \in Threads : MarkDirty(t, "mark", "assoc")
    \/ \E t \in Threads : MarkDirty2(t, "mark", "assoc")
    \/ \E t \in Threads : Assoc(t)
    \/ \E t \in Threads : Enlist(t)
    \/ \E t \in Threads : Release(t)
    \/ \E t \in Threads : MarkDirty(t, "remark", "end")
    \/ \E t \in Threads : MarkDirty2(t, "remark", "end")
    \/ \E t \in Threads : End(t)
    \/ \E t \in Threads : GatherMeta(t)
    \/ \E t \in Threads : GatherFile(t)
    \/ \E t \in Threads : GatherDir(t)

Spec == Init /\ [][Next]_vars

-----------------------------------------------------------------------
(* Every buffer head the table names exists, and a list holds each of its
   buffers once. *)
TypeOK ==
    /\ \A b \in Blks : map[b] # None => map[b] \in DOMAIN bh
    /\ \A h \in DOMAIN bh : bh[h].st \subseteq Bits /\ bh[h].data \subseteq (Threads \X Nat) \cup {Old}
    /\ \A k \in Kinds : ToSet(list[k]) \subseteq DOMAIN bh /\ IsInjective(list[k])
    /\ DOMAIN io \subseteq DOMAIN bh

(* Threads that miss the same block at the same time end up with the same
   buffer head: the one in the table (alloc_buffer). *)
OneBuffer ==
    \A t \in Threads : th[t].h # None => th[t].h = map[th[t].b]

(* Whoever got a block sees what was last written to it: a block another thread
   filled without reading it is never read from the device over the new
   contents (ext4_block_get, ext4_bcache_set_dirty). *)
SeesLatest ==
    \A t \in Threads : th[t].pc = "use" => B(t).data = want[th[t].b]

Marking == {"new1", "new2", "up1", "up2", "dirty1", "dirty2", "mark", "mark2", "assoc", "enlist"}

NextCommitHas(b) ==
    want[b] # logged[b] /\ (\A t \in Threads : th[t].pc \in Marking => th[t].b # b)
       => "Dirty" \in bh[map[b]].st /\ map[b] \in ToSet(list[KindOf[b]])

(* Contents of an index or entry block that the journal does not have are dirty
   and on the list of their file or directory, unless a thread is still on its
   way to put them there: no commit between two modifications makes the next one
   forget the block (mark_buffer_dirty_inode against journal_reg_inode and
   build_jtx_directory). *)
Tracked == \A b \in Blks : KindOf[b] # "sb" => NextCommitHas(b)

(* The same for bitmap and group descriptor blocks, of which build_transaction
   says "Snapshot all dirtied metadata blocks, superblock bitmaps..."
   (mark_buffer_dirty_sb against snapshot_metadata_blocks). *)
MetaTracked == \A b \in Blks : KindOf[b] = "sb" => NextCommitHas(b)
========================================================================
