------------------------------ MODULE JournalTags ------------------------------
(***************************************************************************)
(* What both checkpoints of DevFS, Coalesce and Checkpoint, share: the     *)
(* areas of the device, the tags of a transaction and what replaying them  *)
(* in order gives.                                                         *)
(*                                                                         *)
(* The device is one range of block addresses: the file system from 0, the *)
(* stage area and the log.  A block is known by the log or stage address   *)
(* its contents were written from, one per slot, since the inode of a      *)
(* stage transaction replaces only its slot of an inode block.             *)
(***************************************************************************)
EXTENDS Integers, Sequences
LOCAL INSTANCE SequencesExt

CONSTANTS FsBlks,                 \* file system blocks 0..FsBlks-1, block 0 holds inodes
          StageFirst, StageLast,  \* first_stage_log_blk(), last_stage_log_blk()
          JFirst, JLast,          \* j_log->first, j_log->last
          Slots,                  \* inodes of an inode block
          MaxStageTx,             \* bound: stage transactions named by the transaction
          MaxTags,                \* bound: tags of the transaction and of these
          MaxCnt,                 \* bound: blocks of a tag
          BufBlks                 \* OPTIMIZE_CHECKPOINT_MAX_BUF_SIZE in blocks

ASSUME JournalTagsAssumption ==
    /\ {FsBlks, MaxStageTx, MaxTags, MaxCnt, BufBlks} \subseteq Nat \ {0}
    /\ {StageFirst, StageLast, JFirst, JLast} \subseteq Nat
    /\ FsBlks <= StageFirst /\ StageFirst <= StageLast
    /\ StageLast < JFirst /\ JFirst < JLast

Invalid   == -1        \* start of an invalidated tag; also "no group yet"
InodeBlk  == 0
Fs        == 0..(FsBlks - 1)
AreaFirst(stage) == IF stage THEN StageFirst ELSE JFirst
AreaLast(stage) == IF stage THEN StageLast ELSE JLast

Content(addr) == [s \in Slots |-> addr]
Covers(start, cnt) == start..(start + cnt - 1)

Tags(first) == {t \in [start : first..(FsBlks - 1), cnt : 1..MaxCnt] :
                    t.start + t.cnt <= FsBlks}

Sum(s) == FoldLeft(LAMBDA n, t : n + t.cnt, 0, s)

(* The address of the block that follows addr - 1 in an area.              *)
Wrapped(addr, stage) ==
    IF addr > AreaLast(stage) THEN addr - AreaLast(stage) + AreaFirst(stage) - 1 ELSE addr

(* The blocks of a transaction are its tags' blocks one after another.     *)
Replay(d, tags, src, stage) ==
    FoldLeft(LAMBDA acc, k :
               [b \in Fs |->
                  IF b \in Covers(tags[k].start, tags[k].cnt)
                    THEN Content(Wrapped(src + Sum(SubSeq(tags, 1, k - 1))
                                             + b - tags[k].start, stage))
                    ELSE acc[b]],
             d, [k \in 1..Len(tags) |-> k])
===============================================================================
