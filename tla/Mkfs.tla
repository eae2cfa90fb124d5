----------------------------- MODULE Mkfs -----------------------------
(* Making an oxbow file system and mounting it: ext4_mkfs.c (the layout, the
   block groups, the first inodes and directories, the journal's and the
   staging area's super blocks), the group initialisation of ext4_fs.c, and
   the fields ext4_super.c reads back at mount time.

   A device block holds one of the things mkfs writes; the geometry of the
   device is chosen at the start.  Blocks are written through the cache that
   module Bcache describes; here a block is simply written. *)
EXTENDS Integers, Sequences, FiniteSets, FiniteSetsExt

CONSTANTS Geos,      \* geometries: records [total, J, bpg, dpb, ipb, inodes]
          RootIno, FirstIno,  \* EXT4_ROOT_INO, EXT4_GOOD_OLD_FIRST_INO
          Off        \* stands for "not part of this instance"

VARIABLES geo,       \* the device: blocks, journal blocks, blocks per group,
                     \*   descriptors and inodes per block, inodes wanted
          blk,       \* contents of every block
          sb,        \* fs->sb, the super block in memory
          step,      \* where ext4_mkfs is
          at,        \* group or inode the current step works on
          rc,        \* what ext4_mkfs returns
          flushed,   \* whether the last write back succeeded
          mnt        \* what the mount read, Off before

vars == <<geo, blk, sb, step, at, rc, flushed, mnt>>

DivUp(a, b) == (a + b - 1) \div b
Align(a, b) == DivUp(a, b) * b
None == [k |-> "none"]

-----------------------------------------------------------------------
(* The layout. *)

RECURSIVE IsPowerOf(_, _)
IsPowerOf(a, b) == IF a < b THEN FALSE ELSE IF a = b THEN TRUE
                   ELSE IF a % b # 0 THEN FALSE ELSE IsPowerOf(a \div b, b)

(* ext4_sb_sparse *)
Sparse(g) == \/ g <= 1
             \/ g % 2 = 1 /\ \E p \in {7, 5, 3} : IsPowerOf(g, p)

(* SPARSE_SUPER is among the features mkfs sets. *)
HasSuperblock(g) == Sparse(g)

(* compute_inodes_per_group *)
InodesPerGroup(len) ==
    Align(DivUp(geo.inodes, DivUp(len, geo.bpg)), geo.ipb)

(* The part of ext4_mkfs that fills struct ext4_mkfs_info. *)
Info == LET len == geo.total - 2 * (geo.J - 1)
        IN [len |-> len, ipg |-> InodesPerGroup(len),
            journal_sb |-> geo.total - 2 * geo.J, nr_journal |-> geo.J - 1,
            staging_sb |-> geo.total - geo.J, nr_staging |-> geo.J - 1]

AuxUntrimmed ==
    LET len == Info.len
        itb == DivUp(Info.ipg, geo.ipb)
        gr  == DivUp(len, geo.bpg)
    IN [len |-> len, itb |-> itb, groups |-> gr, descs |-> DivUp(gr, geo.dpb)]

(* create_fs_aux_info: a last group too small for its own metadata is left
   out; the descriptor blocks are counted before that. *)
Aux ==
    LET len  == Info.len
        itb  == DivUp(Info.ipg, geo.ipb)
        gr   == DivUp(len, geo.bpg)
        dsc  == DivUp(gr, geo.dpb)
        tail == len % geo.bpg
        head == 2 + itb + IF HasSuperblock(gr - 1) THEN 1 + dsc ELSE 0
        trim == tail > 0 /\ tail < head
    IN [len |-> IF trim THEN len - tail ELSE len, itb |-> itb,
        groups |-> IF trim THEN gr - 1 ELSE gr, descs |-> dsc]

(* fill_sb; free_blocks_cnt is set again by write_bgroups. *)
FilledSb == [blocks |-> Aux.len, free |-> Aux.len,
             inodes |-> Info.ipg * Aux.groups, ifree |-> Info.ipg * Aux.groups,
             bpg |-> geo.bpg, ipg |-> Info.ipg, mounts |-> 0,
             journal_sb |-> Info.journal_sb, nr_journal |-> Info.nr_journal,
             staging_sb |-> Info.staging_sb, nr_staging |-> Info.nr_staging]

(* bg_free_blk in write_bgroups *)
BgFree(g) == geo.bpg - Aux.itb - 2 - IF HasSuperblock(g) THEN 1 + Aux.descs ELSE 0

(* The descriptor write_bgroups makes: the bitmaps and the inode table follow
   the super block and the descriptors, with one block between. *)
Desc(g) ==
    LET base == g * geo.bpg + (IF HasSuperblock(g) THEN 1 ELSE 0) + Aux.descs
    IN [bbm |-> base + 1, ibm |-> base + 2, itab |-> base + 3,
        free |-> BgFree(g), ifree |-> Info.ipg, dirs |-> 0,
        flags |-> {"BLOCK_UNINIT", "INODE_UNINIT"}]

(* aux_info->bg_desc_blk when the k-th block of descriptors is written: slots
   past the last group keep what an earlier block left there. *)
RECURSIVE DescBlk(_, _)
DescBlk(k, n) ==
    [j \in 0..(geo.dpb - 1) |->
        IF k * geo.dpb + j < n THEN Desc(k * geo.dpb + j)
        ELSE IF k = 0 THEN None ELSE DescBlk(k - 1, n)[j]]

(* write_bgroup_block: one block of descriptors goes to every group. *)
WriteBgroupBlock(b, k, n) ==
    LET spots == {g * geo.bpg + (IF HasSuperblock(g) THEN 1 ELSE 0) + k :
                     g \in 0..(Aux.groups - 1)}
    IN [x \in DOMAIN b |-> IF x \in spots THEN [k |-> "gdt", d |-> DescBlk(k, n)]
                           ELSE b[x]]

Zeroed(b, S) == [x \in DOMAIN b |-> IF x \in S THEN [k |-> "bits", s |-> {}] ELSE b[x]]

(* write_bgroups up to and including group n - 1 *)
RECURSIVE Bgroups(_, _)
Bgroups(b, n) ==
    IF n = 0 THEN b
    ELSE LET c == Zeroed(Bgroups(b, n - 1), {Desc(n - 1).bbm, Desc(n - 1).ibm})
         IN IF n % geo.dpb = 0 THEN WriteBgroupBlock(c, (n - 1) \div geo.dpb, n) ELSE c

-----------------------------------------------------------------------
(* Reading the file system back. *)

(* ext4_block_group_cnt, ext4_inodes_in_group_cnt *)
GroupCnt(s) == DivUp(s.blocks, s.bpg)
InodesInGroup(s, g) ==
    IF g < GroupCnt(s) - 1 THEN s.ipg ELSE s.inodes - (GroupCnt(s) - 1) * s.ipg

(* group_blocks in ext4_fs_init_block_bitmap *)
GroupBlocks(s, g) ==
    IF g = GroupCnt(s) - 1 THEN s.blocks - s.bpg * (GroupCnt(s) - 1) ELSE s.bpg

(* ext4_bg_num_gdb without META_BG *)
NumGdb(s, g) == IF Sparse(g) THEN DivUp(GroupCnt(s), geo.dpb) ELSE 0

(* ext4_fs_get_descriptor_block and the slot in it *)
DescriptorBlock(g) == 1 + (g \div geo.dpb)
DescOf(b, g) == b[DescriptorBlock(g)].d[g % geo.dpb]
SetDesc(b, g, d) == [b EXCEPT ![DescriptorBlock(g)].d[g % geo.dpb] = d]

(* ext4_fs_mark_bitmap_end: bits up to the byte boundary, then whole bytes *)
BitmapEnd(start, end) ==
    IF start >= end THEN {}
    ELSE LET i == Align(start, 8)
         IN (start..(i - 1)) \cup (i..(i + 8 * ((end - i) \div 8) - 1))

(* ext4_fs_init_block_bitmap *)
BlockBitmap(s, g, d) ==
    LET first == g * s.bpg
        head  == IF Sparse(g) THEN 1 + NumGdb(s, g) ELSE 0
    IN (0..(head - 1)) \cup {d.bbm - first, d.ibm - first}
         \cup {i - first : i \in d.itab..(d.itab + s.ipg \div geo.ipb - 1)}
         \cup BitmapEnd(GroupBlocks(s, g), geo.bpg)

(* ext4_fs_init_inode_bitmap: one bitmap block holds as many bits as a group
   has blocks *)
InodeBitmap(s) == BitmapEnd(s.ipg, geo.bpg)

(* ext4_fs_init_inode_table *)
TableBlocks(s, g) == DivUp(InodesInGroup(s, g), geo.ipb)

(* ext4_fs_get_block_group_ref: a group met for the first time gets its
   bitmaps and its inode table. *)
GroupRef(b, s, g) ==
    LET d  == DescOf(b, g)
        b1 == IF "BLOCK_UNINIT" \notin d.flags THEN b
              ELSE [b EXCEPT ![d.bbm] = [k |-> "bits", s |-> BlockBitmap(s, g, d)]]
        b2 == IF "INODE_UNINIT" \notin d.flags THEN b1
              ELSE [x \in DOMAIN b1 |->
                      IF x = d.ibm THEN [k |-> "bits", s |-> InodeBitmap(s)]
                      ELSE IF /\ "ITABLE_ZEROED" \notin d.flags
                              /\ x \in d.itab..(d.itab + TableBlocks(s, g) - 1)
                      THEN [k |-> "itab", s |-> << >>] ELSE b1[x]]
        fl == IF "INODE_UNINIT" \in d.flags THEN {"ITABLE_ZEROED"}
              ELSE d.flags \cap {"ITABLE_ZEROED"}
    IN SetDesc(b2, g, [d EXCEPT !.flags = fl])

Bits(b, x) == b[x].s

-----------------------------------------------------------------------
Init ==
    /\ geo \in Geos
    /\ blk = [x \in 0..(geo.total - 1) |-> None]
    /\ sb = Off
    /\ step = "mkfs_init"
    /\ at = 0
    /\ rc = "EOK"
    /\ flushed = FALSE
    /\ mnt = Off

Go(s) == step' = s
Fail(to) == Go(to) /\ rc' = "EIO"

(* write_bgroups: the descriptors and zeroed bitmaps of every group, then the
   last, possibly partial, block of descriptors once more. *)
WriteBgroups ==
    /\ step = "mkfs_init"
    /\ blk' = WriteBgroupBlock(Bgroups(blk, Aux.groups),
                               Aux.groups \div geo.dpb, Aux.groups)
    /\ sb' = [FilledSb EXCEPT !.free = MapThenSumSet(BgFree, 0..(Aux.groups - 1))]
    /\ Go("write_sblocks")
    /\ UNCHANGED <<geo, at, rc, flushed, mnt>>

(* The device fails after some groups; the super block was not written. *)
WriteBgroupsFails ==
    /\ step = "mkfs_init"
    /\ \E n \in 0..Aux.groups : blk' = Bgroups(blk, n)
    /\ Fail("cache_fini")
    /\ UNCHANGED <<geo, sb, at, flushed, mnt>>

(* write_sblocks: the backups first, the primary super block last, both past
   the cache. *)
WriteSblocks ==
    /\ step = "write_sblocks"
    /\ blk' = [x \in DOMAIN blk |->
                 IF \E g \in 0..(Aux.groups - 1) : HasSuperblock(g) /\ x = g * geo.bpg
                 THEN [k |-> "sb", s |-> sb] ELSE blk[x]]
    /\ Go("fs_init")
    /\ UNCHANGED <<geo, sb, at, rc, flushed, mnt>>

WriteSblocksFails ==
    /\ step = "write_sblocks"
    /\ Fail("cache_fini")
    /\ UNCHANGED <<geo, blk, sb, at, flushed, mnt>>

(* ext4_sb_check, for the fields whose value depends on the geometry *)
SbCheck(s) == s.inodes # 0 /\ s.blocks # 0 /\ s.bpg # 0 /\ s.ipg # 0

(* ext4_fs_init reads the super block back and counts the mount. *)
FsInit ==
    /\ step = "fs_init"
    /\ at' = 0
    /\ IF SbCheck(blk[0].s)
       THEN /\ sb' = [blk[0].s EXCEPT !.mounts = @ + 1]
            /\ Go("init_bgs") /\ UNCHANGED rc
       ELSE Go("cache_fini") /\ rc' = "ENOTSUP" /\ UNCHANGED sb
    /\ UNCHANGED <<geo, blk, flushed, mnt>>

(* One round of init_bgs: ext4_fs_get_block_group_ref and its put. *)
InitBg ==
    /\ step = "init_bgs" /\ at < GroupCnt(sb)
    /\ blk' = GroupRef(blk, sb, at)
    /\ at' = at + 1
    /\ UNCHANGED <<geo, sb, step, rc, flushed, mnt>>

InitBgsDone ==
    /\ step = "init_bgs" /\ at = GroupCnt(sb)
    /\ at' = 1
    /\ Go("alloc_inodes")
    /\ UNCHANGED <<geo, blk, sb, rc, flushed, mnt>>

(* One round of alloc_inodes: the first free inode of the first group that has
   one (ext4_ialloc_alloc_inode starts at group 0 here). *)
AllocInode ==
    /\ step = "alloc_inodes" /\ at <= FirstIno
    /\ LET full == {g \in 0..(GroupCnt(sb) - 1) : DescOf(blk, g).ifree > 0}
       IN IF full = {} THEN Fail("fs_fini") /\ UNCHANGED <<blk, sb, at>>
          ELSE LET g   == Min(full)
                   d   == DescOf(blk, g)
                   i   == Min((0..(sb.ipg - 1)) \ Bits(blk, d.ibm))
                   dir == at \in {RootIno, FirstIno}
               IN /\ blk' = SetDesc([blk EXCEPT ![d.ibm].s = @ \cup {i}], g,
                              [d EXCEPT !.ifree = @ - 1,
                                        !.dirs = IF dir THEN @ + 1 ELSE @])
                  /\ sb' = [sb EXCEPT !.ifree = @ - 1]
                  /\ at' = at + 1
                  /\ UNCHANGED <<step, rc>>
    /\ UNCHANGED <<geo, flushed, mnt>>

AllocInodesDone ==
    /\ step = "alloc_inodes" /\ at > FirstIno
    /\ at' = 1
    /\ Go("create_dirs")
    /\ UNCHANGED <<geo, blk, sb, rc, flushed, mnt>>

(* The blocks of the two directories: ext4_dir_dx_init takes two for each.
   The group is the block allocator's choice (module Ext4Balloc). *)
DirBlocks == 4
DirBlock(g) ==
    /\ step = "create_dirs" /\ at <= DirBlocks
    /\ g \in 0..(GroupCnt(sb) - 1) /\ DescOf(blk, g).free > 0
    /\ LET d == DescOf(blk, g)
           i == Min((0..(sb.bpg - 1)) \ Bits(blk, d.bbm))
       IN blk' = SetDesc([blk EXCEPT ![d.bbm].s = @ \cup {i},
                                     ![g * sb.bpg + i] =
                                        [k |-> "dir", ino |-> IF at <= 2 THEN RootIno
                                                              ELSE FirstIno]],
                         g, [d EXCEPT !.free = @ - 1])
    /\ sb' = [sb EXCEPT !.free = @ - 1]
    /\ at' = at + 1
    /\ UNCHANGED <<geo, step, rc, flushed, mnt>>

(* The block of the inode table that holds inode n *)
InodeBlk(b, n) == DescOf(b, (n - 1) \div sb.ipg).itab + ((n - 1) % sb.ipg) \div geo.ipb

(* The end of create_dirs: both inodes get their mode and link count. *)
CreateDirs ==
    /\ step = "create_dirs" /\ at > DirBlocks
    /\ blk' = [x \in DOMAIN blk |->
                 LET here == {n \in {RootIno, FirstIno} : x = InodeBlk(blk, n)}
                 IN IF here = {} THEN blk[x]
                    ELSE [k |-> "itab", s |-> [n \in here |-> "dir"]]]
    /\ Go("journal_sb")
    /\ UNCHANGED <<geo, sb, at, rc, flushed, mnt>>

(* write_journal_super_block; mkfs makes no journal inode (info->journal). *)
WriteJournalSb ==
    /\ step = "journal_sb"
    /\ blk' = [blk EXCEPT ![Info.journal_sb] =
                 [k |-> "jsb", first |-> Info.journal_sb + 1,
                  maxlen |-> Info.nr_journal, start |-> 0]]
    /\ Go("stage_sb")
    /\ UNCHANGED <<geo, sb, at, rc, flushed, mnt>>

(* write_stage_super_block; the last block of the area is left out. *)
WriteStageSb ==
    /\ step = "stage_sb"
    /\ blk' = [blk EXCEPT ![Info.staging_sb] =
                 [k |-> "ssb", start |-> Info.staging_sb + 1,
                  end |-> Info.staging_sb + Info.nr_staging - 1,
                  nr |-> Info.nr_staging]]
    /\ Go("fs_fini")
    /\ UNCHANGED <<geo, sb, at, rc, flushed, mnt>>

(* The device fails in one of the steps that end at fs_fini. *)
StepFails ==
    /\ step \in {"init_bgs", "alloc_inodes", "create_dirs", "journal_sb", "stage_sb"}
    /\ Fail("fs_fini")
    /\ UNCHANGED <<geo, blk, sb, at, flushed, mnt>>

(* ext4_fs_fini writes the super block, also after a failure. *)
FsFini ==
    /\ step = "fs_fini"
    /\ blk' = [blk EXCEPT ![0] = [k |-> "sb", s |-> sb]]
    /\ Go("cache_fini")
    /\ UNCHANGED <<geo, sb, at, rc, flushed, mnt>>

(* ext4_block_cache_write_back(bd, 0): its result is not looked at. *)
CacheFini ==
    /\ step = "cache_fini"
    /\ flushed' \in BOOLEAN
    /\ Go("done")
    /\ UNCHANGED <<geo, blk, sb, at, rc, mnt>>

(* ext4_fill_super and ext4_fill_journal_sb, on a device whose blocks all
   reached it. *)
Mount ==
    /\ step = "done" /\ flushed /\ mnt = Off
    /\ blk[0].k = "sb"
    /\ LET s == blk[0].s
           j == blk[s.journal_sb]
           t == blk[s.staging_sb]
       IN mnt' = IF j.k # "jsb" \/ t.k # "ssb" THEN [ok |-> FALSE]
                 ELSE [ok |-> TRUE, nr_blocks |-> s.blocks, nr_inodes |-> s.inodes,
                       first |-> j.first, maxlen |-> j.maxlen,
                       stage_start |-> t.start, stage_end |-> t.end,
                       fs_area |-> s.journal_sb, mounts |-> s.mounts]
    /\ UNCHANGED <<geo, blk, sb, step, at, rc, flushed>>

Next ==
    \/ WriteBgroups
    \/ WriteBgroupsFails
    \/ WriteSblocks
    \/ WriteSblocksFails
    \/ FsInit
    \/ InitBg
    \/ InitBgsDone
    \/ AllocInode
    \/ AllocInodesDone
    \/ \E g \in 0..geo.total : DirBlock(g)
    \/ CreateDirs
    \/ WriteJournalSb
    \/ WriteStageSb
    \/ StepFails
    \/ FsFini
    \/ CacheFini
    \/ Mount

Spec == Init /\ [][Next]_vars

-----------------------------------------------------------------------
Steps == {"mkfs_init", "write_sblocks", "fs_init", "init_bgs", "alloc_inodes",
          "create_dirs", "journal_sb", "stage_sb", "fs_fini", "cache_fini", "done"}

(* The kinds of block mkfs writes, and where it can be. *)
TypeOK ==
    /\ geo \in Geos
    /\ DOMAIN blk = 0..(geo.total - 1)
    /\ \A x \in DOMAIN blk :
          blk[x].k \in {"none", "sb", "gdt", "bits", "itab", "dir", "jsb", "ssb"}
    /\ step \in Steps
    /\ at \in 0..(CASE step = "init_bgs" -> GroupCnt(sb)
                     [] step = "alloc_inodes" -> FirstIno + 1
                     [] OTHER -> geo.total)
    /\ rc \in {"EOK", "EIO", "ENOTSUP"}

(* The groups whose bitmaps are made *)
Ready == IF step \in {"mkfs_init", "write_sblocks", "fs_init"} \/ sb = Off THEN {}
         ELSE IF step = "init_bgs" THEN 0..(at - 1)
         ELSE IF rc # "EOK" THEN {}
         ELSE 0..(GroupCnt(sb) - 1)

(* The block bitmap of every initialised group covers the group's own super
   block, descriptors, bitmaps and inode table, these are different blocks
   inside the group, and no directory was given one of them: what mkfs lays
   out and what ext4_fs_init_block_bitmap later works out from the super block
   agree (ext4_mkfs.c, ext4_fs.c). *)
MetaReserved ==
    \A g \in Ready :
       LET d     == DescOf(blk, g)
           own   == {d.bbm, d.ibm} \cup d.itab..(d.itab + Aux.itb - 1)
           front == IF HasSuperblock(g)
                    THEN g * geo.bpg .. (g * geo.bpg + NumGdb(sb, g)) ELSE {}
           gdts  == 1..DivUp(GroupCnt(sb), geo.dpb)
       IN /\ own \cap front = {}
          /\ d.itab > d.ibm /\ d.ibm > d.bbm
          /\ \A x \in own \cup front \cup (IF g = 0 THEN gdts ELSE {}) :
                /\ x \in g * geo.bpg .. ((g + 1) * geo.bpg - 1)
                /\ x - g * geo.bpg \in Bits(blk, d.bbm)
                /\ blk[x].k # "dir"

(* The counters agree with the bitmaps: a group never claims more free blocks
   than its bitmap has, its free inodes are exactly the clear bits, and the
   super block's counters are the sums (write_bgroups, ext4_fs_init_block_bitmap,
   alloc_inodes). *)
FreeCounted ==
    /\ \A g \in Ready :
          LET d == DescOf(blk, g)
          IN /\ d.free <= Cardinality((0..(geo.bpg - 1)) \ Bits(blk, d.bbm))
             /\ d.ifree = Cardinality((0..(geo.bpg - 1)) \ Bits(blk, d.ibm))
    /\ Ready # {} /\ step # "init_bgs" =>
          /\ sb.free = MapThenSumSet(LAMBDA g : DescOf(blk, g).free, Ready)
          /\ sb.ifree = MapThenSumSet(LAMBDA g : DescOf(blk, g).ifree, Ready)

(* "Reduce the total block size used by lwext4 by the journal and staging area
   size" (ext4_mkfs.c): no block the file system may hand out belongs to the
   journal or to the staging area. *)
AreasApart == sb # Off => sb.blocks <= Info.journal_sb

(* A mount after a mkfs that reported success and whose last write back went
   through finds both super blocks; the log, the staging area and the file
   system lie inside the device and apart, and the root is a directory
   (ext4_fill_super, ext4_fill_journal_sb). *)
Mountable ==
    mnt # Off /\ rc = "EOK" =>
       /\ mnt.ok
       /\ mnt.nr_blocks <= mnt.fs_area /\ mnt.fs_area < mnt.first
       /\ mnt.first + mnt.maxlen <= sb.staging_sb
       /\ sb.staging_sb < mnt.stage_start /\ mnt.stage_start <= mnt.stage_end
       /\ mnt.stage_end < geo.total
       /\ blk[InodeBlk(blk, RootIno)].k = "itab"
       /\ blk[InodeBlk(blk, RootIno)].s[RootIno] = "dir"
       /\ (RootIno - 1) % sb.ipg \in Bits(blk, DescOf(blk, (RootIno - 1) \div sb.ipg).ibm)
=======================================================================
