----------------------------- MODULE Ext4Balloc -----------------------------
(***************************************************************************)
(* The block allocator of lwext4 (ext4_balloc.c, ext4_bitmap.c) as         *)
(* operators on its persistent state                                       *)
(*                                                                         *)
(*   fs = [used, bgfree, sbfree]                                           *)
(*                                                                         *)
(* used:   the blocks whose bit is set in the bitmap of their group;       *)
(* bgfree: the free count of every group descriptor;                       *)
(* sbfree: the free count of the superblock.                               *)
(*                                                                         *)
(* Every entry point holds balloc_lock around the whole call, so a call is *)
(* one step of its caller.  Blocks are 4 KiB: the first data block is 0,   *)
(* and a bitmap block has one bit per block of its group.                  *)
(***************************************************************************)
EXTENDS Integers, FiniteSets, FiniteSetsExt

CONSTANTS
  BlocksPerGroup, \* blocks_per_group
  NBlocks,        \* blocks_count: the last group may be short
  Meta            \* superblock, descriptors, bitmaps, inode tables: never given out

ASSUME BallocAssumption ==
  /\ BlocksPerGroup \in Nat \ {0}
  /\ NBlocks \in Nat \ {0}
  /\ Meta \subseteq 0 .. NBlocks - 1
  /\ 0 \in Meta

Blocks == 0 .. NBlocks - 1

\* ext4_block_group_cnt
GroupCount == (NBlocks + BlocksPerGroup - 1) \div BlocksPerGroup

Groups == 0 .. GroupCount - 1

BgidOf(b) == b \div BlocksPerGroup

IdxInBg(b) == b % BlocksPerGroup

\* ext4_blocks_in_group_cnt
BlocksInGroup(g) ==
  IF g < GroupCount - 1 THEN BlocksPerGroup
  ELSE NBlocks - (GroupCount - 1) * BlocksPerGroup

GroupBlocks(g) == {b \in Blocks : BgidOf(b) = g}

\* The state after mkfs: only the metadata is in use.
Formatted ==
  [used   |-> Meta,
   bgfree |-> [g \in Groups |-> Cardinality(GroupBlocks(g) \ Meta)],
   sbfree |-> NBlocks - Cardinality(Meta)]

Run(b, n) == b .. b + n - 1

\* The starts, at index idx or later in group g, of n clear bits in a row that
\* stay inside the group.
ClearRuns(fs, g, idx, n) ==
  {b \in GroupBlocks(g) :
     /\ IdxInBg(b) >= idx
     /\ IdxInBg(b) + n <= BlocksInGroup(g)
     /\ Run(b, n) \cap fs.used = {}}

\* The order in which groups are searched after the goal's: the next ones
\* first, wrapping around, the goal's own group last and from its start.
RECURSIVE SearchGroups(_, _, _, _)
SearchGroups(fs, g, count, n) ==
  IF count = 0 THEN 0
  ELSE IF fs.bgfree[g] >= n /\ ClearRuns(fs, g, 0, n) # {}
       THEN Min(ClearRuns(fs, g, 0, n))
       ELSE SearchGroups(fs, (g + 1) % GroupCount, count - 1, n)

\* __ext4_balloc_alloc_block: the goal itself, the blocks after it in its
\* group, then the other groups; 0 (a metadata block) when there is no run.
\* A goal behind the last group names a descriptor with no free blocks.
FindRun(fs, goal, n) ==
  LET g    == BgidOf(goal)
      near == IF g \in Groups /\ fs.bgfree[g] >= n
              THEN ClearRuns(fs, g, IdxInBg(goal), n) ELSE {}
  IN IF near # {} THEN Min(near)
     ELSE SearchGroups(fs, (g + 1) % GroupCount, GroupCount, n)

Taken(fs, b, n) ==
  [used   |-> fs.used \cup Run(b, n),
   bgfree |-> [fs.bgfree EXCEPT ![BgidOf(b)] = @ - n],
   sbfree |-> fs.sbfree - n]

TakenFrom(fs, b, n) == [blk |-> b, fs |-> IF b = 0 THEN fs ELSE Taken(fs, b, n)]

\* ext4_balloc_alloc_block: blk = 0 is ENOSPC.
AllocBlock(fs, goal, n) == TakenFrom(fs, FindRun(fs, goal, n), n)

\* ext4_balloc_free_blocks: a run may span groups, each group is credited with
\* its own part.
FreeBlocks(fs, b, n) ==
  [used   |-> fs.used \ Run(b, n),
   bgfree |-> [g \in Groups |->
                fs.bgfree[g] + Cardinality(Run(b, n) \cap GroupBlocks(g))],
   sbfree |-> fs.sbfree + n]

\* Bitmaps, group descriptors and superblock agree.
CountsAgree(fs) ==
  /\ \A g \in Groups : fs.bgfree[g] = Cardinality(GroupBlocks(g) \ fs.used)
  /\ fs.sbfree = NBlocks - Cardinality(fs.used)
=============================================================================
