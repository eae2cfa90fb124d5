----------------------------- MODULE Ext4Extent -----------------------------
(***************************************************************************)
(* The extent tree of lwext4 (ext4_extent.c) and what grows and cuts it:   *)
(* inode_alloc_blocks of the Secure Daemon (regular files, in chunks, the  *)
(* size already advanced), ext4_fs_append_inode_dblk (directories, one     *)
(* block at a time) and ext4_fs_truncate_inode (library callers).          *)
(*                                                                         *)
(* A tree node is [blk, depth, ents]: the block it lives in (0: the        *)
(* inode), its height, and its entries.  A leaf's entries are extents      *)
(* [fb, len, pb], an inner node's are index entries [fb, kid].  A path is  *)
(* the sequence of [node, at] from the root to a leaf, at being the        *)
(* position ext4_ext_binsearch leaves behind (0: the leaf is empty).       *)
(***************************************************************************)
EXTENDS Ext4Balloc, Sequences, SequencesExt

CONSTANTS
  Files,   \* regular files the Secure Daemon grows
  Libs,    \* directories and library files: appended to, and truncated
  RootCap, \* entries of the inode's own node (4)
  NodeCap, \* entries of a block (340)
  MaxLen,  \* EXT_INIT_MAX_LEN
  Chunk,   \* BITMAP_BLK_NR / 2, blocks asked for at once
  MaxSize  \* bound: blocks of one inode

ASSUME ExtentAssumption ==
  /\ Files \cap Libs = {}
  /\ RootCap \in Nat \ {0}
  /\ NodeCap > RootCap
  /\ Chunk \in 1 .. MaxLen
  /\ MaxSize \in Nat

VARIABLES
  fs,   \* the block allocator (Ext4Balloc)
  root, \* the extent tree of every inode
  size, \* i_size of every inode, in blocks
  todo  \* [cur, cnt]: the blocks inode_alloc_blocks still has to ask for

vars == <<fs, root, size, todo>>

Inos == Files \cup Libs

Leaf(b, ents) == [blk |-> b, depth |-> 0, ents |-> ents]

\* ext4_extent_tree_init
EmptyTree == Leaf(0, <<>>)

\* ext4_ext_max_entries
Cap(node) == IF node.blk = 0 THEN RootCap ELSE NodeCap

Full(node) == Len(node.ents) = Cap(node)

-----------------------------------------------------------------------------
\* Lookup.

\* Mutant: the search misses the entry that starts at block.
BinsearchStrict(ents, block) ==
  LET before == {i \in DOMAIN ents : ents[i].fb < block}
  IN CASE ents = <<>> -> 0
       [] before = {} -> 1
       [] OTHER -> Max(before)

\* ext4_ext_binsearch(_idx): the last entry that starts at or before block,
\* the first entry when there is none.
Binsearch(ents, block) ==
  LET before == {i \in DOMAIN ents : ents[i].fb <= block}
  IN CASE ents = <<>> -> 0
       [] before = {} -> 1
       [] OTHER -> Max(before)

\* ext4_find_extent
RECURSIVE PathTo(_, _)
PathTo(node, block) ==
  LET at == Binsearch(node.ents, block)
  IN <<[node |-> node, at |-> at]>> \o
     (IF node.depth = 0 THEN <<>> ELSE PathTo(node.ents[at].kid, block))

Covers(ex, block) == ex.fb <= block /\ block < ex.fb + ex.len

\* ext4_fs_inode_to_goal_block: the number of the inode's group, taken as a
\* block address; the inodes here are those of group 0.
InodeToGoalBlock == 0

\* ext4_ext_find_goal
FindGoal(path, block) ==
  LET leaf == Last(path)
  IN IF leaf.at # 0
     THEN leaf.node.ents[leaf.at].pb + (block - leaf.node.ents[leaf.at].fb)
     ELSE IF leaf.node.blk # 0 THEN leaf.node.blk ELSE InodeToGoalBlock

-----------------------------------------------------------------------------
\* Insertion.

\* The root after the node at level i of path became node.  With fix, the
\* start of node's first entry is copied into the index above it, and further
\* up as long as that index is the first of its node (correct_indexes).
RECURSIVE Rebuild(_, _, _, _)
Rebuild(path, i, node, fix) ==
  IF i = 1 THEN node
  ELSE LET up  == path[i - 1]
           ent == [fb  |-> IF fix THEN node.ents[1].fb ELSE up.node.ents[up.at].fb,
                   kid |-> node]
       IN Rebuild(path, i - 1, [up.node EXCEPT !.ents[up.at] = ent],
                  fix /\ up.at = 1)

\* ext4_ext_can_append
CanAppend(ex, new) ==
  /\ ex.pb + ex.len = new.pb
  /\ ex.len + new.len <= MaxLen
  /\ ex.fb + ex.len = new.fb

\* ext4_ext_can_prepend
CanPrepend(ex, new) ==
  /\ new.pb + new.len = ex.pb
  /\ ex.len + new.len <= MaxLen
  /\ new.fb + new.len = ex.fb

\* ext4_ext_insert_leaf.  Every caller here asks for a block behind all extents
\* of the file, so only appending, and inserting behind the path's extent,
\* happen; a prepended extent keeps the physical start it had.
InsertLeaf(path, new) ==
  LET leaf == Last(path)
      at   == leaf.at
      ents == leaf.node.ents
      put  == IF at # 0 /\ new.fb < ents[at].fb THEN at ELSE at + 1
      node == CASE at # 0 /\ CanAppend(ents[at], new) ->
                     [leaf.node EXCEPT !.ents[at].len = @ + new.len]
                [] at # 0 /\ CanPrepend(ents[at], new) ->
                     [leaf.node EXCEPT !.ents[at] =
                        [@ EXCEPT !.fb = new.fb, !.len = @ + new.len]]
                [] OTHER -> [leaf.node EXCEPT !.ents = InsertAt(ents, put, new)]
  IN Rebuild(path, Len(path), node,
             Len(node.ents) > Len(ents) /\ at \in {0, 1})

\* The extent found starts where the new one does: EIO.
SameStart(path, new) ==
  LET leaf == Last(path)
  IN leaf.at # 0 /\ leaf.node.ents[leaf.at].fb = new.fb

NeedSplit(path, new) ==
  LET leaf == Last(path)
      ex   == leaf.node.ents[leaf.at]
  IN Full(leaf.node) /\ ~CanAppend(ex, new) /\ ~CanPrepend(ex, new)

\* ext4_ext_grow_indepth: the root moves into a block of its own, a.blk.
MovedRoot(node, b) ==
  [blk |-> 0, depth |-> node.depth + 1,
   ents |-> <<[fb |-> node.ents[1].fb, kid |-> [node EXCEPT !.blk = b]]>>]

Grown(node, a) ==
  [ok |-> a.blk # 0, fs |-> a.fs,
   root |-> IF a.blk = 0 THEN node ELSE MovedRoot(node, a.blk)]

GrowInDepth(f, node) ==
  LET goal == IF node.depth > 0 THEN node.ents[1].kid.blk ELSE InodeToGoalBlock
  IN Grown(node, AllocBlock(f, goal, 1))

\* The nodes of levels i .. Len(path), from the leaf up: each gives the
\* entries behind the path's to a new right sibling in block nb[level].
\* Returns the two nodes at level i.
RECURSIVE Halves(_, _, _, _)
Halves(path, i, start, nb) ==
  LET cur  == path[i]
      tail == SubSeq(cur.node.ents, cur.at + 1, Len(cur.node.ents))
      head == SubSeq(cur.node.ents, 1, cur.at)
  IN IF i = Len(path)
     THEN [left  |-> [cur.node EXCEPT !.ents = head],
           right |-> [cur.node EXCEPT !.ents = tail, !.blk = nb[i]]]
     ELSE LET low == Halves(path, i + 1, start, nb)
          IN [left  |-> [cur.node EXCEPT
                          !.ents = [head EXCEPT ![cur.at].kid = low.left]],
              right |-> [cur.node EXCEPT !.blk = nb[i],
                          !.ents = <<[fb |-> start, kid |-> low.right]>> \o tail]]

\* Blocks for the new nodes, one per level from the leaf up to level i, all
\* near the new extent; on failure those already taken are given back.
RECURSIVE SplitBlocks(_, _, _, _, _)
SplitBlocks(f, goal, level, i, got) ==
  IF level < i THEN [ok |-> TRUE, fs |-> f, nb |-> got]
  ELSE LET With(a) ==
             IF a.blk # 0
             THEN SplitBlocks(a.fs, goal, level - 1, i, got @@ (level :> a.blk))
             ELSE [ok |-> FALSE, nb |-> got,
                   fs |-> FoldSet(LAMBDA l, g : FreeBlocks(g, got[l], 1), f,
                                  DOMAIN got)]
       IN With(AllocBlock(f, goal, 1))

\* ext4_ext_insert_index: the entry for the new right node goes behind the
\* path's, which now leads to the left one.
InsertIndex(up, start, left, right) ==
  [up.node EXCEPT
    !.ents = InsertAt([@ EXCEPT ![up.at].kid = left], up.at + 1,
                      [fb |-> start, kid |-> right])]

\* ext4_ext_split_node, then ext4_ext_insert_index one level above.
SplitAt(path, i, start, b) ==
  LET With(h) == InsertIndex(path[i - 1], start, h.left, h.right)
  IN [ok   |-> b.ok, fs |-> b.fs,
      root |-> IF b.ok
               THEN Rebuild(path, i - 1, With(Halves(path, i, start, b.nb)), FALSE)
               ELSE path[1].node]

SplitNode(f, path, i, new) ==
  LET leaf == Last(path)
  IN SplitAt(path, i,
             IF leaf.at < Cap(leaf.node) THEN leaf.node.ents[leaf.at + 1].fb ELSE new.fb,
             SplitBlocks(f, FindGoal(path, new.fb), Len(path), i, <<>>))

\* ext4_ext_insert_extent: while the leaf is full, split from it up to the
\* lowest node whose parent has room, growing the tree first when none has.
\* The path the code patches by hand after a split or a growth is the one a
\* fresh lookup returns.  A failed split leaves a grown tree grown.
RECURSIVE InsertExtent(_, _, _)
InsertExtent(f, node, new) ==
  LET path == PathTo(node, new.fb)
      room == {i \in DOMAIN path : ~Full(path[i].node)}
      Again(s) == IF s.ok THEN InsertExtent(s.fs, s.root, new) ELSE s
      Split(top, p, i) == IF i = Len(p) THEN top ELSE SplitNode(top.fs, p, i + 1, new)
      After(top, i) == IF top.ok THEN Again(Split(top, PathTo(top.root, new.fb), i))
                       ELSE top
  IN CASE SameStart(path, new) -> [ok |-> FALSE, fs |-> f, root |-> node]
       [] ~SameStart(path, new) /\ ~NeedSplit(path, new) ->
            [ok |-> TRUE, fs |-> f, root |-> InsertLeaf(path, new)]
       [] OTHER ->
            IF room = {} THEN After(GrowInDepth(f, node), 2)
            ELSE After([ok |-> TRUE, fs |-> f, root |-> node], Max(room))

-----------------------------------------------------------------------------
\* Removal.

RECURSIVE NodeBlocks(_)
NodeBlocks(node) ==
  (IF node.blk = 0 THEN {} ELSE {node.blk}) \cup
  (IF node.depth = 0 THEN {}
   ELSE UNION {NodeBlocks(node.ents[i].kid) : i \in DOMAIN node.ents})

RECURSIVE Extents(_)
Extents(node) ==
  IF node.depth = 0 THEN node.ents
  ELSE FlattenSeq([i \in DOMAIN node.ents |-> Extents(node.ents[i].kid)])

DataBlocks(node) ==
  UNION {Run(ex.pb, ex.len) : ex \in Range(Extents(node))}

\* ext4_ext_remove_leaf: the extent that holds `from` is shortened, those
\* behind it go.
CutLeaf(node, at, from) ==
  LET kept == SubSeq(node.ents, 1, at - 1)
      ex   == node.ents[at]
  IN [node EXCEPT !.ents =
        IF ex.fb < from THEN Append(kept, [ex EXCEPT !.len = from - ex.fb])
        ELSE kept]

\* The leaf of `from` is cut and the nodes right of the path go; a node left
\* without entries goes with them (ext4_ext_remove_idx).
RECURSIVE Cut(_, _)
Cut(node, from) ==
  LET at == Binsearch(node.ents, from)
  IN IF node.depth = 0 THEN CutLeaf(node, at, from)
     ELSE LET kid  == Cut(node.ents[at].kid, from)
              kept == SubSeq(node.ents, 1, at - 1)
          IN [node EXCEPT !.ents =
                IF kid.ents = <<>> THEN kept
                ELSE Append(kept, [node.ents[at] EXCEPT !.kid = kid])]

\* ext4_extent_remove_space(from, EXT_MAX_BLOCKS): nothing happens when no
\* extent covers `from`; an emptied root becomes a leaf again.
RemoveSpace(f, node, from) ==
  LET leaf == Last(PathTo(node, from))
      cut  == Cut(node, from)
      new  == IF cut.ents = <<>> THEN EmptyTree ELSE cut
      gone == (NodeBlocks(node) \cup DataBlocks(node)) \
              (NodeBlocks(new) \cup DataBlocks(new))
  IN IF leaf.at = 0 \/ ~Covers(leaf.node.ents[leaf.at], from)
     THEN [fs |-> f, root |-> node]
     ELSE [root |-> new,
           fs   |-> FoldSet(LAMBDA b, g : FreeBlocks(g, b, 1), f, gone)]

-----------------------------------------------------------------------------
\* ext4_ext_next_allocated_block: the start of the entry behind the path.
NextAllocated(path) ==
  LET later == {i \in DOMAIN path : path[i].at < Len(path[i].node.ents)}
  IN IF later = {} THEN MaxSize + 1
     ELSE path[Max(later)].node.ents[path[Max(later)].at + 1].fb

\* ext4_extent_get_blocks without create: the address of a block, 0 for a hole.
Lookup(node, iblock) ==
  LET leaf == Last(PathTo(node, iblock))
      ex   == leaf.node.ents[leaf.at]
  IN IF leaf.at # 0 /\ Covers(ex, iblock) THEN iblock - ex.fb + ex.pb ELSE 0

\* ext4_extent_get_blocks with create: a mapped block is returned as it is;
\* otherwise up to max blocks, not reaching into the next extent, are taken in
\* one run and inserted, and given back when that fails.
GetBlocks(f, node, iblock, max) ==
  LET path == PathTo(node, iblock)
      n    == Min({max, NextAllocated(path) - iblock})
      OrBack(r, b) == IF r.ok THEN r ELSE [r EXCEPT !.fs = FreeBlocks(r.fs, b, n)]
      With(a) ==
        IF a.blk = 0 THEN [ok |-> FALSE, fs |-> f, root |-> node]
        ELSE OrBack(InsertExtent(a.fs, node, [fb |-> iblock, len |-> n, pb |-> a.blk]),
                    a.blk)
  IN IF Lookup(node, iblock) # 0 THEN [ok |-> TRUE, fs |-> f, root |-> node]
     ELSE With(AllocBlock(f, FindGoal(path, iblock), n))

\* ext4_fs_get_inode_dblk_idx of a block of the inode: an empty file has no
\* blocks, whatever its tree says.
DblkIdx(i, iblock) == IF size[i] = 0 THEN 0 ELSE Lookup(root[i], iblock)

Idle == [cur |-> 0, cnt |-> 0]

Init ==
  /\ fs = Formatted
  /\ root = [i \in Inos |-> EmptyTree]
  /\ size = [i \in Inos |-> 0]
  /\ todo = [i \in Inos |-> Idle]

\* The caller of inode_alloc_blocks (stage_inode and the journal's writers)
\* has set i_size to n before the first chunk is asked for;
\* equal block counts ask for nothing, smaller ones are refused.
Grow(i, n) ==
  /\ todo[i] = Idle
  /\ n > size[i]
  /\ todo' = [todo EXCEPT ![i] = [cur |-> size[i], cnt |-> n - size[i]]]
  /\ size' = [size EXCEPT ![i] = n]
  /\ UNCHANGED <<fs, root>>

\* Mutant: a failed chunk also releases the block before it.
AllocChunkUndo(i) ==
  LET n == Min({todo[i].cnt, Chunk})
  IN /\ todo[i] # Idle
     /\ \E r \in {GetBlocks(fs, root[i], todo[i].cur, n)} :
        \E u \in {IF r.ok THEN r ELSE RemoveSpace(r.fs, r.root, todo[i].cur - 1)} :
          /\ fs' = u.fs
          /\ root' = [root EXCEPT ![i] = u.root]
          /\ todo' = [todo EXCEPT ![i] =
                       IF r.ok /\ @.cnt > n
                       THEN [cur |-> @.cur + n, cnt |-> @.cnt - n] ELSE Idle]
     /\ UNCHANGED size

\* One get_blocks of inode_alloc_blocks, under i_idx_lock, which is released
\* between chunks.  A failure ends the call: i_size stays where it is.
AllocChunk(i) ==
  LET n == Min({todo[i].cnt, Chunk})
  IN /\ todo[i] # Idle
     /\ \E r \in {GetBlocks(fs, root[i], todo[i].cur, n)} :
          /\ fs' = r.fs
          /\ root' = [root EXCEPT ![i] = r.root]
          /\ todo' = [todo EXCEPT ![i] =
                       IF r.ok /\ @.cnt > n
                       THEN [cur |-> @.cur + n, cnt |-> @.cnt - n] ELSE Idle]
     /\ UNCHANGED size

\* ext4_fs_append_inode_dblk: the size follows the block.
AppendDblk(i) ==
  /\ size[i] < MaxSize
  /\ \E r \in {GetBlocks(fs, root[i], size[i], 1)} :
       /\ fs' = r.fs
       /\ root' = [root EXCEPT ![i] = r.root]
       /\ size' = [size EXCEPT ![i] = IF r.ok THEN @ + 1 ELSE @]
  /\ UNCHANGED todo

\* ext4_fs_truncate_inode
Truncate(i, n) ==
  /\ n < size[i]
  /\ \E r \in {RemoveSpace(fs, root[i], n)} : fs' = r.fs /\ root' = [root EXCEPT ![i] = r.root]
  /\ size' = [size EXCEPT ![i] = n]
  /\ UNCHANGED todo

Next ==
  \/ \E i \in Files, n \in 1 .. MaxSize : Grow(i, n)
  \/ \E i \in Files : AllocChunk(i)
  \/ \E i \in Libs : AppendDblk(i)
  \/ \E i \in Libs, n \in 0 .. MaxSize - 1 : Truncate(i, n)

Spec == Init /\ [][Next]_vars
-----------------------------------------------------------------------------
\* Properties.

RECURSIVE ExtentSet(_)
ExtentSet(node) ==
  IF node.depth = 0 THEN Range(node.ents)
  ELSE UNION {ExtentSet(ent.kid) : ent \in Range(node.ents)}

Pairs(ex) == {<<ex.fb + k, ex.pb + k>> : k \in 0 .. ex.len - 1}

Map(i) == UNION {Pairs(ex) : ex \in ExtentSet(root[i])}

BM == INSTANCE BlockMap WITH
        map <- [i \in Inos |-> Map(i)], Cuttable <- Libs, Reserved <- Meta,
        MaxRun <- Chunk

\* The extents in the leaves behave as BlockMap: a request for blocks
\* either adds one run of blocks nobody had, behind the mapped ones, or, when
\* the data blocks or the blocks for new tree nodes run out half way through
\* ext4_ext_insert_extent, changes no mapping at all; no growth or split of a
\* tree moves or loses a mapped block.
ImplementsBlockMap == BM!Spec

\* Descending the index finds for every block the extent that holds it, in
\* whatever leaf growth, splits and truncation have left it, and finds none
\* for a block no extent holds (ext4_find_extent, ext4_extent_get_blocks).
LookupFinds ==
  \A i \in Inos : \A m \in {Map(i)}, b \in 0 .. MaxSize - 1 :
    \A p \in {DblkIdx(i, b)} :
      IF p # 0 THEN <<b, p>> \in m ELSE \A q \in m : q[1] # b

RECURSIVE WellFormed(_)
WellFormed(node) ==
  /\ Len(node.ents) <= Cap(node)
  /\ node.blk # 0 => node.ents # <<>>
  /\ \A j \in 1 .. Len(node.ents) - 1 : node.ents[j].fb < node.ents[j + 1].fb
  /\ node.depth > 0 =>
       /\ node.ents # <<>>
       /\ \A j \in DOMAIN node.ents :
            LET kid == node.ents[j].kid
            IN /\ kid.depth = node.depth - 1
               /\ kid.blk # 0
               /\ WellFormed(kid)
               /\ node.ents[j].fb = kid.ents[1].fb
               /\ j < Len(node.ents) =>
                    Last(Extents(kid)).fb < node.ents[j + 1].fb

\* Every tree is one ext4_ext_check accepts and a lookup can descend: no node
\* over its capacity or left empty, uniform depth, each index entry naming the
\* first block under it, also after a split that ran out of blocks half way
\* and after a truncation that emptied a part of the tree.
TreeShape == \A i \in Inos : WellFormed(root[i])

Owned(i) == NodeBlocks(root[i]) \cup DataBlocks(root[i])

NodeCount(i) == Cardinality(NodeBlocks(root[i]))

DataCount(i) ==
  LET es == Extents(root[i])
  IN FoldFunction(LAMBDA ex, n : ex.len + n, 0, es)

\* Space is neither lost nor handed out twice: a bit is set in the block
\* bitmaps exactly for the metadata and for each data block and tree node of
\* some inode, no block has two uses, and the free counts of the groups and of
\* the superblock agree with the bitmaps, whatever allocation failed.
SpaceAccounted ==
  /\ fs.used = Meta \cup UNION {Owned(i) : i \in Inos}
  /\ \A i \in Inos :
       /\ Owned(i) \cap Meta = {}
       /\ Cardinality(Owned(i)) = NodeCount(i) + DataCount(i)
       /\ \A j \in Inos \ {i} : Owned(i) \cap Owned(j) = {}
  /\ CountsAgree(fs)

\* A directory or library file has an address for every block below its size:
\* its size moves only after the block is in the tree, and a truncation leaves
\* nothing mapped behind the new size.  (A regular file has no such guarantee:
\* its size is set before inode_alloc_blocks can fail.)
DenseBelowSize ==
  \A i \in Libs : {p[1] : p \in Map(i)} = 0 .. size[i] - 1

\* Types; the count of blocks still to ask for (a size_t difference of two
\* sizes in inode_alloc_blocks) never wraps.
TypeOK ==
  /\ fs.used \subseteq Blocks
  /\ fs.bgfree \in [Groups -> 0 .. BlocksPerGroup]
  /\ fs.sbfree \in 0 .. NBlocks
  /\ size \in [Inos -> 0 .. MaxSize]
  /\ todo \in [Inos -> [cur : 0 .. MaxSize, cnt : 0 .. MaxSize]]
=============================================================================
