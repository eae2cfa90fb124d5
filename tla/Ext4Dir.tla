------------------------------ MODULE Ext4Dir -------------------------------
(***************************************************************************)
(* A directory of lwext4: the hashed index of ext4_dir_idx.c over the      *)
(* entry blocks of ext4_dir.c.  The linear algorithm is cut off by an      *)
(* early return in both add and find, so the index is the only way to an   *)
(* entry.                                                                  *)
(*                                                                         *)
(* The blocks of the directory file are numbered in the order they were    *)
(* appended.  nodes[b] is the index in block b, a sequence of [h, b]: the  *)
(* entries with hash h or more are under block b.  (The hash of the first  *)
(* entry is overlaid by the count and the limit and is never read.)        *)
(* leaves[b] is an entry block, a sequence of slots [n, len] that fill it: *)
(* n is a name, or Unused for a slot whose inode field is 0.               *)
(*                                                                         *)
(* Lengths are in units, a name with its header taking Size[n] of them.    *)
(* Hashes are even: ext4_htree_hash clears the low bit, which an index     *)
(* entry uses to say that its block continues a run of equal hashes.       *)
(***************************************************************************)
EXTENDS Integers, FiniteSets, Sequences, SequencesExt, Functions

CONSTANTS
  Names,
  Unused,
  Hash,      \* Hash[n]
  Size,      \* Size[n]
  BlockSize, \* units of a block
  RootLimit, \* index entries of the root block (508)
  NodeLimit, \* index entries of any other block (511)
  MaxBlocks  \* blocks the allocator has for this directory

\* What an instance assumes of its names and limits.
DirAssumption ==
  /\ Unused \notin Names
  /\ \A n \in Names : Hash[n] > 0 /\ Hash[n] % 2 = 0
  /\ \A n \in Names : Size[n] \in 1 .. BlockSize \div 4
  /\ RootLimit < NodeLimit

VARIABLES
  levels, \* indirect_levels of the root: 0 or 1
  nodes,
  leaves,
  names,  \* reference: added with success, not removed since
  status  \* "up", or the stray access that ended the daemon

vars == <<levels, nodes, leaves, names, status>>

NBlks == Cardinality(DOMAIN nodes) + Cardinality(DOMAIN leaves)

\* ext4_dir_dx_init: the root index in block 0 leads to block 1, one unused
\* slot.
Init ==
  /\ levels = 0
  /\ nodes = (0 :> <<[h |-> 0, b |-> 1]>>)
  /\ leaves = (1 :> <<[n |-> Unused, len |-> BlockSize]>>)
  /\ names = {}
  /\ status = "up"

-----------------------------------------------------------------------------
\* Lookup.

\* The binary search of ext4_dir_dx_get_leaf between positions p and q.
RECURSIVE Bisect(_, _, _, _)
Bisect(ents, hash, p, q) ==
  IF p > q THEN p - 1
  ELSE LET m == p + (q - p) \div 2
       IN IF ents[m].h > hash THEN Bisect(ents, hash, p, m - 1)
          ELSE Bisect(ents, hash, m + 1, q)

Position(b, hash) ==
  [b |-> b, at |-> Bisect(nodes[b], hash, 2, Len(nodes[b]))]

\* ext4_dir_dx_get_leaf: the index blocks from the root down, with the
\* position taken in each.
GetLeaf(hash) ==
  LET top == Position(0, hash)
  IN IF levels = 0 THEN <<top>>
     ELSE <<top, Position(nodes[0][top.at].b, hash)>>

LeafOf(path) == nodes[Last(path).b][Last(path).at].b

\* h & ~1: without the continuation bit.
HashBits(h) == h - (h % 2)

\* ext4_dir_dx_next_block: the path to the next entry block, <<>> when there
\* is none or it does not continue a run of entries with this hash.
NextBlock(path, hash) ==
  LET more == {i \in DOMAIN path : path[i].at < Len(nodes[path[i].b])}
      i    == CHOOSE k \in more : \A l \in more : l <= k
      at   == path[i].at + 1
      h    == HashBits(nodes[path[i].b][at].h)
      here == [path[i] EXCEPT !.at = at]
  IN CASE more = {} -> <<>>
       [] more # {} /\ h # hash -> <<>>
       [] more # {} /\ h = hash /\ i = Len(path) ->
            SubSeq(path, 1, i - 1) \o <<here>>
       [] OTHER -> <<here, [b |-> nodes[0][at].b, at |-> 1]>>

\* ext4_dir_find_in_block: the position of name n, 0 when it is not there.
FindInBlock(slots, n) ==
  LET at == {i \in DOMAIN slots : slots[i].n = n}
  IN IF at = {} THEN 0 ELSE CHOOSE i \in at : \A j \in at : i <= j

\* ext4_dir_dx_find_entry: the entry block that holds n, 0 when the search
\* ends without it.
RECURSIVE FindFrom(_, _)
FindFrom(path, n) ==
  LET b    == LeafOf(path)
      next == NextBlock(path, Hash[n])
  IN CASE FindInBlock(leaves[b], n) # 0 -> b
       [] FindInBlock(leaves[b], n) = 0 /\ next = <<>> -> 0
       [] OTHER -> FindFrom(next, n)

FindEntry(n) == FindFrom(GetLeaf(Hash[n]), n)

-----------------------------------------------------------------------------
\* Entry blocks.

Used(slot) == IF slot.n = Unused THEN 0 ELSE Size[slot.n]

\* ext4_dir_try_insert_entry: the first slot with room, <<>> without one.  An
\* unused slot is taken whole, a used one gives up its tail.
TryInsertEntry(slots, n) ==
  LET fits == {i \in DOMAIN slots : slots[i].len - Used(slots[i]) >= Size[n]}
      i    == CHOOSE k \in fits : \A l \in fits : k <= l
      used == Used(slots[i])
  IN CASE fits = {} -> <<>>
       [] fits # {} /\ used = 0 -> [slots EXCEPT ![i].n = n]
       [] OTHER -> InsertAt([slots EXCEPT ![i].len = used], i + 1,
                            [n |-> n, len |-> slots[i].len - used])

\* The invalidated slot joins its predecessor, unless it is the first.
RemoveSlot(slots, i) ==
  IF i = 1 THEN [slots EXCEPT ![1].n = Unused]
  ELSE RemoveAt([slots EXCEPT ![i - 1].len = @ + slots[i].len], i)

\* The entries written one after the other, the last one's slot reaching to
\* the end of the block.
RECURSIVE Packed(_, _)
Packed(ns, room) ==
  IF Len(ns) = 1 THEN <<[n |-> ns[1], len |-> room]>>
  ELSE <<[n |-> ns[1], len |-> Size[ns[1]]]>> \o
       Packed(Tail(ns), room - Size[ns[1]])

-----------------------------------------------------------------------------
\* Splits.  d is the directory so far, with at the last index block of the
\* path and the position in it.

\* ext4_fs_append_inode_dblk.
NewBlk(d) == Cardinality(DOMAIN d.nodes) + Cardinality(DOMAIN d.leaves)

CanAppend(d) == NewBlk(d) < MaxBlocks

\* ext4_dir_dx_insert_entry: after the current position.
InsertEntry(ents, at, hash, b) == InsertAt(ents, at + 1, [h |-> hash, b |-> b])

IndexFull(d) ==
  Len(d.nodes[d.at.b]) = IF d.at.b = 0 THEN RootLimit ELSE NodeLimit

\* ext4_dir_dx_split_index, levels = 0: the entries of the root move to a
\* new block below it.
PushDown(d) ==
  LET new == NewBlk(d)
  IN [d EXCEPT !.levels = 1,
               !.nodes = (new :> d.nodes[0]) @@
                         [@ EXCEPT ![0] = <<[h |-> 0, b |-> new]>>],
               !.at.b = new]

\* ext4_dir_dx_split_index, levels > 0: the right half moves to a new block,
\* which the root gets an entry for.
HalveIndex(d, root) ==
  LET new  == NewBlk(d)
      b    == d.at.b
      ents == d.nodes[b]
      left == Len(ents) \div 2
  IN [d EXCEPT !.nodes = (new :> SubSeq(ents, left + 1, Len(ents))) @@
                 [@ EXCEPT ![b] = SubSeq(ents, 1, left),
                           ![0] = InsertEntry(@, root, ents[left + 1].h, new)],
               !.at = IF d.at.at > left THEN [b |-> new, at |-> d.at.at - left]
                      ELSE @]

\* ext4_dir_dx_split_index: a full index block is split before it is known
\* whether the new entry needs a block of its own.
IndexStuck(d) ==
  /\ IndexFull(d)
  /\ (d.levels = 1 /\ Len(d.nodes[0]) = RootLimit) \/ ~CanAppend(d)

SplitIndex(d, root) ==
  CASE ~IndexFull(d) -> d
    [] IndexFull(d) /\ d.levels = 0 -> PushDown(d)
    [] OTHER -> HalveIndex(d, root)

\* The valid entries of a block by hash, equal hashes in block order.
Sorted(slots) ==
  LET used == SelectSeq(slots, LAMBDA s : s.n # Unused)
      idx  == SetToSortSeq(DOMAIN used,
                LAMBDA i, j : LET hi == Hash[used[i].n]
                                  hj == Hash[used[j].n]
                              IN hi < hj \/ (hi = hj /\ i < j))
  IN [i \in DOMAIN idx |-> used[idx[i]].n]

\* The first entry with which the entries no longer fit in half a block; 1,
\* the initial value, when they all do.
RECURSIVE Middle(_, _, _)
Middle(ns, i, room) ==
  CASE i > Len(ns) -> 1
    [] i <= Len(ns) /\ Size[ns[i]] > room -> i
    [] OTHER -> Middle(ns, i + 1, room - Size[ns[i]])

\* ext4_dir_dx_split_data of block b: the entries before the middle stay (an
\* empty first part is not written), the others move to a new block, whose
\* index entry says if it continues a run of equal hashes.
SplitData(d, b, ns, mid, hash) ==
  LET new == NewBlk(d)
  IN [d EXCEPT
        !.leaves = (new :> Packed(SubSeq(ns, mid, Len(ns)), BlockSize)) @@
                   IF mid = 1 THEN @
                   ELSE [@ EXCEPT ![b] = Packed(SubSeq(ns, 1, mid - 1), BlockSize)],
        !.nodes[d.at.b] = InsertEntry(@, d.at.at, hash, new)]

\* Mutant: the collision across the middle is not checked.
ContinuedNever(ns, mid) == 0

Continued(ns, mid) == IF Hash[ns[mid]] = Hash[ns[mid - 1]] THEN 1 ELSE 0

-----------------------------------------------------------------------------
\* Operations, each under the directory's lock (i_dir_lock).

Become(d) ==
  /\ levels' = d.levels
  /\ nodes' = d.nodes
  /\ leaves' = d.leaves
  /\ names' = d.names
  /\ status' = d.status

Here(path) ==
  [levels |-> levels, nodes |-> nodes, leaves |-> leaves, names |-> names,
   status |-> status, at |-> Last(path)]

\* The entry for n goes to the block its hash leads to; the result of this
\* second ext4_dir_try_insert_entry is overwritten.
InsertSplit(d, n, b, new) ==
  LET hash == d.nodes[d.at.b][d.at.at + 1].h
      to   == IF Hash[n] >= hash THEN new ELSE b
      put  == TryInsertEntry(d.leaves[to], n)
  IN [d EXCEPT !.leaves[to] = IF put = <<>> THEN @ ELSE put,
               !.names = @ \union {n}]

\* What a split for n may give.  With all entries in one half the middle is
\* the initial 0, the new hash the initial 0, and sort[mid - 1] is read far
\* outside the array: the daemon ends there, or reads some hash.
AddSplit(d, n, b) ==
  LET ns  == Sorted(d.leaves[b])
      mid == Middle(ns, 1, BlockSize \div 2)
      With(hash) == InsertSplit(SplitData(d, b, ns, mid, hash), n, b, NewBlk(d))
  IN IF mid = 1 THEN {[d EXCEPT !.status = "sort"], With(0), With(1)}
     ELSE {With(Hash[ns[mid]] + Continued(ns, mid))}

\* ext4_dir_dx_add_entry; the kernel asks for a name it found no entry for.
AddEntry(n) ==
  /\ status = "up"
  /\ FindEntry(n) = 0
  /\ \E path \in {GetLeaf(Hash[n])} :
     \E b \in {LeafOf(path)} :
     \/ /\ IndexStuck(Here(path)) \* target_block is released, never read
        /\ \E s \in {"up", "target"} : Become([Here(path) EXCEPT !.status = s])
     \/ /\ ~IndexStuck(Here(path))
        /\ \E d \in {SplitIndex(Here(path), path[1].at)} :
           \E slots \in {TryInsertEntry(leaves[b], n)} :
           \/ /\ slots # <<>>
              /\ Become([d EXCEPT !.leaves[b] = slots, !.names = @ \union {n}])
           \/ /\ slots = <<>> /\ ~CanAppend(d)
              /\ Become(d)
           \/ /\ slots = <<>> /\ CanAppend(d)
              /\ \E e \in AddSplit(d, n, b) : Become(e)

\* ext4_dir_find_entry and ext4_dir_remove_entry.
RemoveEntry(n) ==
  /\ status = "up"
  /\ \E b \in {FindEntry(n)} :
     /\ b # 0
     /\ leaves' = [leaves EXCEPT ![b] = RemoveSlot(@, FindInBlock(@, n))]
     /\ names' = names \ {n}
  /\ UNCHANGED <<levels, nodes, status>>

Next == \E n \in Names : AddEntry(n) \/ RemoveEntry(n)

Spec == Init /\ [][Next]_vars

-----------------------------------------------------------------------------
\* ext4_dir_iterator over the blocks of the file: every used slot.  The index
\* blocks begin with an unused slot that spans them (the root after "." and
\* ".."), so they list nothing.
Listing ==
  {<<b, i>> \in UNION {{b} \X DOMAIN leaves[b] : b \in DOMAIN leaves} :
     leaves[b][i].n # Unused}

Lengths(slots) == FoldFunction(LAMBDA s, sum : s.len + sum, 0, slots)

\* The slots of a block fill it exactly and hold their entries; blocks are
\* index or entry blocks, numbered without gaps; an index block has between
\* one entry and its limit.
TypeOK ==
  /\ levels \in {0, 1}
  /\ names \subseteq Names
  /\ status \in {"up", "target", "sort"}
  /\ DOMAIN nodes \intersect DOMAIN leaves = {}
  /\ DOMAIN nodes \union DOMAIN leaves = 0 .. NBlks - 1
  /\ NBlks <= MaxBlocks
  /\ \A b \in DOMAIN nodes :
       Len(nodes[b]) \in 1 .. (IF b = 0 THEN RootLimit ELSE NodeLimit)
  /\ \A b \in DOMAIN leaves :
       /\ Lengths(leaves[b]) = BlockSize
       /\ \A i \in DOMAIN leaves[b] : Used(leaves[b][i]) <= leaves[b][i].len

\* ext4_dir_find_entry finds a name exactly when its last successful
\* operation was to add it: neither the splits of entry and index blocks, nor
\* names with equal hashes on both sides of a split, nor a failed addition
\* lose one.
FoundIffAdded == \A n \in Names : FindEntry(n) # 0 <=> n \in names

\* A listing of the directory (ext4_dir_iterator) has each name once:
\* ext4_dir_dx_split_data leaves an entry in one of the two blocks.
ListedOnce ==
  \A n \in Names :
    Cardinality({e \in Listing : leaves[e[1]][e[2]].n = n}) =
      IF n \in names THEN 1 ELSE 0

\* Every block but the root has exactly one index entry, at the depth of its
\* kind, and the hashes the binary search of ext4_dir_dx_get_leaf compares
\* ascend.
IndexOrdered ==
  LET inner == IF levels = 0 THEN {} ELSE {0}
      Refs(b) == {<<p, i>> \in UNION {{p} \X DOMAIN nodes[p] : p \in DOMAIN nodes} :
                    nodes[p][i].b = b}
  IN /\ \A b \in (DOMAIN nodes \union DOMAIN leaves) \ {0} :
          \E r \in {Refs(b)} :
            /\ Cardinality(r) = 1
            /\ \A e \in r : (e[1] \in inner) <=> b \in DOMAIN nodes
     /\ \A b \in DOMAIN nodes : \A i, j \in 2 .. Len(nodes[b]) :
          i < j => nodes[b][i].h <= nodes[b][j].h
=============================================================================
