---------------------------- MODULE Bcache ----------------------------
(* The block cache that mkfs puts between the ext4 code and the device:
   ext4_bcache_for_mkfs.c (the buffers, their LRU tree and dirty list) and
   the block functions of ext4_blockdev_for_mkfs.c that drive it.

   One client calls one function at a time, so every call is one action.
   The data of a block is the number of the modification that wrote it, Junk in
   a buffer that was allocated and never filled.  "bad" is the set of blocks
   whose writes and reads the device refuses at the moment. *)
EXTENDS Integers, Sequences, FiniteSets, SequencesExt

CONSTANTS Lbas,     \* the logical blocks the client touches (all above zero)
          Marked,   \* those its callers may mark BC_FLUSH or BC_TMP
          Cnt,      \* bc->cnt, the number of buffers the cache should hold
          MaxVal,   \* bound: modifications in all
          MaxRef,   \* bound: handles of one block held at a time
          MaxErr,   \* bound: how often the device starts to refuse a block
          Off       \* stands for "not part of this instance"

VARIABLES bc,       \* struct ext4_bcache with the buffers in its trees
          disk,     \* what the device holds
          wb,       \* bdev->cache_write_back
          bad,      \* blocks the device refuses
          errs,     \* how often it began to
          told,     \* the last call switched write back off and reported success
          mods,     \* modifications so far
          want,     \* the contents the client last gave each block
          stranded  \* modified blocks a failed write left off the dirty list

vars == <<bc, disk, wb, bad, errs, told, mods, want, stranded>>

Junk == -1
Flags == {"UPTODATE", "DIRTY", "FLUSH", "TMP"}

(* ext4_bcache_init_dynamic, ext4_block_bind_bcache *)
Empty == [buf |-> << >>, lru |-> {}, age |-> << >>, dl |-> << >>, n |-> 0]

Cached(c) == DOMAIN c.buf
Has(c, l, f) == f \in c.buf[l].flags
Referenced(c, l) == c.buf[l].ref > 0

Without(s, l) == SelectSeq(s, LAMBDA x : x # l)
SetBuf(c, l, b) == [c EXCEPT !.buf = [k \in DOMAIN c.buf \cup {l} |->
                                        IF k = l THEN b ELSE c.buf[k]]]

(* ++bc->lru_ctr: the buffer becomes the youngest. *)
Touch(c, l) == [c EXCEPT !.age = Append(Without(@, l), l)]

InsertDirtyNode(c, l) ==
    IF l \in ToSet(c.dl) THEN c ELSE [c EXCEPT !.dl = <<l>> \o @]
RemoveDirtyNode(c, l) == [c EXCEPT !.dl = Without(@, l)]

LowestLru(c) == c.age[CHOOSE i \in DOMAIN c.age :
                        /\ c.age[i] \in c.lru
                        /\ \A j \in 1..(i - 1) : c.age[j] \notin c.lru]
IsFull(c) == Cnt <= c.n

-----------------------------------------------------------------------
(* Functions on the pair of cache and device, s = [c |-> .., d |-> ..]. *)

(* ext4_bcache_drop_buf *)
DropBuf(c, l) ==
    [buf |-> [k \in DOMAIN c.buf \ {l} |-> c.buf[k]],
     lru |-> c.lru \ {l},
     age |-> Without(c.age, l),
     dl  |-> IF Has(c, l, "DIRTY") THEN Without(c.dl, l) ELSE c.dl,
     n   |-> c.n - 1]

(* ext4_block_flush_buf; no end_write callback is set in mkfs. *)
FlushBuf(s, l) ==
    IF ~({"DIRTY", "UPTODATE"} \subseteq s.c.buf[l].flags)
    THEN [s |-> s, rc |-> "EOK"]
    ELSE IF l \in bad THEN [s |-> s, rc |-> "EIO"]
    ELSE [s  |-> [c |-> SetBuf(RemoveDirtyNode(s.c, l), l,
                               [s.c.buf[l] EXCEPT !.flags = @ \ {"DIRTY"}]),
                  d |-> [s.d EXCEPT ![l] = s.c.buf[l].data]],
          rc |-> "EOK"]

RECURSIVE ShakeDrops(_)
ShakeDrops(s) ==
    IF s.c.lru = {} \/ ~IsFull(s.c) THEN [s |-> s, rc |-> "EOK"]
    ELSE LET l == LowestLru(s.c)
         IN ShakeDrops([s EXCEPT !.c = DropBuf(s.c, l)])

(* ext4_block_cache_shake *)
RECURSIVE Shake(_)
Shake(s) ==
    IF s.c.lru = {} \/ ~IsFull(s.c) THEN [s |-> s, rc |-> "EOK"]
    ELSE LET l == LowestLru(s.c)
             f == IF Has(s.c, l, "DIRTY") THEN FlushBuf(s, l)
                  ELSE [s |-> s, rc |-> "EOK"]
         IN IF f.rc # "EOK" THEN f
            ELSE Shake([f.s EXCEPT !.c = DropBuf(f.s.c, l)])

(* ext4_bcache_find_get, for a block that is cached *)
FindGet(c, l) ==
    LET c1 == IF Referenced(c, l) THEN c
              ELSE [(IF Has(c, l, "DIRTY") THEN RemoveDirtyNode(Touch(c, l), l)
                     ELSE Touch(c, l)) EXCEPT !.lru = @ \ {l}]
    IN SetBuf(c1, l, [c.buf[l] EXCEPT !.ref = @ + 1])

(* ext4_bcache_alloc, ext4_buf_alloc *)
Alloc(c, l) ==
    IF l \in Cached(c) THEN FindGet(c, l)
    ELSE Touch(SetBuf([c EXCEPT !.n = @ + 1], l,
                      [data |-> Junk, flags |-> {}, ref |-> 1]), l)

(* ext4_bcache_free: the last handle of a block goes.  A dirty buffer waits on
   the list while write back is on, and is written at once otherwise; what the
   device answers is dropped.  A buffer without valid data, or a temporary one,
   does not stay. *)
Free(s, l) ==
    LET c1 == SetBuf(s.c, l, [s.c.buf[l] EXCEPT !.ref = @ - 1])
    IN IF Referenced(c1, l) THEN [s |-> [s EXCEPT !.c = c1], rc |-> "EOK"]
       ELSE LET c2   == [c1 EXCEPT !.lru = @ \cup {l}]
                fl   == c2.buf[l].flags
                wait == wb > 0 /\ "FLUSH" \notin fl /\ "TMP" \notin fl
                f    == IF ~({"DIRTY", "UPTODATE"} \subseteq fl)
                        THEN [s |-> [s EXCEPT !.c = c2], rc |-> "EOK"]
                        ELSE IF wait
                        THEN [s |-> [s EXCEPT !.c = InsertDirtyNode(c2, l)], rc |-> "EOK"]
                        ELSE LET g == FlushBuf([s EXCEPT !.c = c2], l)
                             IN [s  |-> [g.s EXCEPT !.c = SetBuf(@, l,
                                            [@.buf[l] EXCEPT !.flags = @ \ {"FLUSH"}])],
                                 rc |-> g.rc]
            IN IF "UPTODATE" \notin fl \/ "TMP" \in fl
               THEN [f EXCEPT !.s.c = DropBuf(@, l)]
               ELSE f

(* ext4_block_cache_flush: the head of the list first, until it is empty or
   the device refuses one. *)
RECURSIVE CacheFlush(_)
CacheFlush(s) ==
    IF s.c.dl = << >> THEN [s |-> s, rc |-> "EOK"]
    ELSE LET f == FlushBuf(s, Head(s.c.dl))
         IN IF f.rc # "EOK" THEN f ELSE CacheFlush(f.s)

InvalidateBuf(c, l) ==
    SetBuf(IF Has(c, l, "DIRTY") THEN RemoveDirtyNode(c, l) ELSE c, l,
           [c.buf[l] EXCEPT !.flags = @ \ {"UPTODATE", "DIRTY"}])

(* ext4_bcache_invalidate_lba: the walk starts at the buffer of the first
   block; when that block is not cached the others are left alone. *)
InvalidateLba(c, from, cnt) ==
    IF from \notin Cached(c) THEN c
    ELSE FoldSet(LAMBDA l, a : InvalidateBuf(a, l), c,
                 {l \in Cached(c) : l >= from /\ l <= from + cnt - 1})

-----------------------------------------------------------------------
Init ==
    /\ bc = Empty
    /\ disk = [l \in Lbas |-> 0]
    /\ wb = 0
    /\ bad = {}
    /\ errs = 0
    /\ told = FALSE
    /\ mods = 0
    /\ want = [l \in Lbas |-> 0]
    /\ stranded = {}

Now == [c |-> bc, d |-> disk]
Becomes(r, op) ==
    /\ bc' = r.s.c
    /\ disk' = r.s.d
    /\ told' = (op = "write_back" /\ wb' = 0 /\ r.rc = "EOK")

(* ext4_block_get_noread: room is made first, even for a block that is cached. *)
GetNoread(l) ==
    /\ l \in Cached(bc) => bc.buf[l].ref < MaxRef
    /\ LET r == Shake(Now)
       IN Becomes(IF r.rc # "EOK" THEN r ELSE [r EXCEPT !.s.c = Alloc(@, l)],
                  "get_noread")
    /\ UNCHANGED <<wb, bad, errs, mods, want, stranded>>

(* ext4_block_get *)
Get(l) ==
    /\ l \in Cached(bc) => bc.buf[l].ref < MaxRef
    /\ LET r == Shake(Now)
           a == [r EXCEPT !.s.c = Alloc(@, l)]
           g == IF r.rc # "EOK" THEN r
                ELSE IF Has(a.s.c, l, "UPTODATE") THEN a
                ELSE IF l \in bad THEN [Free(a.s, l) EXCEPT !.rc = "EIO"]
                ELSE [a EXCEPT !.s.c = SetBuf(@, l,
                         [@.buf[l] EXCEPT !.data = a.s.d[l],
                                          !.flags = @ \cup {"UPTODATE"}])]
       IN Becomes(g, "get")
    /\ UNCHANGED <<wb, bad, errs, mods, want, stranded>>

(* The client fills the block it holds and calls ext4_bcache_set_dirty. *)
SetDirty(l) ==
    /\ l \in Cached(bc) /\ Referenced(bc, l)
    /\ mods < MaxVal
    /\ mods' = mods + 1
    /\ want' = [want EXCEPT ![l] = mods + 1]
    /\ bc' = SetBuf(bc, l, [bc.buf[l] EXCEPT !.data = mods + 1,
                                             !.flags = @ \cup {"UPTODATE", "DIRTY"}])
    /\ told' = FALSE
    /\ UNCHANGED <<disk, wb, bad, errs, stranded>>

(* The journal's callers ask for a block to be written at once (BC_FLUSH) or
   not to stay (BC_TMP). *)
SetFlag(l, f) ==
    /\ l \in Cached(bc) /\ Referenced(bc, l)
    /\ bc' = SetBuf(bc, l, [bc.buf[l] EXCEPT !.flags = @ \cup {f}])
    /\ told' = FALSE
    /\ UNCHANGED <<disk, wb, bad, errs, mods, want, stranded>>

(* ext4_block_set: the handle goes back, and the call reports success whatever
   happened to the write.  A temporary buffer the device refused is gone. *)
Put(l) ==
    /\ l \in Cached(bc) /\ Referenced(bc, l)
    /\ LET r == Free(Now, l)
       IN /\ Becomes([r EXCEPT !.rc = "EOK"], "set")
          /\ stranded' = IF r.rc # "EOK" THEN stranded \cup {l}
                           ELSE IF bc.buf[l].ref = 1 THEN stranded \ {l}
                           ELSE stranded
          /\ want' = IF r.rc # "EOK" /\ l \notin Cached(r.s.c)
                     THEN [want EXCEPT ![l] = disk[l]] ELSE want
    /\ UNCHANGED <<wb, bad, errs, mods>>

(* ext4_block_cache_write_back *)
WriteBack(on) ==
    /\ on => wb < 1
    /\ wb' = IF on THEN wb + 1 ELSE IF wb > 0 THEN wb - 1 ELSE wb
    /\ Becomes(IF wb' > 0 THEN [s |-> Now, rc |-> "EOK"] ELSE CacheFlush(Now),
               "write_back")
    /\ UNCHANGED <<bad, errs, mods, want, stranded>>

(* ext4_block_flush_lba *)
FlushLba(l) ==
    /\ l \in Cached(bc)
    /\ LET f == FlushBuf([Now EXCEPT !.c = FindGet(bc, l)], l)
           g == Free(f.s, l)
       IN /\ Becomes([g EXCEPT !.rc = f.rc], "flush_lba")
          /\ want' = IF f.rc # "EOK" /\ l \notin Cached(g.s.c)
                     THEN [want EXCEPT ![l] = disk[l]] ELSE want
          /\ stranded' = IF g.rc # "EOK" THEN stranded \cup {l} ELSE stranded
    /\ UNCHANGED <<wb, bad, errs, mods>>

(* ext4_bcache_invalidate_lba throws the contents of the blocks away. *)
Invalidate(from, cnt) ==
    /\ bc' = InvalidateLba(bc, from, cnt)
    /\ want' = [l \in Lbas |-> IF l \in Cached(bc) /\ Has(bc, l, "UPTODATE")
                                  /\ ~Has(bc', l, "UPTODATE")
                               THEN disk[l] ELSE want[l]]
    /\ told' = FALSE
    /\ UNCHANGED <<disk, wb, bad, errs, mods, stranded>>

(* ext4_bcache_cleanup: every buffer is flushed and dropped, whatever the
   device answers; the callers hold no handle then. *)
Cleanup ==
    /\ \A l \in Cached(bc) : ~Referenced(bc, l)
    /\ LET r == FoldSet(LAMBDA l, a : LET f == FlushBuf(a, l)
                                      IN [f.s EXCEPT !.c = DropBuf(@, l)],
                        Now, Cached(bc))
       IN /\ bc' = r.c
          /\ disk' = r.d
          /\ told' = FALSE
          /\ want' = [l \in Lbas |-> IF l \in bad THEN r.d[l] ELSE want[l]]
    /\ UNCHANGED <<wb, bad, errs, mods, stranded>>

DeviceRefuses(l) ==
    /\ l \notin bad /\ errs < MaxErr
    /\ bad' = bad \cup {l}
    /\ errs' = errs + 1
    /\ UNCHANGED <<bc, disk, wb, told, mods, want, stranded>>

DeviceRecovers(l) ==
    /\ l \in bad
    /\ bad' = bad \ {l}
    /\ UNCHANGED <<bc, disk, wb, errs, told, mods, want, stranded>>

Next ==
    \/ \E l \in Lbas : GetNoread(l)
    \/ \E l \in Lbas : Get(l)
    \/ \E l \in Lbas : SetDirty(l)
    \/ \E l \in Marked, f \in {"FLUSH", "TMP"} : SetFlag(l, f)
    \/ \E l \in Lbas : Put(l)
    \/ \E on \in BOOLEAN : WriteBack(on)
    \/ \E l \in Lbas : FlushLba(l)
    \/ \E l \in Lbas, cnt \in {1, 2} : Invalidate(l, cnt)
    \/ Cleanup
    \/ \E l \in Lbas : DeviceRefuses(l)
    \/ \E l \in Lbas : DeviceRecovers(l)

Spec == Init /\ [][Next]_vars

-----------------------------------------------------------------------
(* The cache is well formed: the order of use and the buffers name the same
   blocks, and the counter bc->ref_blocks that decides when the cache is full
   counts them (ext4_bcache_alloc, ext4_bcache_drop_buf). *)
TypeOK ==
    /\ Cached(bc) \subseteq Lbas
    /\ \A l \in Cached(bc) :
          bc.buf[l] \in [data : Junk..MaxVal, flags : SUBSET Flags, ref : 0..MaxRef]
    /\ ToSet(bc.age) = Cached(bc) /\ Len(bc.age) = Cardinality(Cached(bc))
    /\ bc.n = Cardinality(Cached(bc))
    /\ disk \in [Lbas -> 0..MaxVal]

(* "When a buffer is not referenced, it will be stored in both lba_root and
   lru_root, while it will only be stored in lba_root when it is referenced"
   (ext4_bcache_for_mkfs.c): the cache evicts exactly the buffers nobody
   holds. *)
LruExact == bc.lru = {l \in Cached(bc) : ~Referenced(bc, l)}

(* The dirty list is what ext4_block_cache_flush walks until it is empty, so a
   clean or invalid buffer on it would make the walk endless, and a modified
   buffer missing from it would never be written.  It names the modified
   buffers nobody holds, up to those a failed write left off. *)
ListExact ==
    LET ready == {l \in Cached(bc) : /\ ~Referenced(bc, l)
                                     /\ {"DIRTY", "UPTODATE"} \subseteq bc.buf[l].flags}
    IN /\ ToSet(bc.dl) \subseteq ready
       /\ ready \ stranded \subseteq ToSet(bc.dl)
       /\ IsInjective(bc.dl)

(* A block reads as it was last written: from its buffer when that holds valid
   data, from the device otherwise.  Modified data is given up only by a
   temporary buffer or the final cleanup when the device refuses it, and by an
   invalidation. *)
Coherent ==
    \A l \in Lbas : want[l] = IF l \in Cached(bc) /\ Has(bc, l, "UPTODATE")
                              THEN bc.buf[l].data ELSE disk[l]

(* When switching write back off reports success, every block nobody holds is
   on the device, except one whose write failed inside ext4_bcache_free (whose
   callers are not told): what mkfs relies on at its end. *)
Synced ==
    told =>
       \A l \in Lbas \ stranded :
          (l \in Cached(bc) => ~Referenced(bc, l)) => disk[l] = want[l]
=======================================================================
