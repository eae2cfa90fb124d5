------------------------------ MODULE DirectSync -------------------------------
(***************************************************************************)
(* fsync and sync of the Secure Daemon when background journaling is off:  *)
(* sync_file() writes the dirty pages of a regular file straight to their  *)
(* blocks, then its inode and its metadata buffers; sync_fs() then writes  *)
(* the bitmaps and the super block.                                        *)
(*                                                                         *)
(* There is one file and it is open.  Its lock excludes LibFS's writers    *)
(* while a sync runs.  The contents of a page is the number of its last    *)
(* write; a bio is its first block and its pages, and is written before    *)
(* its submission returns.                                                 *)
(***************************************************************************)
EXTENDS Integers, Sequences, FiniteSets, FiniteSetsExt, SequencesExt

CONSTANTS NPages,      \* the file's pages are 0 .. NPages - 1
          Lbas,        \* layouts: functions from page to block on disk
          MaxVecs,     \* BIO_MAX_VECS
          MaxWrites,   \* bound: writes by LibFS
          Off          \* the value of a variable of a part that is not checked

VARIABLES
    lba,               \* the layout of the file
    mem, disk,         \* contents of the pages, and of the blocks
    dirty, locked,     \* the pages' dirty and lock bits
    req, step, rc,     \* the request, the next step and the error
    ranges, i,         \* i_stg_dirty_start, and the loop variable
    start, cnt,        \* what is left of the range
    be,                \* the page after the extent got last
    bio,               \* the bio being filled: [start, pages]
    listed, handed,    \* history: the pages in the list, those handed to the device
    grown,             \* the shared size is not i_size
    inode, bufs, fsbufs  \* I_DIRTY; dirty buffers of the file and of the file system

dvars == <<lba, mem, disk, dirty, locked, req, step, rc, ranges, i, start, cnt,
           be, bio, listed, handed, grown, inode, bufs, fsbufs>>
pagevars == <<mem, dirty, locked>>
walk == <<ranges, i, start, cnt, be, bio, listed, handed>>
meta == <<inode, bufs, fsbufs>>

Pages == 0 .. NPages - 1
Bufs == {"extent"}
FsBufs == {"bitmap"}
NoBio == [start |-> 0, pages |-> << >>]

Init ==
    /\ lba \in Lbas
    /\ mem = [p \in Pages |-> 0] /\ disk = [b \in UNION {Range(l) : l \in Lbas} |-> 0]
    /\ dirty = {} /\ locked = {}
    /\ req = "none" /\ step = "idle" /\ rc = 0
    /\ ranges = << >> /\ i = 1 /\ start = 0 /\ cnt = 0 /\ be = 0 /\ bio = NoBio
    /\ listed = << >> /\ handed = << >>
    /\ grown = FALSE /\ inode = FALSE /\ bufs = {} /\ fsbufs = {}

-----------------------------------------------------------------------------
Writes == FoldFunction(LAMBDA a, b : a + b, 0, mem)

(* LibFS writes pages that are not locked; the file may grow. *)
Write(ps) ==
    /\ step = "idle" /\ Writes + Cardinality(ps) <= MaxWrites
    /\ ps \cap locked = {}
    /\ mem' = [p \in Pages |-> IF p \in ps THEN mem[p] + 1 ELSE mem[p]]
    /\ dirty' = dirty \cup ps
    /\ grown' \in {grown, TRUE}
    /\ UNCHANGED <<lba, disk, locked, req, step, rc, walk, meta>>

(* do_fsync() or sync_fs(), up to the lock of the file.  When the file has *)
(* grown its inode becomes dirty and blocks are allocated; if that fails   *)
(* the call returns and the file stays locked.                             *)
Sync(r) ==
    /\ step = "idle"
    /\ grown' = FALSE
    /\ \/ /\ ~grown
          /\ step' = "gather" /\ rc' = 0
          /\ UNCHANGED meta
       \/ /\ grown
          /\ step' = "gather" /\ rc' = 0
          /\ inode' = TRUE /\ bufs' = Bufs /\ fsbufs' = fsbufs \cup {"bitmap"}
       \/ /\ grown
          /\ step' = "stuck" /\ rc' = -1
          /\ inode' = TRUE /\ UNCHANGED <<bufs, fsbufs>>
    /\ req' = r
    /\ UNCHANGED <<lba, pagevars, disk, walk>>

(* Maximal runs of dirty pages, in order. *)
RunsOf(d) ==
    LET firsts == SetToSortSeq({p \in d : p - 1 \notin d}, <)
    IN [k \in 1 .. Len(firsts) |->
          [start |-> firsts[k],
           nr |-> Min({n \in 1 .. NPages : firsts[k] + n \notin d})]]

PagesOf(rs) == FlattenSeq([k \in 1 .. Len(rs) |->
                             [n \in 1 .. rs[k].nr |-> rs[k].start + n - 1]])

(* inode_gather_dirty_pagebits(): the dirty bits become lock bits, and the *)
(* runs are added behind what an earlier sync that failed left in the list. *)
Gather ==
    /\ step = "gather"
    /\ \E rs \in {ranges \o RunsOf(dirty)} : ranges' = rs /\ listed' = PagesOf(rs)
    /\ locked' = locked \cup dirty
    /\ dirty' = {}
    /\ i' = 1 /\ cnt' = 0 /\ start' = 0 /\ bio' = NoBio /\ handed' = << >>
    /\ step' = "range"
    /\ UNCHANGED <<lba, mem, disk, req, rc, be, grown, meta>>

(* A range of no pages is one that an earlier sync has finished. *)
SkipRange ==
    /\ step = "range" /\ i <= Len(ranges) /\ ranges[i].nr = 0
    /\ i' = i + 1
    /\ UNCHANGED <<lba, pagevars, disk, req, step, rc, ranges, start, cnt, be, bio,
                   listed, handed, grown, meta>>

(* The pages from p on that lie on consecutive blocks. *)
ExtentEnd(p) == Min({q \in p + 1 .. NPages : q = NPages \/ lba[q] # lba[q - 1] + 1})

(* get_blocks() for page p of the range; an error ends the sync of the     *)
(* data: the pages stay locked and the bio is lost.                        *)
GetBlocks ==
    /\ \/ /\ step = "range" /\ i <= Len(ranges) /\ ranges[i].nr > 0
          /\ start' = ranges[i].start /\ cnt' = ranges[i].nr
       \/ step = "again" /\ UNCHANGED <<start, cnt>>
    /\ \/ be' = ExtentEnd(start') /\ step' = "add" /\ UNCHANGED rc
       \/ step' = "inode" /\ rc' = 1 /\ UNCHANGED be
    /\ UNCHANGED <<lba, pagevars, disk, req, ranges, i, bio, listed, handed, grown, meta>>

(* nvme_wr_submit_bio(): the pages go to consecutive blocks. *)
WriteOut(b) ==
    /\ disk' = [k \in DOMAIN disk |->
                  IF k \in b.start .. b.start + Len(b.pages) - 1
                    THEN mem[b.pages[k - b.start + 1]] ELSE disk[k]]
    /\ handed' = handed \o b.pages

(* add_bvec(): a new bio starts at the block of its first page. *)
Filled(b, p) == IF Len(b.pages) = 0 THEN [start |-> lba[p], pages |-> <<p>>]
                                    ELSE [b EXCEPT !.pages = Append(@, p)]

(* bio_full() *)
BioFull(b) == Len(b.pages) = MaxVecs

(* Mutant: the next extent is looked up for the start of the range. *)
AfterPageRestart(p) == IF p + 1 = be /\ cnt > 1 THEN ranges[i].start ELSE p + 1

AfterPage(p) == p + 1

(* One page of the range is added; a full bio is submitted.  At the end of *)
(* the extent the next one is got, at the end of the range it is cleared.  *)
AddPage ==
    /\ step = "add"
    /\ \E b \in {Filled(bio, start)} :
         IF BioFull(b)
           THEN WriteOut(b) /\ bio' = NoBio
           ELSE bio' = b /\ UNCHANGED <<disk, handed>>
    /\ start' = AfterPage(start) /\ cnt' = cnt - 1
    /\ IF cnt = 1
         THEN /\ ranges' = [ranges EXCEPT ![i] = [start |-> 0, nr |-> 0]]
              /\ i' = i + 1 /\ step' = "range"
         ELSE /\ step' = IF start + 1 < be THEN "add" ELSE "again"
              /\ UNCHANGED <<ranges, i>>
    /\ UNCHANGED <<lba, pagevars, req, rc, be, listed, grown, meta>>

(* The last bio is submitted, the pages that are still in the list are     *)
(* unlocked, and the list is emptied.                                      *)
FinishData ==
    /\ step = "range" /\ i > Len(ranges)
    /\ IF Len(bio.pages) > 0 THEN WriteOut(bio) ELSE UNCHANGED <<disk, handed>>
    /\ locked' = locked \ Range(PagesOf(ranges))
    /\ ranges' = << >> /\ bio' = NoBio
    /\ step' = "inode"
    /\ UNCHANGED <<lba, mem, dirty, req, rc, i, start, cnt, be, listed, grown, meta>>

(* sync_inode_metadata(): the inode if it is dirty, then every dirty       *)
(* buffer of the file.                                                     *)
SyncInode ==
    /\ step = "inode"
    /\ inode' = FALSE /\ bufs' = {}
    /\ step' = IF req = "sync" THEN "fs" ELSE "idle"
    /\ req' = IF req = "sync" THEN req ELSE "none"
    /\ UNCHANGED <<lba, pagevars, disk, rc, walk, grown, fsbufs>>

(* sync_all_fs_metadata(): every dirty bitmap, and always the super block. *)
SyncFsMetadata ==
    /\ step = "fs"
    /\ fsbufs' = {}
    /\ step' = "idle" /\ req' = "none"
    /\ UNCHANGED <<lba, pagevars, disk, rc, walk, grown, inode, bufs>>

Next ==
    \/ \E ps \in SUBSET Pages : ps # {} /\ Write(ps)
    \/ \E r \in {"fsync", "sync"} : Sync(r)
    \/ Gather \/ SkipRange \/ GetBlocks \/ AddPage \/ FinishData \/ SyncInode \/ SyncFsMetadata

Spec == Init /\ [][Next]_dvars

-----------------------------------------------------------------------------
(* Every variable has its type, a bio that is kept has room for a page and *)
(* the walk stays inside the list.                                         *)
TypeOK ==
    /\ dirty \subseteq Pages /\ locked \subseteq Pages /\ dirty \cap locked = {}
    /\ req \in {"none", "fsync", "sync"} /\ rc \in {-1, 0, 1}
    /\ step \in {"idle", "gather", "range", "again", "add", "inode", "fs", "stuck"}
    /\ step = "add" => i \in 1 .. Len(ranges) /\ start \in Pages /\ start < be
    /\ Range(bio.pages) \subseteq Pages /\ Len(bio.pages) < MaxVecs
    /\ grown \in BOOLEAN /\ inode \in BOOLEAN /\ bufs \subseteq Bufs /\ fsbufs \subseteq FsBufs

(* A data sync without an error hands every page of the list to the device *)
(* exactly once and in order, the ranges that an earlier sync left behind  *)
(* when it failed included: across the ends of bios, extents and ranges no *)
(* page is skipped or taken twice.                                         *)
HandedOnce ==
    step \in {"inode", "fs"} /\ rc = 0 => handed = listed

(* "bio is contiguous on disk area": the pages of a bio lie on consecutive *)
(* blocks, so that each is written to its own.                             *)
BioContiguous ==
    \A k \in DOMAIN bio.pages : lba[bio.pages[k]] = bio.start + k - 1
===============================================================================
