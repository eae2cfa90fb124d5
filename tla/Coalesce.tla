------------------------------- MODULE Coalesce -------------------------------
(***************************************************************************)
(* The checkpoint of one journal transaction in DevFS with coalescing,     *)
(* do_checkpoint_coalesce() in devfs/src/journal.c: the tags of the stage  *)
(* transactions it names and then its own tags are put on one list,        *)
(* overwritten parts are invalidated, neighbours are merged, and what is   *)
(* left is read from the stage area or the log and written in place.       *)
(***************************************************************************)
EXTENDS JournalTags, SequencesExt

VARIABLES
    pass,   \* the pass, or "done"
    nstx,   \* stage transactions scanned
    next,   \* stage address of the next one
    nodes,  \* tag_list
    pos,    \* the node of the pass's loop
    grp,    \* last_src_start_baddr_group
    cur,    \* current_src_start_baddr
    buf,    \* cur_buf_size
    bios,   \* the bios of read_bl and write_bl
    io,     \* the bios are dispatched
    disk,   \* the file system blocks
    want    \* history: the file system blocks after every tag in its order

cvars == <<pass, nstx, next, nodes, pos, grp, cur, buf, bios, io, disk, want>>

Init ==
    /\ pass = "stage"
    /\ nstx = 0
    /\ next = StageFirst
    /\ nodes = <<>>
    /\ pos = 1
    /\ grp = Invalid
    /\ cur = 0
    /\ buf = 0
    /\ bios = {}
    /\ io = FALSE
    /\ disk = [b \in Fs |-> Content(Invalid)]
    /\ want = disk

-----------------------------------------------------------------------------
(* Passes 1 and 2: the tag list.                                           *)

TagLists(first) == BoundedSeq(Tags(first), MaxTags - Len(nodes))

Nodes(tags, src, stage) ==
    [k \in 1..Len(tags) |->
        [start |-> tags[k].start, cnt |-> tags[k].cnt, src |-> src, stage |-> stage]]

(* Pass 1, one stage transaction: its inode is written into its slot at    *)
(* once, its tags are listed.  The host keeps a stage transaction in one   *)
(* piece; its data and index blocks are never inode blocks.                *)
ScanStageTx ==
    /\ pass = "stage"
    /\ nstx < MaxStageTx
    /\ \E tags \in TagLists(InodeBlk + 1), etags \in {0, 1}, slot \in Slots :
          LET src == next + etags + 1
          IN  /\ tags = <<>> => etags = 0
              /\ src + Sum(tags) <= StageLast
              /\ nodes' = nodes \o Nodes(tags, src, TRUE)
              /\ next' = src + Sum(tags) + 1
              /\ disk' = [disk EXCEPT ![InodeBlk][slot] = next]
              /\ want' = Replay([want EXCEPT ![InodeBlk][slot] = next], tags, src, TRUE)
    /\ nstx' = nstx + 1
    /\ UNCHANGED <<pass, pos, grp, cur, buf, bios, io>>

(* Pass 2: the tags of the descriptor block and of the etag blocks.  The   *)
(* transaction is not empty and its blocks, the descriptor and the commit  *)
(* block fit in the log.                                                   *)
ScanJournalTx ==
    /\ pass = "stage"
    /\ \E tags \in TagLists(InodeBlk), start \in JFirst..JLast :
          /\ nstx > 0 \/ tags # <<>>
          /\ Sum(tags) + 2 <= JLast - JFirst + 1
          /\ nodes' = nodes \o Nodes(tags, start + 1, FALSE)
          /\ want' = Replay(want, tags, start + 1, FALSE)
    /\ pass' = "optimize"
    /\ UNCHANGED <<nstx, next, pos, grp, cur, buf, bios, io, disk>>

-----------------------------------------------------------------------------
(* Pass 3: every node cuts the nodes before it.                            *)

Part(r, start, cnt) == [r EXCEPT !.start = IF cnt = 0 THEN Invalid ELSE start, !.cnt = cnt]

(* Mutant: only a tag for the very same blocks replaces an older one.      *)
CutSame(r, n) ==
    IF n.start = r.start /\ n.cnt = r.cnt THEN <<Part(r, Invalid, r.cnt)>> ELSE <<r>>

(* The older node r without the blocks of the later node n.                *)
Cut(r, n) ==
    LET end == n.start + n.cnt
        end_r == r.start + r.cnt
    IN  CASE r.start = Invalid \/ end_r <= n.start \/ end <= r.start -> <<r>>
          [] n.start >= r.start /\ end <= end_r /\ n.cnt # r.cnt ->
                 <<Part(r, r.start, n.start - r.start), Part(r, Invalid, n.cnt)>>
                     \o IF end_r > end THEN <<Part(r, end, end_r - end)>> ELSE <<>>
          [] n.start <= r.start /\ end >= end_r -> <<Part(r, Invalid, r.cnt)>>
          [] n.start < r.start /\ end < end_r ->
                 <<Part(r, Invalid, end - r.start), Part(r, end, end_r - end)>>
          [] OTHER ->
                 <<Part(r, r.start, n.start - r.start), Part(r, Invalid, end_r - n.start)>>

Optimize ==
    /\ pass = "optimize"
    /\ pos <= Len(nodes)
    /\ LET older == FlattenSeq([k \in 1..(pos - 1) |-> Cut(nodes[k], nodes[pos])])
       IN  /\ nodes' = older \o SubSeq(nodes, pos, Len(nodes))
           /\ pos' = Len(older) + 2
    /\ UNCHANGED <<pass, nstx, next, grp, cur, buf, bios, io, disk, want>>

-----------------------------------------------------------------------------
(* Pass 4: a node joins the one before it in its group.                    *)

Joins(p, n) ==
    \/ p.start = Invalid /\ n.start = Invalid
    \/ p.start # Invalid /\ n.start # Invalid /\ n.start = p.start + p.cnt

FirstOfGroup ==
    /\ pass = "coalesce"
    /\ pos <= Len(nodes)
    /\ grp # nodes[pos].src
    /\ grp' = nodes[pos].src
    /\ pos' = pos + 1
    /\ UNCHANGED <<pass, nstx, next, nodes, cur, buf, bios, io, disk, want>>

JoinNode ==
    /\ pass = "coalesce"
    /\ pos <= Len(nodes)
    /\ grp = nodes[pos].src
    /\ IF Joins(nodes[pos - 1], nodes[pos])
         THEN /\ nodes' = RemoveAt([nodes EXCEPT ![pos - 1].cnt = @ + nodes[pos].cnt], pos)
              /\ UNCHANGED pos
         ELSE /\ pos' = pos + 1
              /\ UNCHANGED nodes
    /\ UNCHANGED <<pass, nstx, next, grp, cur, buf, bios, io, disk, want>>

-----------------------------------------------------------------------------
(* Pass 5: the source address of every node, and the I/O.                  *)

(* The source of the node follows that of the node before it in its group, *)
(* valid or not.                                                           *)
Source(n) == IF grp # n.src THEN n.src ELSE cur

RunsOver(src, cnt, stage) == src + cnt - 1 > AreaLast(stage)

(* A node that runs over the end of its area is split there; the second    *)
(* part is a node of the group that follows.  A valid node gets a bio, and *)
(* a full buffer is dispatched.  A node without blocks is skipped.         *)
AddBio ==
    /\ pass = "checkpoint" /\ ~io
    /\ pos <= Len(nodes)
    /\ IF nodes[pos].cnt = 0 THEN UNCHANGED <<nodes, grp, cur, buf, bios, io>> ELSE
       LET n == nodes[pos]
           src == Source(n)
           last == AreaLast(n.stage)
           wraps == RunsOver(src, n.cnt, n.stage)
           cnt == IF wraps THEN last - src + 1 ELSE n.cnt
           one == Part(n, n.start, cnt)
           two == Part(n, IF n.start = Invalid THEN Invalid ELSE n.start + cnt, n.cnt - cnt)
           size == buf + one.cnt
       IN  /\ grp' = n.src
           /\ cur' = IF wraps THEN AreaFirst(n.stage) ELSE src + n.cnt
           /\ nodes' = IF wraps THEN InsertAt([nodes EXCEPT ![pos] = one], pos + 1, two)
                       ELSE nodes
           /\ IF one.start = Invalid
                THEN UNCHANGED <<buf, bios, io>>
                ELSE /\ bios' = bios \cup {[src |-> src, dst |-> one.start, cnt |-> one.cnt]}
                     /\ buf' = IF size >= BufBlks THEN 0 ELSE size
                     /\ io' = (size >= BufBlks)
    /\ pos' = pos + 1
    /\ UNCHANGED <<pass, nstx, next, disk, want>>

(* se_request_dispatch_io_sync(): the writes reach the device in any order *)
WriteBio ==
    /\ io
    /\ \E b \in bios :
          /\ disk' = [a \in Fs |-> IF a \in Covers(b.dst, b.cnt)
                                     THEN Content(b.src + a - b.dst) ELSE disk[a]]
          /\ bios' = bios \ {b}
          /\ io' = (bios' # {})
    /\ UNCHANGED <<pass, nstx, next, nodes, pos, grp, cur, buf, want>>

DispatchRest ==
    /\ pass = "checkpoint" /\ ~io
    /\ pos > Len(nodes)
    /\ bios # {}
    /\ io' = TRUE
    /\ UNCHANGED <<pass, nstx, next, nodes, pos, grp, cur, buf, bios, disk, want>>

-----------------------------------------------------------------------------
After == [optimize |-> "coalesce", coalesce |-> "checkpoint", checkpoint |-> "done"]

EndPass ==
    /\ pass \in DOMAIN After
    /\ pos > Len(nodes)
    /\ ~io /\ bios = {}
    /\ pass' = After[pass]
    /\ pos' = 1
    /\ grp' = Invalid
    /\ UNCHANGED <<nstx, next, nodes, cur, buf, bios, io, disk, want>>

Done == pass = "done" /\ UNCHANGED cvars

Next ==
    \/ ScanStageTx \/ ScanJournalTx \/ Optimize \/ FirstOfGroup \/ JoinNode
    \/ AddBio \/ WriteBio \/ DispatchRest \/ EndPass \/ Done

Spec == Init /\ [][Next]_cvars

-----------------------------------------------------------------------------
Addr == Invalid..(JLast + 1)

(* The types of the tag list, of the I/O and of the blocks.                *)
TypeOK ==
    /\ pass \in {"stage", "optimize", "coalesce", "checkpoint", "done"}
    /\ nstx \in 0..MaxStageTx
    /\ next \in StageFirst..(StageLast + 1)
    /\ nodes \in Seq([start : Addr, cnt : Nat, src : Addr, stage : BOOLEAN])
    /\ pos \in 1..(Len(nodes) + 1)
    /\ grp \in Addr
    /\ cur \in Nat
    /\ buf \in 0..(BufBlks - 1)
    /\ bios \in SUBSET [src : Addr, dst : Fs, cnt : Nat \ {0}]
    /\ io \in BOOLEAN
    /\ {disk, want} \subseteq [Fs -> [Slots -> Addr]]

(* Checkpointing the optimised list leaves on the device what replaying    *)
(* the tags one by one would: every block, and every inode of an inode     *)
(* block, has its newest contents, whatever the overlaps, the merging, the *)
(* wrap-around of the log and the order of the writes in a batch.          *)
Checkpointed == pass = "done" => disk = want

(* No read of the checkpoint leaves the stage area or the log of the       *)
(* transaction, and none reads past the end of an area.                    *)
SourceInside ==
    \A b \in bios : \/ b.src >= StageFirst /\ b.src + b.cnt - 1 <= StageLast
                    \/ b.src >= JFirst /\ b.src + b.cnt - 1 <= JLast
=============================================================================
