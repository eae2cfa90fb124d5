------------------------------ MODULE Checkpoint ------------------------------
(***************************************************************************)
(* The checkpoint of one journal transaction in DevFS without coalescing,  *)
(* do_checkpoint() in devfs/src/journal.c: the stage transactions of each  *)
(* stage trace block are copied to the file system one after another, the  *)
(* tags of the descriptor and etag blocks are read as they are met and     *)
(* written when all stage transactions are done; then the log space is     *)
(* freed.                                                                  *)
(*                                                                         *)
(* One bio list holds the tags of one descriptor or etag block.  The lists *)
(* are written in order, the bios of a list in any order, so the tags of a *)
(* list do not overlap.                                                    *)
(***************************************************************************)
EXTENDS JournalTags, SequencesExt

CONSTANT MaxMeta        \* bound: etag and stage trace blocks of the transaction

VARIABLES
    pc,
    start,   \* ce->j_start_baddr
    desc,    \* the tags of the descriptor block
    nmeta,   \* meta blocks passed by cur
    pend,    \* pending_desc_tags
    src,     \* src_start_baddr
    lists,   \* write_bls
    jtags,   \* the tags met so far
    nstx,    \* stage transactions of the trace block done
    snext,   \* stage address of the next one
    ntags,   \* tags used, for the bound
    out,     \* the bios of the list that is being written
    jfree,   \* the log space is freed
    fs,      \* the file system blocks
    ref      \* history: the file system blocks after the stage tags in order

kvars == <<pc, start, desc, nmeta, pend, src, lists, jtags, nstx, snext, ntags, out, jfree,
           fs, ref>>

Init ==
    /\ pc = "dequeue"
    /\ start = JFirst /\ src = JFirst
    /\ desc = <<>> /\ nmeta = 0 /\ pend = FALSE
    /\ lists = <<>> /\ jtags = <<>>
    /\ nstx = 0 /\ snext = StageFirst /\ ntags = 0
    /\ out = {} /\ jfree = FALSE
    /\ fs = [b \in Fs |-> Content(Invalid)]
    /\ ref = fs

Disjoint(tags) ==
    \A i, j \in DOMAIN tags :
        i # j => Covers(tags[i].start, tags[i].cnt) \cap Covers(tags[j].start, tags[j].cnt) = {}

TagLists(first) == {s \in BoundedSeq(Tags(first), MaxTags - ntags) : Disjoint(s)}

-----------------------------------------------------------------------------

(* check_wrap_around() *)
Wraps(addr, cnt, stage) == addr + cnt - 1 > AreaLast(stage)

(* add_bio_to_bl() adds nothing for no blocks. *)
Bio(s, d, cnt) == IF cnt = 0 THEN {} ELSE {[src |-> s, dst |-> d, cnt |-> cnt]}

(* Mutant: the second part goes where the first one went. *)
SplitSame(a, t, stage) ==
    LET one == AreaLast(stage) - a + 1
    IN  Bio(a, t.start, one) \cup Bio(AreaFirst(stage), t.start, t.cnt - one)

(* A tag whose blocks run over the end of the area gets two bios. *)
Split(a, t, stage) ==
    LET one == AreaLast(stage) - a + 1
    IN  Bio(a, t.start, one) \cup Bio(AreaFirst(stage), t.start + one, t.cnt - one)

(* The bio list of a block of tags, and the source address behind them. *)
Place(a, tags, stage) ==
    FoldLeft(LAMBDA acc, t :
               IF Wraps(acc.src, t.cnt, stage)
                 THEN [bl |-> acc.bl \cup Split(acc.src, t, stage),
                       src |-> AreaFirst(stage) + t.cnt - (AreaLast(stage) - acc.src + 1)]
                 ELSE [bl |-> acc.bl \cup Bio(acc.src, t.start, t.cnt),
                       src |-> acc.src + t.cnt],
             [bl |-> {}, src |-> a], tags)

-----------------------------------------------------------------------------
(* The tags of a descriptor or etag block are read. *)
AddList(tags) ==
    LET p == Place(src, tags, FALSE)
    IN  /\ lists' = Append(lists, p.bl)
        /\ src' = p.src
        /\ jtags' = jtags \o tags

(* The transaction to checkpoint.  If its first meta block is a stage      *)
(* trace block, as it is when there are no tags, the tags of the           *)
(* descriptor block wait for it.                                           *)
Dequeue ==
    /\ pc = "dequeue"
    /\ \E tags \in TagLists(InodeBlk), stage \in BOOLEAN, s \in JFirst..JLast :
          /\ tags = <<>> => stage
          /\ start' = s
          /\ desc' = tags
          /\ pend' = stage
          /\ ntags' = Len(tags)
          /\ LET p == Place(s + 1, tags, FALSE)
             IN  IF stage THEN src' = s + 1 /\ UNCHANGED <<lists, jtags>>
                 ELSE lists' = <<p.bl>> /\ src' = p.src /\ jtags' = tags
          /\ Sum(tags) + 2 <= JLast - JFirst + 1
    /\ pc' = "meta"
    /\ UNCHANGED <<nmeta, nstx, snext, out, jfree, fs, ref>>

EtagBlk ==
    /\ pc = "meta" /\ ~pend /\ desc # <<>> /\ nmeta < MaxMeta
    /\ \E tags \in TagLists(InodeBlk) \ {<<>>} :
          /\ Sum(jtags) + Sum(tags) + 2 <= JLast - JFirst + 1
          /\ AddList(tags)
          /\ ntags' = ntags + Len(tags)
    /\ nmeta' = nmeta + 1
    /\ UNCHANGED <<pc, start, desc, pend, nstx, snext, out, jfree, fs, ref>>

(* checkpoint_stage_trace_blk(); a transaction without tags has one stage  *)
(* trace block.                                                            *)
StageTraceBlk ==
    /\ pc = "meta" /\ nmeta < MaxMeta /\ (nmeta = 0 \/ desc # <<>>)
    /\ pend \/ nmeta > 0
    /\ snext < StageLast
    /\ nstx' = 0
    /\ nmeta' = nmeta + 1
    /\ pc' = "stage"
    /\ UNCHANGED <<start, desc, pend, src, lists, jtags, snext, ntags, out, jfree, fs, ref>>

(* checkpoint_stage_tx() and checkpoint_inode(): the inode is written into *)
(* its slot, then the tags' blocks are copied.                             *)
StageTx ==
    /\ pc = "stage" /\ nstx < MaxStageTx /\ out = {}
    /\ \E tags \in TagLists(InodeBlk + 1), etags \in {0, 1}, slot \in Slots :
          LET a == snext + etags + 1
          IN  /\ tags = <<>> => etags = 0
              /\ a + Sum(tags) <= StageLast
              /\ out' = Place(a, tags, TRUE).bl
              /\ snext' = a + Sum(tags) + 1
              /\ fs' = [fs EXCEPT ![InodeBlk][slot] = snext]
              /\ ref' = Replay([ref EXCEPT ![InodeBlk][slot] = snext], tags, a, TRUE)
              /\ ntags' = ntags + Len(tags)
    /\ nstx' = nstx + 1
    /\ UNCHANGED <<pc, start, desc, nmeta, pend, src, lists, jtags, jfree>>

(* se_request_dispatch_io_sync(): the writes of a list in any order *)
WriteBio ==
    /\ \E b \in out :
          /\ fs' = [a \in Fs |-> IF a \in Covers(b.dst, b.cnt)
                                   THEN Content(b.src + a - b.dst) ELSE fs[a]]
          /\ out' = out \ {b}
    /\ UNCHANGED <<pc, start, desc, nmeta, pend, src, lists, jtags, nstx, snext, ntags, jfree, ref>>

(* The stage trace block is done; now the tags of the descriptor block may *)
(* be read.                                                                *)
StageDone ==
    /\ pc = "stage" /\ nstx > 0 /\ out = {}
    /\ IF pend /\ desc # <<>> THEN AddList(desc) ELSE UNCHANGED <<src, lists, jtags>>
    /\ pend' = FALSE
    /\ pc' = "meta"
    /\ UNCHANGED <<start, desc, nmeta, nstx, snext, ntags, out, jfree, fs, ref>>

MetaDone ==
    /\ pc = "meta" /\ ~pend
    /\ pc' = "write"
    /\ UNCHANGED <<start, desc, nmeta, pend, src, lists, jtags, nstx, snext, ntags, out, jfree, fs, ref>>

WriteList ==
    /\ pc = "write" /\ out = {} /\ lists # <<>>
    /\ out' = Head(lists)
    /\ lists' = Tail(lists)
    /\ UNCHANGED <<pc, start, desc, nmeta, pend, src, jtags, nstx, snext, ntags, jfree, fs, ref>>

Written == lists = <<>> /\ out = {}

(* increase_journal_sb_tx_id() and free_journal_space() *)
FreeSpace ==
    /\ pc = "write" /\ Written
    /\ jfree' = TRUE
    /\ pc' = "done"
    /\ UNCHANGED <<start, desc, nmeta, pend, src, lists, jtags, nstx, snext, ntags, out, fs, ref>>

Done == pc = "done" /\ out = {} /\ UNCHANGED kvars

Next ==
    \/ Dequeue \/ EtagBlk \/ StageTraceBlk \/ StageTx \/ WriteBio \/ StageDone
    \/ MetaDone \/ WriteList \/ FreeSpace \/ Done

Spec == Init /\ [][Next]_kvars

-----------------------------------------------------------------------------
Bios == out \cup UNION {lists[k] : k \in DOMAIN lists}

(* The types of the bios and of the lists; every block of tags met has one *)
(* list (the assertion buf_id == n_data_bufs).                             *)
TypeOK ==
    /\ src \in Nat
    /\ Bios \subseteq [src : Nat, dst : Fs, cnt : Nat \ {0}]
    /\ {fs, ref} \subseteq [Fs -> [Slots -> Invalid..(JLast + 1)]]
    /\ pc = "meta" /\ ~pend => (lists = <<>> <=> desc = <<>>)

(* When the log space of a transaction is freed, the file system has what  *)
(* replaying its stage transactions and then its tags one by one gives,    *)
(* whatever the order of its meta blocks, the wrap-around of the log and   *)
(* the order of the writes of a list (do_checkpoint).                      *)
CopiedWhenFreed == jfree => fs = Replay(ref, jtags, start + 1, FALSE)

(* No read leaves the stage area or the log (check_wrap_around).           *)
ReadsInside ==
    \A b \in Bios : \/ b.src >= StageFirst /\ b.src + b.cnt - 1 <= StageLast
                    \/ b.src >= JFirst /\ b.src + b.cnt - 1 <= JLast
===============================================================================
