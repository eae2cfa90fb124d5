------------------------------ MODULE SeqRing ------------------------------
(***************************************************************************)
(* The per-thread ring of NVMe sequence slots of the Secure Daemon         *)
(* (io/nvme.c, "Sequence ring allocator").  Every command a thread puts on *)
(* its queue pair borrows the DMA buffer of one slot.  Slots are handed    *)
(* out at the head in ring order and come back in the order in which the   *)
(* device completes the commands, which need not be the ring order.        *)
(***************************************************************************)
EXTENDS Integers, FiniteSets, FiniteSetsExt

CONSTANT SeqCap      \* seqs_capacity: the queue size of the queue pair

ASSUME SeqCapAssumption == SeqCap \in Nat \ {0}

Slots == 0 .. SeqCap - 1

RingType ==
    [head: Slots, tail: Slots, used: 0 .. SeqCap, busy: [Slots -> BOOLEAN]]

EmptyRing ==
    [head |-> 0, tail |-> 0, used |-> 0, busy |-> [i \in Slots |-> FALSE]]

\* __seqs_idx_advance
IdxAdvance(idx, add) == IF idx + add >= SeqCap THEN idx + add - SeqCap ELSE idx + add

\* __seqs_contig_free_from_head: free slots from the head on, at most needed.
ContigFreeFromHead(r, needed) ==
    LET run(k) == \A i \in 0 .. k - 1 : ~r.busy[IdxAdvance(r.head, i)]
    IN  Max({k \in 0 .. Min({SeqCap - r.used, needed}) : run(k)})

\* nvme_seqs_try_acquire answers -EAGAIN unless enough slots are unused and
\* the ones at the head are free.
CanAcquire(r, needed) ==
    /\ needed \in 1 .. SeqCap
    /\ SeqCap - r.used >= needed
    /\ IF needed = 1 THEN ~r.busy[r.head]
       ELSE ContigFreeFromHead(r, needed) >= needed

Acquire(r, needed) ==
    [r EXCEPT !.head = IdxAdvance(r.head, needed),
              !.used = r.used + needed,
              !.busy = [i \in Slots |->
                           \/ r.busy[i]
                           \/ \E k \in 0 .. needed - 1 : i = IdxAdvance(r.head, k)]]

\* nvme_seqs_release; the tail moves over the slots freed in front of it.
Release(r, start, count) ==
    LET given == {IdxAdvance(start, k) : k \in 0 .. count - 1}
        busy  == [i \in Slots |-> r.busy[i] /\ i \notin given]
        used  == r.used - count
        steps == {k \in 0 .. SeqCap - 1 : busy[IdxAdvance(r.tail, k)]}
    IN  IF count = 0 \/ count > r.used THEN r
        ELSE [r EXCEPT !.busy = busy, !.used = used,
                       !.tail = IF used > 0 /\ steps # {}
                                THEN IdxAdvance(r.tail, Min(steps)) ELSE r.tail]
=============================================================================
