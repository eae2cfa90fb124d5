----------------------------- MODULE MpmcRing ------------------------------
(***************************************************************************)
(* The bounded queue of devfs/src/common/ring_buffer_mpmc.c.  A producer   *)
(* claims a position by advancing enqueue_pos and only then stores the     *)
(* value and publishes the slot by setting its sequence number; a consumer *)
(* does the same with dequeue_pos.  Between the two steps the position is  *)
(* counted but the slot is not ready.                                      *)
(***************************************************************************)
EXTENDS Integers

CONSTANT RingCap     \* capacity, a power of two (2M in init_io_dispatcher)

ASSUME RingCapAssumption == RingCap \in Nat \ {0}

\* ring_buffer_mpmc_create
CreateRing ==
    [enq |-> 0, deq |-> 0,
     slots |-> [i \in 0 .. RingCap - 1 |-> [sequence |-> i, value |-> 0]]]

SlotOf(q, pos) == q.slots[pos % RingCap]

\* try_enqueue: the slot of enqueue_pos is free (diff = 0), otherwise -EAGAIN;
\* the claim is the compare-and-swap, the publication the release store.
EnqueueReady(q) == SlotOf(q, q.enq).sequence = q.enq
EnqueueClaim(q) == [q EXCEPT !.enq = @ + 1]
EnqueuePublish(q, pos, elem) ==
    [q EXCEPT !.slots[pos % RingCap] = [sequence |-> pos + 1, value |-> elem]]

\* try_dequeue, in the same two steps.
DequeueReady(q) == SlotOf(q, q.deq).sequence = q.deq + 1
DequeueClaim(q) == [q EXCEPT !.deq = @ + 1]
DequeueRelease(q, pos) == [q EXCEPT !.slots[pos % RingCap].sequence = pos + RingCap]

\* ring_buffer_mpmc_count: claimed and not yet claimed back.
RingCount(q) == q.enq - q.deq
=============================================================================
