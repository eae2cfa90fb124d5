------------------------------- MODULE NvmeSetup -------------------------------
(***************************************************************************)
(* nvme_init() of the Secure Daemon: it probes every configured virtual    *)
(* function (VF) of the device, takes one namespace of each, spreads the   *)
(* queue pairs of all threads over the VFs within what each VF has, and    *)
(* gives every thread id a pair and its I/O slots.  The first threads are  *)
(* the I/O workers, the others the read workers.                           *)
(*                                                                         *)
(* A VF is described by what the device answers: how the probe ends, its   *)
(* active namespaces, its sector size, the number of its queue pairs (0 is *)
(* unknown) and the depth of one.  CPU numbers are not modelled.           *)
(***************************************************************************)
EXTENDS Integers, Sequences, FiniteSets, FiniteSetsExt, SequencesExt

CONSTANTS VfLists,    \* lists of VFs: the configured addresses and their device
          Iods,       \* numbers of I/O workers: storage_engine_thread_num
          Rds,        \* numbers of read workers: read_worker_thread_num
          MaxVfs,     \* NVME_MAX_VFS
          Off         \* the value of a variable of a part that is not checked

VARIABLES
    vfs,       \* the configured VFs
    iod, rds,  \* the configured threads
    at,        \* next step of nvme_init()
    probed,    \* VFs that were probed
    ctrlrs,    \* g_controllers: VFs that are attached
    spaces,    \* g_namespaces: [vf, nsid]
    entry,     \* ns_entries: the namespace taken of each VF
    per,       \* qpairs_per_vf
    pairs,     \* g_io_threads: the VF of each thread's queue pair
    slots,     \* seq_max_per_thread
    pool       \* size of the pool of I/O workers

setup == <<vfs, iod, rds, at, probed, ctrlrs, spaces, entry, per, pairs, slots, pool>>
given == <<vfs, iod, rds>>

NVfs == Len(vfs)
Total == iod + rds

Init ==
    /\ vfs \in VfLists /\ iod \in Iods /\ rds \in Rds
    /\ at = "check" /\ probed = 0
    /\ ctrlrs = << >> /\ spaces = << >> /\ entry = << >> /\ per = << >>
    /\ pairs = << >> /\ slots = 0 /\ pool = 0

(* A configuration with more VFs than allowed, or than queue pairs, is     *)
(* refused before anything is touched; the core mask or the environment of *)
(* SPDK may also fail here.                                                *)
Check ==
    /\ at = "check"
    /\ \/ NVfs \in 1 .. MaxVfs /\ Total >= NVfs /\ at' = "probe"
       \/ at' = "null"
    /\ UNCHANGED <<given, probed, ctrlrs, spaces, entry, per, pairs, slots, pool>>

-----------------------------------------------------------------------------
(* attach_cb() registers the active namespaces in ascending order. *)
NamespacesOf(v) ==
    LET ids == SetToSortSeq(vfs[v].ns, <) IN [i \in 1 .. Len(ids) |-> [vf |-> v, nsid |-> ids[i]]]

(* The VFs are probed one after another; a probe may find nothing. *)
ProbeVf(v) ==
    /\ at = "probe" /\ v = probed + 1
    /\ probed' = v
    /\ at' = CASE vfs[v].probe = "error" -> "exit"
               [] vfs[v].probe # "error" /\ v = NVfs -> "collect"
               [] OTHER -> "probe"
    /\ IF vfs[v].probe = "ok"
         THEN ctrlrs' = Append(ctrlrs, v) /\ spaces' = spaces \o NamespacesOf(v)
         ELSE UNCHANGED <<ctrlrs, spaces>>
    /\ UNCHANGED <<given, entry, per, pairs, slots, pool>>

(* The first namespace registered for the VF. *)
FirstOf(v) == LET own == SelectSeq(spaces, LAMBDA s : s.vf = v) IN own[1].nsid

(* One namespace of each VF. *)
Collect ==
    /\ at = "collect"
    /\ IF Len(ctrlrs) = NVfs /\ \A v \in 1 .. NVfs : vfs[v].ns # {}
         THEN /\ entry' = [v \in 1 .. NVfs |-> FirstOf(v)]
              /\ at' = "validate"
         ELSE at' = "exit" /\ UNCHANGED entry
    /\ UNCHANGED <<given, probed, ctrlrs, spaces, per, pairs, slots, pool>>

SameAsFirst(v) == entry[v] = entry[1] /\ vfs[v].sector = vfs[1].sector

Validate ==
    /\ at = "validate"
    /\ at' = IF \A v \in 2 .. NVfs : SameAsFirst(v) THEN "split" ELSE "exit"
    /\ UNCHANGED <<given, probed, ctrlrs, spaces, entry, per, pairs, slots, pool>>

-----------------------------------------------------------------------------
Share(v) == Total \div NVfs + (IF v <= Total % NVfs THEN 1 ELSE 0)

Clamped(v) == IF vfs[v].cap > 0 THEN Min({Share(v), vfs[v].cap}) ELSE Share(v)

Sum(s) == FoldLeft(LAMBDA a, b : a + b, 0, s)

(* Mutant: the deepest VF counts. *)
SlotsMost == Max({vfs[v].depth : v \in 1 .. NVfs})

(* Slots for the VF with the shortest queue. *)
SlotsLeast == Min({vfs[v].depth : v \in 1 .. NVfs})

(* The pairs are split evenly, then cut to what each VF has, and the pool  *)
(* of I/O workers to what is left.  The memory may not suffice.            *)
Split ==
    /\ at = "split"
    /\ per' = [v \in 1 .. NVfs |-> Clamped(v)]
    /\ slots' = SlotsLeast
    /\ pool' = Min({iod, Sum(per')})
    /\ at' \in {"pairs", "exit"}
    /\ UNCHANGED <<given, probed, ctrlrs, spaces, entry, pairs>>

(* The VF that the next thread's pair comes from: VF v has per[v]          *)
(* consecutive thread ids.                                                 *)
Owner == CHOOSE v \in 1 .. NVfs :
           /\ Sum(SubSeq(per, 1, v)) > Len(pairs)
           /\ Sum(SubSeq(per, 1, v - 1)) <= Len(pairs)

(* create_spdk_io_threads_multi(): a failed allocation ends the process. *)
AllocPair ==
    /\ at = "pairs" /\ Len(pairs) < Sum(per)
    /\ \/ pairs' = Append(pairs, Owner) /\ UNCHANGED at
       \/ at' = "died" /\ UNCHANGED pairs
    /\ UNCHANGED <<given, probed, ctrlrs, spaces, entry, per, slots, pool>>

CreatePool ==
    /\ at = "pairs" /\ Len(pairs) = Sum(per)
    /\ at' \in {"done", "exit"}
    /\ UNCHANGED <<given, probed, ctrlrs, spaces, entry, per, pairs, slots, pool>>

Detached(cs) == << >>

(* nvme_exit() *)
NvmeExit ==
    /\ at = "exit"
    /\ at' = "null"
    /\ pairs' = << >>
    /\ spaces' = << >>
    /\ ctrlrs' = Detached(ctrlrs)
    /\ UNCHANGED <<given, probed, entry, per, slots, pool>>

Next ==
    \/ Check \/ Collect \/ Validate \/ Split \/ AllocPair \/ CreatePool \/ NvmeExit
    \/ \E v \in 1 .. NVfs : ProbeVf(v)

Spec == Init /\ [][Next]_setup

-----------------------------------------------------------------------------
(* Lists name configured VFs and namespaces they have, and every VF gets a *)
(* share of at least one and at most all pairs.                            *)
TypeOK ==
    /\ at \in {"check", "probe", "collect", "validate", "split", "pairs", "exit", "done",
               "null", "died"}
    /\ Range(ctrlrs) \subseteq 1 .. NVfs /\ Range(pairs) \subseteq 1 .. NVfs
    /\ \A i \in DOMAIN spaces : spaces[i].nsid \in vfs[spaces[i].vf].ns
    /\ probed \in 0 .. NVfs /\ Len(entry) <= NVfs
    /\ Len(per) \in {0, NVfs} /\ \A v \in DOMAIN per : per[v] \in 1 .. Total
    /\ slots \in Nat /\ pool \in Nat

(* A finished nvme_init() lets the threads of all VFs write the same       *)
(* blocks: each one's namespace is a namespace of its own VF, with the     *)
(* number and the sector size that every other VF has.                     *)
SameBlocks ==
    at = "done" =>
      \A t, u \in DOMAIN pairs :
        /\ entry[pairs[t]] \in vfs[pairs[t]].ns
        /\ entry[pairs[t]] = entry[pairs[u]]
        /\ vfs[pairs[t]].sector = vfs[pairs[u]].sector

(* A finished nvme_init() asked no VF for more pairs than it has nor a     *)
(* pair for more commands than its depth, every I/O worker has a pair, and *)
(* if no VF was too small so has every read worker.                        *)
WithinDevice ==
    at = "done" =>
      /\ \A v \in 1 .. NVfs :
           LET n == Cardinality({t \in DOMAIN pairs : pairs[t] = v})
           IN n > 0 /\ (vfs[v].cap > 0 => n <= vfs[v].cap) /\ slots <= vfs[v].depth
      /\ pool \in 1 .. Len(pairs)
      /\ (\A v \in 1 .. NVfs : vfs[v].cap \notin 1 .. Share(v) - 1) => Len(pairs) = Total

(* An nvme_init() that returns NULL keeps nothing of the device: whatever  *)
(* step failed, every controller it attached is detached again and no pair *)
(* is left.                                                                *)
NothingKept == at = "null" => ctrlrs = << >> /\ pairs = << >> /\ spaces = << >>

(* Every read worker has a queue pair of its own once nvme_init() is done. *)
ReadersHavePairs == at = "done" => \A t \in iod + 1 .. iod + rds : t \in DOMAIN pairs
===============================================================================
